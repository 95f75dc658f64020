----------------------------- MODULE MCRegistry -----------------------------
(* Model-checking instance of Registry: three /enter requests, caps small  *)
(* enough that both the global and the per-url CAS reject some of them.    *)
EXTENDS Registry, TLC

CONSTANTS c1, c2, c3, s1, s2, s3

MCConns == {c1, c2, c3}
MCSids == {s1, s2, s3}

\* two requests, for the liveness run (no symmetry reduction there)
MCConnsPair == {c1, c2}
MCSidsPair == {s1, s2}

\* What clients send, as NormalizeUrl reads it
Raw(bad, parses, scheme, host, path) ==
  [bad |-> bad, parses |-> parses, scheme |-> scheme, host |-> host,
   path |-> path]

MCRawUrls ==
  { Raw(FALSE, TRUE, "https", "a.example", <<"">>),     \* " https://a.example/?q "
    Raw(FALSE, TRUE, "https", "a.example", <<"w", "">>), \* "https://a.example/w/"
    Raw(FALSE, TRUE, "https", "a.example", <<"w">>),     \* "https://a.example/w#h"
    Raw(FALSE, TRUE, "mailto", "", <<"x">>),             \* "mailto:x": no host
    Raw(FALSE, FALSE, "", "", <<>>),                     \* "a.example": no scheme
    Raw(TRUE, TRUE, "https", "a.example", <<"">>) }      \* holds "\r\n"

\* the two worlds those requests name: "https://a.example" and ".../w"
MCUrls == {NormalizeUrl(r) : r \in MCRawUrls} \ {EmptyUrl}

\* stands for 2^64; any value above every cap behaves the same
MCCounterModulus == 16

Symmetry == Permutations(MCConns) \cup Permutations(MCSids)
=============================================================================
