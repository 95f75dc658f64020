----------------------------- MODULE MCSwarmRpc -----------------------------
(* Two sessions; TRANSFER payloads of three size classes: below           *)
(* MIN_LENGTH, long and compressible, long and incompressible (zlib adds   *)
(* its header and checksum).                                               *)
EXTENDS SwarmRpc, TLC

CONSTANTS a, b

MCSessions == {a, b}
MCSizes == {"small", "big", "dense"}
MCByteLen == [z \in MCSizes |-> IF z = "small" THEN 40 ELSE 300]
MCZlibLen == ("small" :> 48) @@ ("big" :> 60) @@ ("dense" :> 311)

Symmetry == Permutations(MCSessions)
====
