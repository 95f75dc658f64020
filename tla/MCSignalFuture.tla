--------------------------- MODULE MCSignalFuture ---------------------------
(* An answer that resolves the future and the timer of set_timeout that    *)
(* rejects it, both racing the awaiting task's polls.                      *)
EXTENDS SignalFuture, TLC

CONSTANTS answer, timer

MCFinishers == {answer, timer}
MCValue == (answer :> "ok") @@ (timer :> "err")
MCTimers == {timer}
====
