---------------------------- MODULE SignalFuture ----------------------------
(***************************************************************************)
(* SignalFuture (common/src/signal_future.rs) in its native build, where   *)
(* the shared Inner {result, task} sits in an AtomicRefCell and the        *)
(* futures run on tokio's multi-threaded runtime.                          *)
(*                                                                         *)
(* One task awaits the future.  Finishers hold clones of it: the answer,   *)
(* which may resolve it, and the timer of set_timeout, which rejects it    *)
(* after its sleep (the usage its doc comment and the timeout helper of    *)
(* sleep.rs show).  Each of set_result, set_task and take_result holds the *)
(* borrow for its whole body (try_borrow_mut spins until it gets it), so   *)
(* each is one step; poll and finish each make two of them.               *)
(***************************************************************************)
EXTENDS Naturals

CONSTANTS
  Finishers,  \* clones of the future that call finish
  Value,      \* Value[f]: "ok" for a resolve, "err" for a reject
  Timers,     \* the finishers that are set_timeout tasks (always fire)
  None

ASSUME Timers \subseteq Finishers
ASSUME Value \in [Finishers -> {"ok", "err"}]

VARIABLES
  result,   \* Inner.result
  task,     \* Inner.task: holds the awaiting task's waker
  aw,       \* the awaiting task: "ready", "set_task", "parked" or "done"
  got,      \* what its await returned
  fin       \* each finisher: "idle", "wake" (holds a taken waker) or "done"

vars == <<result, task, aw, got, fin>>

-----------------------------------------------------------------------------
(* poll, run by the awaiting task whenever it is scheduled                 *)

\* take_result: a stored result is taken and returned as Ready
PollTakeResult ==
  /\ aw = "ready"
  /\ \/ /\ result # None
        /\ aw' = "done"
        /\ got' = result
        /\ result' = None
     \/ /\ result = None
        /\ aw' = "set_task"
        /\ UNCHANGED <<result, got>>
  /\ UNCHANGED <<task, fin>>

\* set_task(Some(waker)) in a second borrow, then Pending
PollSetTask ==
  /\ aw = "set_task"
  /\ task' = TRUE
  /\ aw' = "parked"
  /\ UNCHANGED <<result, got, fin>>

-----------------------------------------------------------------------------
(* finish, run by a finisher                                               *)

\* set_result: store the value and take the waker
SetResult(f) ==
  /\ fin[f] = "idle"
  /\ result' = Value[f]
  /\ task' = FALSE
  /\ fin' = [fin EXCEPT ![f] = IF task THEN "wake" ELSE "done"]
  /\ UNCHANGED <<aw, got>>

\* task.wake(): tokio schedules the parked task to be polled again
Wake(f) ==
  /\ fin[f] = "wake"
  /\ fin' = [fin EXCEPT ![f] = "done"]
  /\ aw' = IF aw = "parked" THEN "ready" ELSE aw
  /\ UNCHANGED <<result, task, got>>

-----------------------------------------------------------------------------
Init ==
  /\ result = None
  /\ task = FALSE
  /\ aw = "ready"
  /\ got = None
  /\ fin = [f \in Finishers |-> "idle"]

\* nothing is left to run: the future returned and every finisher is done
Terminated == aw = "done" /\ \A f \in Finishers : fin[f] = "done"

Next ==
  \/ PollTakeResult \/ PollSetTask
  \/ \E f \in Finishers : SetResult(f) \/ Wake(f)
  \/ Terminated /\ UNCHANGED vars

\* tokio polls a scheduled task and runs a spawned task to its end, and a
\* timer's sleep ends; an answer need never come.
Fairness ==
  /\ WF_vars(PollTakeResult) /\ WF_vars(PollSetTask)
  /\ \A f \in Finishers : WF_vars(Wake(f))
  /\ \A f \in Timers : WF_vars(SetResult(f))

Spec == Init /\ [][Next]_vars /\ Fairness

-----------------------------------------------------------------------------
(* Properties                                                              *)

TypeOK ==
  /\ result \in {None, "ok", "err"}
  /\ task \in BOOLEAN
  /\ aw \in {"ready", "set_task", "parked", "done"}
  /\ got \in {None, "ok", "err"}
  /\ fin \in [Finishers -> {"idle", "wake", "done"}]

\* The contract of Future::poll: a poll that returns Pending has arranged
\* for the task to be woken.  Whenever the awaiting task is parked (poll
\* returned Pending after set_task) and the cell already holds a result,
\* some finisher holds the waker it took in set_result and is about to
\* wake the task; otherwise the result sits in the cell and nothing polls
\* for it.  A finish that runs between poll's take_result and set_task
\* stores its result while the cell has no waker to take.
ParkedTaskWillBeWoken ==
  (aw = "parked" /\ result # None) => \E f \in Finishers : fin[f] = "wake"

=============================================================================
