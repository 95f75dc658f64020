\* A finish (the answer's resolve or the timer's reject) runs while the
\* awaiting task is between take_result and set_task.
CONSTANTS
  answer = answer
  timer = timer
  None = None
  Finishers <- MCFinishers
  Value <- MCValue
  Timers <- MCTimers
SPECIFICATION Spec
INVARIANT ParkedTaskWillBeWoken
\* A task parked with no waker left in the cell is never polled again;
\* the runtime then simply has nothing to run.
CHECK_DEADLOCK FALSE
