------------------------------ MODULE Callers ------------------------------
(***************************************************************************)
(* The callers of an isle, as far as its two front ends have them in       *)
(* common: calls, calls with a deadline, tasks, and what a caller may do   *)
(* to give up.  Isle (handle.rs, task.rs) and AsyncIsle (async_isle.rs,    *)
(* async_task.rs) wrap the same thread in the same protocol; SyncIsle and  *)
(* AsyncIsle extend this module with who owns the thread.                  *)
(***************************************************************************)
EXTENDS IsleThread

CONSTANTS
  Cancellers,  \* threads that hold clones of the tasks' cancel tokens
  Ops          \* the operations callers use

\* The caller of a job fires its token itself at a deadline or a drop.
ASSUME CallersAssumption ==
  /\ Firers = Jobs \cup Cancellers
  /\ Jobs \cap Cancellers = {}
  /\ Ops \subseteq {"call", "call_timeout", "try_call", "spawn_call"}

VARIABLES
  op,      \* what the caller of each job called, "none" before
  phase,   \* how far the caller of each job is
  ans,     \* what the call, or waiting for its task, returned
  late     \* history: jobs accepted behind a request to stop

callerVars == <<op, phase, ans, late>>

TaskOps == {"try_call", "spawn_call"}
\* "waiting" is call's wait; call_timeout's is "timed" to its deadline,
\* "expiring" before expire(), "overdue" after.  "task" is a task in the
\* caller's hands, "polling" one whose caller only ever try_recv()s.  Calls end
\* "done" or "resolved"; "gone" is a future dropped before its job was sent,
\* "dropped" one dropped after.
Phases == {"idle", "sending", "waiting", "timed", "expiring", "overdue",
           "task", "polling", "resolved", "detached", "gone", "dropped", "done"}

CallersInit ==
  /\ ThreadInit
  /\ op = [j \in Jobs |-> "none"]
  /\ phase = [j \in Jobs |-> "idle"]
  /\ ans = [j \in Jobs |-> "none"]
  /\ late = {}

\* The calls that borrow the isle; a task does not.
InCall(j) == phase[j] \in {"sending", "waiting", "timed", "expiring", "overdue"}

Moves(j, from, to) ==
  phase[j] \in from /\ phase' = [phase EXCEPT ![j] = to]

Answered(j, from, to, a) ==
  /\ Moves(j, from, to)
  /\ ans' = [ans EXCEPT ![j] = a]
  /\ UNCHANGED <<threadVars, op, late>>

-----------------------------------------------------------------------------
(* Submission.                                                             *)

Begin(j, o) ==
  /\ Moves(j, {"idle"}, "sending")
  /\ op' = [op EXCEPT ![j] = o]
  /\ UNCHANGED <<threadVars, ans, late>>

\* send waits while there is no room; try_send does not.
Send(j) ==
  /\ Submit(j)
  /\ Moves(j, {"sending"}, CASE op[j] = "call" -> "waiting"
                             [] op[j] = "call_timeout" -> "timed"
                             [] OTHER -> "task")
  /\ late' = IF pc = "closing" \/ Queued(Shutdown) THEN late \cup {j} ELSE late
  /\ UNCHANGED <<op, ans>>

SendClosed(j) == pc = "exited" /\ Answered(j, {"sending"}, "done", "Closed")

SendFullAfterPush(j) ==
  /\ op[j] \in TaskOps /\ Submit(j) /\ Moves(j, {"sending"}, "done")
  /\ ans' = [ans EXCEPT ![j] = "QueueFull"] /\ UNCHANGED <<op, late>>
SendFull(j) ==
  /\ op[j] \in TaskOps /\ pc # "exited"
  /\ Answered(j, {"sending"}, "done", "QueueFull")

-----------------------------------------------------------------------------
(* The answer, and the deadline.                                           *)

\* A dropped response sender reads as Closed.  After expire() the caller only
\* waits again once its fire call is over.
Receive(j) ==
  /\ result[j] # "none" /\ firing[j] = NoJob
  /\ Answered(j, {"waiting", "timed", "overdue", "task"}, "resolved",
              IF result[j] = "Dropped" THEN "Closed" ELSE result[j])

\* To Task::try_recv a dropped response sender looks like a pending job.
StartPolling(j) ==
  Moves(j, {"task"}, "polling") /\ UNCHANGED <<threadVars, op, ans, late>>
Poll(j) ==
  /\ result[j] \notin {"none", "Dropped"}
  /\ Answered(j, {"polling"}, "resolved", result[j])

TimeUp(j) ==
  /\ result[j] = "none"
  /\ Moves(j, {"timed"}, "expiring")
  /\ UNCHANGED <<threadVars, op, ans, late>>

FireWithoutInterrupt(j, r) ==
  /\ firing[j] = NoJob
  /\ state' = [state EXCEPT ![j] = IF @ = "none" THEN r ELSE @]
  /\ UNCHANGED <<loopVars, chanVars, opened, handle, firing, abortVars, connVars,
                 result, ran>>
ExpireWithoutInterrupt(j) ==
  /\ FireWithoutInterrupt(j, "Timeout")
  /\ Moves(j, {"expiring"}, "overdue")
  /\ UNCHANGED <<op, ans, late>>
Expire(j) ==
  /\ Fire(j, j, "Timeout")
  /\ Moves(j, {"expiring"}, "overdue")
  /\ UNCHANGED <<op, ans, late>>

-----------------------------------------------------------------------------
(* Cancelling and giving up.                                               *)

\* CancelToken::cancel through a clone, which may outlive the task.
Cancel(c, j) ==
  /\ op[j] \in TaskOps /\ phase[j] \notin {"idle", "sending"}
  /\ Fire(c, j, "Cancelled")
  /\ UNCHANGED callerVars

FinishFire(f) == FireInterrupt(f) /\ UNCHANGED callerVars

\* A Task dropped, or an AsyncTask detached, leaves its job alone.
LeaveTask(j) ==
  /\ Moves(j, {"task"}, "detached")
  /\ UNCHANGED <<threadVars, op, ans, late>>

\* A sender that awaits room, and its future dropped: the job goes with it.
InLine(j) == phase[j] = "sending" /\ op[j] \notin TaskOps
DropFuture(j) ==
  /\ InLine(j) /\ Moves(j, {"sending"}, "gone")
  /\ UNCHANGED <<threadVars, op, ans, late>>

\* An AsyncTask, or the future of a call that awaits one, dropped.
AbandonWithoutInterrupt(j) ==
  /\ Moves(j, {"waiting", "timed", "overdue", "task"}, "dropped")
  /\ FireWithoutInterrupt(j, "Cancelled") /\ UNCHANGED <<op, ans, late>>
AbandonQuietly(j) ==
  /\ Moves(j, {"waiting", "timed", "overdue", "task"}, "dropped")
  /\ UNCHANGED <<threadVars, op, ans, late>>
Abandon(j) ==
  /\ Moves(j, {"waiting", "timed", "overdue", "task"}, "dropped")
  /\ Fire(j, j, "Cancelled") /\ UNCHANGED <<op, ans, late>>

\* A finished AsyncTask is dropped like any other, and fires its token.
DropResolved(j) ==
  /\ Moves(j, {"resolved"}, "done")
  /\ Fire(j, j, "Cancelled") /\ UNCHANGED <<op, ans, late>>

-----------------------------------------------------------------------------
(* All that any front end does.                                            *)

OwnersStep ==
  \/ LoopStep \/ ClosureStep
  \/ SendShutdown \/ DropSenders \/ StoreAbort \/ AbortInterrupt

CallersNext ==
  \/ OwnersStep /\ UNCHANGED callerVars
  \/ \E j \in Jobs :
       \/ \E o \in Ops : Begin(j, o)
       \/ Send(j) \/ SendClosed(j) \/ SendFull(j)
       \/ Receive(j) \/ StartPolling(j) \/ Poll(j)
       \/ TimeUp(j) \/ Expire(j) \/ LeaveTask(j)
       \/ DropFuture(j) \/ Abandon(j) \/ DropResolved(j)
  \/ \E c \in Cancellers, j \in Jobs : Cancel(c, j)
  \/ \E f \in Firers : FinishFire(f)

CallersSpec == CallersInit /\ [][CallersNext]_<<threadVars, callerVars>>

-----------------------------------------------------------------------------
(* Properties.                                                             *)

CallersTypeOK ==
  /\ ThreadTypeOK
  /\ op \in [Jobs -> Ops \cup {"none"}]
  /\ phase \in [Jobs -> Phases]
  /\ ans \in [Jobs -> Answers \cup {"none", "QueueFull"}]
  /\ late \subseteq Jobs

\* Closed and QueueFull mean that the closure was not entered and never will
\* be: a caller may retry elsewhere without doing the work twice.  Only
\* shutdown_now may close a job that it found running.
RefusedNeverRuns ==
  \A j \in Jobs :
    ans[j] \in {"Closed", "QueueFull"}
      => \/ j \notin ran /\ (Fresh(j) \/ result[j] = "Dropped")
         \/ ans[j] = "Closed" /\ result[j] = "Closed" /\ abort

\* Each call fails only in the ways its signature gives a reason for: Timeout
\* after the caller's own deadline, Cancelled through a task, and never a bare
\* interrupt; a plain call sees neither, whatever is fired around it.
ReasonFitsCall ==
  \A j \in Jobs :
    /\ ans[j] = "Timeout" => op[j] = "call_timeout"
    /\ ans[j] = "Cancelled" => op[j] \in TaskOps
    /\ ans[j] # "SqliteInterrupt"

\* Graceful shutdown and drop: a job that no request to stop preceded in the
\* queue is answered for itself; only a broken connection or shutdown_now
\* drops it.  A job that one did precede is never entered.
GracefulDrain ==
  /\ \A j \in Jobs : result[j] = "Dropped" => j \in late \/ poisoned \/ abort
  /\ late \cap ran = {}

\* What the thread owes: a job whose caller still waits or polls for it is in
\* the queue or in the thread's hands, or it has its answer; and a thread that
\* has left owes nobody anything.
Awaits(j) ==
  phase[j] \in {"waiting", "timed", "expiring", "overdue", "task", "polling"}

NothingForgotten ==
  \A j \in Jobs :
    Awaits(j) => result[j] # "none" \/ (pc # "exited" /\ (Queued(j) \/ cur = j))

\* The thread leaves, or the request to stop is on its way to it.
Leaving == Queued(Shutdown) \/ pc \in {"closing", "exited"}

\* Every call returns: also a sender waiting on a full queue when the thread
\* ends, and a deadline that fires at any moment.
CallsReturn == \A j \in Jobs : InCall(j) ~> ~InCall(j)

=============================================================================
