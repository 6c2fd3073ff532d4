------------------------------ MODULE SyncIsle ------------------------------
(***************************************************************************)
(* The synchronous front end, Isle of handle.rs and Task of task.rs, over  *)
(* its SQLite thread: threads that call, spawn, cancel and shut down one   *)
(* shared Isle, and the owner that spawns and drops it.                    *)
(***************************************************************************)
EXTENDS Callers

CONSTANT Closers  \* threads that call shutdown()

VARIABLES
  isle,    \* the owner: "spawning", "live", "failed", "dropping", "dropped"
  closer,  \* how far each call of shutdown() is
  join     \* the join handle is still in the Isle

ownerVars == <<isle, closer, join>>
syncVars == <<threadVars, callerVars, ownerVars>>

SyncInit ==
  /\ CallersInit
  /\ isle = "spawning"
  /\ closer = [c \in Closers |-> "idle"]
  /\ join = TRUE

Closing(c) == closer[c] \in {"sending", "taking", "joining"}

\* Isle::is_alive
IsAlive == join /\ pc # "exited"

-----------------------------------------------------------------------------
(* The owner: spawn_inner and Drop.                                        *)

SpawnOk ==
  /\ isle = "spawning" /\ opened = "Ok"
  /\ isle' = "live"
  /\ UNCHANGED <<threadVars, callerVars, closer, join>>

\* spawn_inner joins the thread before it returns the error and drops tx.
SpawnErr ==
  /\ isle = "spawning" /\ opened \in {"Sqlite", "Closed"} /\ pc = "exited"
  /\ DropSenders
  /\ isle' = "failed" /\ join' = FALSE
  /\ UNCHANGED <<callerVars, closer>>

\* Drop needs the Isle unborrowed; its signal is lost if there is no room.
DropIsle ==
  /\ isle = "live"
  /\ \A j \in Jobs : ~InCall(j)
  /\ \A c \in Closers : ~Closing(c)
  /\ isle' = "dropping"
  /\ \/ SendShutdown
     \/ (~HasRoom \/ pc = "exited" \/ Capacity = 0) /\ UNCHANGED threadVars
  /\ UNCHANGED <<callerVars, closer, join>>

DropFieldsKeepingTx ==
  /\ isle = "dropping" /\ isle' = "dropped" /\ join' = FALSE
  /\ UNCHANGED <<threadVars, callerVars, closer>>
DropFields ==
  /\ isle = "dropping"
  /\ isle' = "dropped" /\ join' = FALSE
  /\ DropSenders
  /\ UNCHANGED <<callerVars, closer>>

-----------------------------------------------------------------------------
(* The callers, and shutdown().                                            *)

Calls(j, o) == isle = "live" /\ Begin(j, o) /\ UNCHANGED ownerVars

\* try_call alone does not wait.  A rendezvous channel is full as well while
\* the thread is about to recv().
TryCallFull(j) ==
  op[j] = "try_call" /\ (~HasRoom \/ Capacity = 0) /\ SendFull(j)

\* What a caller does once it has begun: all but starting, and the clock.
CallerStep(j) ==
  /\ \/ Send(j) \/ SendClosed(j) \/ TryCallFull(j)
     \/ Receive(j) \/ Poll(j) \/ Expire(j) \/ FinishFire(j)
  /\ UNCHANGED ownerVars

ShutBegin(c) ==
  /\ isle = "live" /\ closer[c] = "idle"
  /\ closer' = [closer EXCEPT ![c] = "sending"]
  /\ UNCHANGED <<threadVars, callerVars, isle, join>>

ShutTrySend(c) ==
  /\ closer[c] = "sending" /\ closer' = [closer EXCEPT ![c] = "taking"]
  /\ SendShutdown \/ ((~HasRoom \/ pc = "exited") /\ UNCHANGED threadVars)
  /\ UNCHANGED <<callerVars, isle, join>>
ShutSend(c) ==
  /\ closer[c] = "sending"
  /\ SendShutdown \/ (pc = "exited" /\ UNCHANGED threadVars)
  /\ closer' = [closer EXCEPT ![c] = "taking"]
  /\ UNCHANGED <<callerVars, isle, join>>

\* The first to take the handle joins; any other call has nothing to wait for.
ShutTakeNoJoin(c) ==
  /\ closer[c] = "taking" /\ closer' = [closer EXCEPT ![c] = "returned"]
  /\ join' = FALSE
  /\ UNCHANGED <<threadVars, callerVars, isle>>
ShutTake(c) ==
  /\ closer[c] = "taking"
  /\ closer' = [closer EXCEPT ![c] = IF join THEN "joining" ELSE "returned"]
  /\ join' = FALSE
  /\ UNCHANGED <<threadVars, callerVars, isle>>

ShutJoin(c) ==
  /\ closer[c] = "joining" /\ pc = "exited"
  /\ closer' = [closer EXCEPT ![c] = "returned"]
  /\ UNCHANGED <<threadVars, callerVars, isle, join>>

CloserStep(c) == ShutSend(c) \/ ShutTake(c) \/ ShutJoin(c)

-----------------------------------------------------------------------------
frontVars == <<callerVars, ownerVars>>

ThreadStep == (LoopStep \/ ClosureStep) /\ UNCHANGED frontVars

OwnerStep == SpawnOk \/ SpawnErr \/ DropIsle \/ DropFields

SyncNext ==
  \/ ThreadStep \/ OwnerStep
  \/ \E j \in Jobs :
       \/ \E o \in Ops : Calls(j, o)
       \/ CallerStep(j)
       \/ (StartPolling(j) \/ LeaveTask(j) \/ TimeUp(j)) /\ UNCHANGED ownerVars
  \/ \E c \in Cancellers :
       ((\E j \in Jobs : Cancel(c, j)) \/ FinishFire(c)) /\ UNCHANGED ownerVars
  \/ \E c \in Closers : ShutBegin(c) \/ CloserStep(c)

SyncSpec == SyncInit /\ [][SyncNext]_syncVars

\* Every thread is scheduled; the owner finishes what it began and callers
\* wait for what they asked.  Nobody has to call, cancel, expire or drop.
Scheduled ==
  /\ WF_syncVars(LoopStep /\ UNCHANGED frontVars)
  /\ WF_syncVars(StmtEnd /\ UNCHANGED frontVars)
  /\ WF_syncVars(SpawnOk \/ SpawnErr \/ DropFields)
  /\ \A j \in Jobs : WF_syncVars(CallerStep(j))
  /\ \A c \in Closers : WF_syncVars(CloserStep(c))
  /\ \A c \in Cancellers : WF_syncVars(FinishFire(c) /\ UNCHANGED ownerVars)

\* Closures end, as in ThreadFairness.
ClosuresEnd == SF_syncVars(ClosureReturn /\ UNCHANGED frontVars)

\* Closures may go on for ever with one statement after another, but notice
\* an interrupt, and return once a statement of theirs was interrupted.
ClosuresHeedInterrupts ==
  /\ WF_syncVars((StmtStep \/ ClosureReturn) /\ UNCHANGED frontVars)
  /\ SF_syncVars(StmtInterrupted /\ UNCHANGED frontVars)
  /\ SF_syncVars(hit /\ ClosureReturn /\ UNCHANGED frontVars)

FairSyncSpec == SyncSpec /\ Scheduled /\ ClosuresEnd
HeedfulSyncSpec == SyncSpec /\ Scheduled /\ ClosuresHeedInterrupts

-----------------------------------------------------------------------------
(* Properties.                                                             *)

SyncTypeOK ==
  /\ CallersTypeOK
  /\ isle \in {"spawning", "live", "failed", "dropping", "dropped"}
  /\ closer \in [Closers -> {"idle", "sending", "taking", "joining", "returned"}]
  /\ join \in BOOLEAN

\* is_alive turns false before the thread ends, while a shutdown() joins it.
\* But nobody who has the Isle to himself can see that: then it tells whether
\* the thread still runs, and the pool, which asks at check-in and check-out,
\* never takes a draining isle for a dead one and exceeds max_size.
AliveIfUnborrowed ==
  isle = "live" /\ (\A c \in Closers : ~Closing(c)) => (IsAlive <=> pc # "exited")

\* Whoever waits, waits for something that is on its way: senders for a thread
\* that takes requests or has left, callers for a job the thread still has,
\* a join for a thread that is told to stop, and once the Isle is dropped the
\* thread sees its channel closed, be the signal of Drop lost or not.
NobodyWaitsInVain ==
  /\ NothingForgotten
  /\ \A j \in Jobs : phase[j] = "sending" => opened = "Ok" /\ senders
  /\ \A c \in Closers :
       /\ closer[c] = "sending" => opened = "Ok" /\ senders
       /\ closer[c] \in {"taking", "joining", "returned"} => Leaving
  /\ isle \in {"failed", "dropped"} => ~senders

\* Every call of shutdown() returns, with any number of them at once, senders
\* ahead of them in a full queue, and a thread that dies meanwhile.
ShutdownReturns == \A c \in Closers : Closing(c) ~> ~Closing(c)

\* Dropping the Isle ends the thread even when the best-effort signal of Drop
\* found the queue full.
DropEndsThread == isle = "dropped" ~> pc = "exited"

\* try_recv's doc: None while the job is still pending.  A caller that polls
\* learns its answer, but is never told that the job was dropped: only for
\* such a job does it poll for ever, where wait would return Closed.
PollsEnd ==
  \A j \in Jobs : phase[j] = "polling" ~> phase[j] # "polling" \/ result[j] = "Dropped"

\* call_timeout's doc: once the deadline elapses, the job is cancelled through
\* the interrupt path and the call returns.
DeadlineReturns == \A j \in Jobs : phase[j] = "overdue" ~> phase[j] = "resolved"

\* shutdown's doc: after shutdown every submission returns Closed.  No caller
\* that starts when some shutdown() has returned is given a Task.
NothingAfterShutdown ==
  \A j \in Jobs :
    []((\E c \in Closers : closer[c] = "returned") /\ phase[j] = "idle"
       => [](phase[j] # "task"))

=============================================================================
