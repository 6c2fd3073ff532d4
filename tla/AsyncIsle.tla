----------------------------- MODULE AsyncIsle -----------------------------
(***************************************************************************)
(* The asynchronous front end, AsyncIsle with its driver (async_isle.rs)   *)
(* and AsyncTask (async_task.rs), over the same SQLite thread.  Clones of  *)
(* the handle share a tokio channel with the one driver that may stop the  *)
(* thread, and any future may be dropped wherever it awaits.               *)
(*                                                                         *)
(* Taking a permit of the channel and pushing a request are one step here. *)
(***************************************************************************)
EXTENDS Callers

\* tokio's mpsc::channel panics on a capacity of 0.
ASSUME AsyncAssumption == Capacity # 0

VARIABLES
  driver,   \* the driver: "held", or how far its shutdown is
  handles,  \* some clone of the AsyncIsle is alive
  done      \* the thread has sent the done signal

ownerVars == <<driver, handles, done>>
frontVars == <<callerVars, ownerVars>>
asyncVars == <<threadVars, frontVars>>

AsyncInit ==
  /\ CallersInit
  /\ driver = "spawning" /\ handles = FALSE /\ done = FALSE

\* The driver owns a sender until its shutdown returns.
Stopping == {"aborting", "sending", "finishing", "joining"}
DriverHolds == driver \in {"held"} \cup Stopping

\* A holder of senders lets go: the last one disconnects the channel.
Release(others) == IF others THEN UNCHANGED threadVars ELSE DropSenders

-----------------------------------------------------------------------------
(* spawn_inner, the handles and the driver.                                *)

SpawnOk ==
  /\ driver = "spawning" /\ opened = "Ok"
  /\ driver' = "held" /\ handles' = TRUE
  /\ UNCHANGED <<threadVars, callerVars, done>>

SpawnErr ==
  /\ driver = "spawning" /\ opened \in {"Sqlite", "Closed"} /\ pc = "exited"
  /\ driver' = "failed"
  /\ DropSenders /\ UNCHANGED <<callerVars, handles, done>>

\* The future of spawn dropped while it awaits the thread: nobody joins it.
DropSpawn ==
  /\ driver = "spawning" /\ driver' = "dropped"
  /\ DropSenders /\ UNCHANGED <<callerVars, handles, done>>

\* Calls borrow their clone.
DropHandles ==
  /\ handles /\ (\A j \in Jobs : ~InCall(j))
  /\ handles' = FALSE
  /\ Release(DriverHolds) /\ UNCHANGED <<callerVars, driver, done>>

\* The driver, or the future of its shutdown, dropped wherever it awaits.
DropDriverKeepingTx ==
  /\ driver \in {"held", "sending", "finishing"} /\ driver' = "dropped"
  /\ UNCHANGED <<threadVars, callerVars, handles, done>>
DropDriver ==
  /\ driver \in {"held", "sending", "finishing"} /\ driver' = "dropped"
  /\ Release(handles) /\ UNCHANGED <<callerVars, handles, done>>

DriverMoves(from, to) ==
  driver = from /\ driver' = to /\ UNCHANGED <<callerVars, handles, done>>

DriverShutdown == DriverMoves("held", "sending") /\ UNCHANGED threadVars

\* shutdown_now: abort, interrupt, then as shutdown.
ShutdownNow == DriverMoves("held", "aborting") /\ StoreAbort
Interrupted == DriverMoves("aborting", "sending") /\ AbortInterrupt

DriverTrySend ==
  /\ DriverMoves("sending", "finishing")
  /\ SendShutdown \/ ((~HasRoom \/ pc = "exited") /\ UNCHANGED threadVars)
DriverSend ==
  /\ DriverMoves("sending", "finishing")
  /\ SendShutdown \/ (pc = "exited" /\ UNCHANGED threadVars)

Finish == done /\ DriverMoves("finishing", "joining") /\ UNCHANGED threadVars

JoinSkipped == DriverMoves("joining", "returned") /\ Release(handles)
Join == pc = "exited" /\ DriverMoves("joining", "returned") /\ Release(handles)

DriverStep == Interrupted \/ DriverSend \/ Finish \/ Join

-----------------------------------------------------------------------------
(* The thread signals before it drops its receiver.                        *)

SignalDone ==
  /\ pc = "closing" /\ ~done /\ done' = TRUE
  /\ UNCHANGED <<threadVars, callerVars, driver, handles>>

AsyncLoopStep == LoopStep /\ (pc = "closing" => done) /\ UNCHANGED frontVars

ThreadStep ==
  AsyncLoopStep \/ SignalDone \/ (ClosureStep /\ UNCHANGED frontVars)

-----------------------------------------------------------------------------
(* The callers.                                                            *)

Calls(j, o) == handles /\ Begin(j, o) /\ UNCHANGED ownerVars

\* Both task operations try_send.  Room promised to a sender that already
\* waits in line is no room for others.
TrySendFull(j) ==
  /\ ~HasRoom \/ driver = "sending" \/ \E i \in Jobs : InLine(i)
  /\ SendFull(j)

CallerStep(j) ==
  /\ \/ Send(j) \/ SendClosed(j) \/ TrySendFull(j) \/ Receive(j)
     \/ Expire(j) \/ DropResolved(j) \/ FinishFire(j)
  /\ UNCHANGED ownerVars

-----------------------------------------------------------------------------
OwnerStep ==
  \/ SpawnOk \/ SpawnErr \/ DropSpawn \/ DropHandles \/ DropDriver
  \/ DriverShutdown \/ ShutdownNow \/ DriverStep

AsyncNext ==
  \/ ThreadStep \/ OwnerStep
  \/ \E j \in Jobs :
       \/ \E o \in Ops : Calls(j, o)
       \/ CallerStep(j)
       \/ (TimeUp(j) \/ LeaveTask(j) \/ DropFuture(j) \/ Abandon(j))
          /\ UNCHANGED ownerVars
  \/ \E c \in Cancellers :
       ((\E j \in Jobs : Cancel(c, j)) \/ FinishFire(c)) /\ UNCHANGED ownerVars

AsyncSpec == AsyncInit /\ [][AsyncNext]_asyncVars

\* The thread is scheduled and the runtime polls every future until it ends
\* or is dropped; closures end.  Nobody has to call, expire, drop or stop.
AsyncFairness ==
  /\ WF_asyncVars(AsyncLoopStep)
  /\ WF_asyncVars(SignalDone)
  /\ WF_asyncVars(StmtEnd /\ UNCHANGED frontVars)
  /\ SF_asyncVars(ClosureReturn /\ UNCHANGED frontVars)
  /\ WF_asyncVars(DriverStep)
  /\ \A j \in Jobs : WF_asyncVars(CallerStep(j))

FairAsyncSpec == AsyncSpec /\ AsyncFairness

-----------------------------------------------------------------------------
(* Properties.                                                             *)

AsyncTypeOK ==
  /\ CallersTypeOK
  /\ driver \in {"spawning", "held", "returned", "dropped", "failed"} \cup Stopping
  /\ handles \in BOOLEAN /\ done \in BOOLEAN

\* Once shutdown has returned nothing happens any more: no job is accepted,
\* entered or answered, although the done signal that woke it is sent while
\* the receiver still takes requests.
ShutdownIsFinal ==
  [][driver = "returned" => UNCHANGED <<chan, result, ran>>]_asyncVars

\* Whoever awaits, awaits something that is on its way: senders a thread that
\* takes requests or has left, callers a job the thread still has, the driver
\* a done signal that comes before the thread is over, and then only its end;
\* and the channel closes when the last of those who may send has let go.
NobodyWaitsInVain ==
  /\ NothingForgotten
  /\ (driver = "sending" \/ \E j \in Jobs : phase[j] = "sending")
       => opened = "Ok" /\ senders
  /\ driver \in {"finishing", "joining"} => Leaving
  /\ driver = "joining" => done
  /\ done => pc \in {"closing", "exited"}
  /\ pc = "exited" => done
  /\ senders <=> driver = "spawning" \/ DriverHolds \/ handles

\* Shutdown returns with a full queue, a thread that ends by itself and
\* senders ahead of it; so does shutdown_now.
DriverReturns == driver \in Stopping ~> driver \notin Stopping

\* Nothing leaks a thread: once no handle, no driver and no future of spawn
\* is left it ends, whatever was dropped while it awaited.
AbandonedIsleEnds ==
  driver # "spawning" /\ ~DriverHolds /\ ~handles ~> pc = "exited"

\* Drop is cancel: a job whose task, or the future awaiting it, is dropped
\* before the thread looked at its token never gets past that look.
DroppedStaysOut ==
  [][\A j \in Jobs : phase[j] = "dropped" /\ cur = j /\ pc' = "attach"
        => pc = "attach"]_asyncVars

=============================================================================
