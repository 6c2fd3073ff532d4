-------------------------- MODULE AsyncIsleProofs --------------------------
(***************************************************************************)
(* What TLAPS proves of the asynchronous front end, for every number of    *)
(* callers and cancellers and every capacity: it implements CallersSpec,   *)
(* its shutdown is final, and a dropped task keeps its job out.            *)
(***************************************************************************)
EXTENDS AsyncIsle, CallersProofs

\* A step of the driver, the handles, the futures or the thread is one step of
\* CallersSpec, or does not touch its variables.
LEMMA AsyncStepMaps == [AsyncNext]_asyncVars => [CallersNext]_bothVars
<1> SUFFICES ASSUME [AsyncNext]_asyncVars
             PROVE  [CallersNext]_bothVars
  OBVIOUS
<1> USE DEF bothVars
<1>1. Jobs \subseteq Firers /\ Cancellers \subseteq Firers
  BY CallersAssumption
<1>2. CASE ThreadStep
  BY <1>2 DEF ThreadStep, AsyncLoopStep, SignalDone, frontVars, CallersNext,
              OwnersStep
<1>3. CASE SpawnOk \/ SpawnErr \/ DropSpawn \/ DropHandles \/ DropDriver
  BY <1>3 DEF SpawnOk, SpawnErr, DropSpawn, DropHandles, DropDriver, Release,
              CallersNext, OwnersStep
<1>4. CASE DriverShutdown \/ ShutdownNow \/ DriverStep
  BY <1>4 DEF DriverShutdown, ShutdownNow, DriverStep, Interrupted, DriverSend,
              Finish, Join, DriverMoves, Release, CallersNext, OwnersStep
<1>5. ASSUME NEW j \in Jobs,
             \/ \E o \in Ops : Calls(j, o)
             \/ TimeUp(j) \/ LeaveTask(j) \/ DropFuture(j) \/ Abandon(j)
      PROVE  CallersNext
  BY <1>5 DEF Calls, CallersNext
<1>6. ASSUME NEW j \in Jobs, CallerStep(j)
      PROVE  CallersNext
  BY <1>1, <1>6 DEF CallerStep, TrySendFull, CallersNext
<1>7. ASSUME NEW c \in Cancellers,
             (\E j \in Jobs : Cancel(c, j)) \/ FinishFire(c)
      PROVE  CallersNext
  BY <1>1, <1>7 DEF CallersNext
<1>8. CASE UNCHANGED asyncVars
  BY <1>8 DEF asyncVars, frontVars
<1>q. QED
  BY <1>2, <1>3, <1>4, <1>5, <1>6, <1>7, <1>8 DEF AsyncNext, OwnerStep

\* AsyncIsle and AsyncTask do to the callers' protocol what any front end may.
THEOREM AsyncImplementsCallers == AsyncSpec => CallersSpec
<1>1. AsyncInit => CallersInit
  BY DEF AsyncInit
<1>q. QED
  BY <1>1, AsyncStepMaps, PTL DEF AsyncSpec, CallersSpec, bothVars

\* The asynchronous front end does to the thread only what IsleThread's
\* environment may.
THEOREM AsyncImplementsThread == AsyncSpec => ThreadSpec
  BY AsyncImplementsCallers, CallersImplementThread, PTL

\* Every AsyncTask fires its token when it is dropped, finished or not, and
\* none of these late cancels interrupts another job or the health check.
THEOREM AsyncInterruptsAreOwn == AsyncSpec => []NoStrayInterrupt
  BY AsyncImplementsThread, InterruptsAreOwn, PTL

\* What any caller is told holds of the callers of an AsyncIsle.
THEOREM AsyncCallersAreTold ==
  AsyncSpec => [](/\ RefusedNeverRuns /\ ReasonFitsCall
                 /\ GracefulDrain /\ ToldTheTruth)
  BY AsyncImplementsCallers, RefusedJobsNeverRun, ReasonsFit,
     GracefulDrainHolds, CallersToldTheTruth, PTL

-----------------------------------------------------------------------------
(* The driver.                                                             *)

\* shutdown returns only when the thread is over.
DriverInv ==
  /\ driver \in {"spawning", "held", "returned", "dropped", "failed"} \cup Stopping
  /\ handles \in BOOLEAN /\ done \in BOOLEAN
  /\ driver = "returned" => pc = "exited"

LEMMA DriverInvInit == AsyncInit => DriverInv
<1> SUFFICES ASSUME AsyncInit
             PROVE  DriverInv
  OBVIOUS
<1>1. handles \in BOOLEAN /\ done \in BOOLEAN
  BY Zenon DEF AsyncInit
<1>q. QED
  BY <1>1 DEF AsyncInit, DriverInv

LEMMA DriverInvStep == DriverInv /\ [AsyncNext]_asyncVars => DriverInv'
<1> SUFFICES ASSUME DriverInv, [AsyncNext]_asyncVars
             PROVE  DriverInv'
  OBVIOUS
<1> USE DEF DriverInv, Stopping
<1>1. pc = "exited" => pc' = "exited"
  BY AsyncStepMaps, CallersStepMaps, ExitedIsFinal
<1>2. CASE UNCHANGED ownerVars
  BY <1>1, <1>2 DEF ownerVars
<1>3. CASE SignalDone
  <2>1. done' \in BOOLEAN
    BY <1>3, Zenon DEF SignalDone
  <2>q. QED
    BY <2>1, <1>1, <1>3 DEF SignalDone
<1>4. CASE OwnerStep
  <2>1. handles' \in BOOLEAN /\ done' \in BOOLEAN
    BY <1>4, Zenon
    DEF OwnerStep, SpawnOk, SpawnErr, DropSpawn, DropHandles, DropDriver,
        DriverShutdown, ShutdownNow, DriverStep, Interrupted, DriverSend,
        Finish, Join, DriverMoves
  <2>q. QED
    BY <2>1, <1>1, <1>4
    DEF OwnerStep, SpawnOk, SpawnErr, DropSpawn, DropHandles, DropDriver,
        DriverShutdown, ShutdownNow, DriverStep, Interrupted, DriverSend,
        Finish, Join, DriverMoves
<1> HIDE DEF DriverInv
<1>q. QED
  <2>1. SignalDone \/ OwnerStep \/ UNCHANGED ownerVars
    BY DEF AsyncNext, ThreadStep, AsyncLoopStep, frontVars, Calls, CallerStep,
           asyncVars
  <2>q. QED
    BY <2>1, <1>2, <1>3, <1>4

LEMMA DriverInvariant == AsyncSpec => []DriverInv
  BY DriverInvInit, DriverInvStep, PTL DEF AsyncSpec

\* The variables of AsyncIsle, its driver and AsyncTask keep their types.
THEOREM AsyncTypeCorrect == AsyncSpec => []AsyncTypeOK
<1>1. CallersTypeOK /\ DriverInv => AsyncTypeOK
  BY DEF DriverInv, AsyncTypeOK
<1>q. QED
  BY <1>1, AsyncImplementsCallers, CallersTypeCorrect, DriverInvariant, PTL

\* shutdown().await returns after the last event of the isle, although the
\* done signal it awaits is sent while requests are still accepted.
THEOREM ShutdownFinal == AsyncSpec => ShutdownIsFinal
<1>1. DriverInv /\ [AsyncNext]_asyncVars
      => [driver = "returned" => UNCHANGED <<chan, result, ran>>]_asyncVars
  BY AsyncStepMaps, CallersStepMaps, ExitedIsFinal DEF DriverInv
<1>q. QED
  BY <1>1, DriverInvariant, PTL DEF AsyncSpec, ShutdownIsFinal

-----------------------------------------------------------------------------
(* Drop is cancel.                                                         *)

DroppedFired == \A j \in Jobs : phase[j] = "dropped" => state[j] # "none"

LEMMA DroppedFiredStep ==
  TellInv /\ ThreadInv /\ DroppedFired /\ [CallersNext]_bothVars
    => DroppedFired'
<1> SUFFICES ASSUME TellInv, ThreadInv, DroppedFired, [CallersNext]_bothVars
             PROVE  DroppedFired'
  OBVIOUS
<1> USE DEF DroppedFired, TellInv, CallersType, ThreadInv, TypeInv, ThreadTypeOK,
        callerVars, threadVars, tokenVars
<1>1. CASE OwnersStep /\ UNCHANGED callerVars
  BY <1>1, OwnersLeaveTokens
<1>2. ASSUME NEW j \in Jobs,
             \/ \E o \in Ops : Begin(j, o)
             \/ SendClosed(j) \/ SendFull(j) \/ Receive(j) \/ Poll(j)
             \/ StartPolling(j) \/ TimeUp(j) \/ LeaveTask(j) \/ DropFuture(j)
      PROVE  DroppedFired'
  BY <1>2 DEF Begin, SendClosed, SendFull, Receive, Poll, Answered,
              StartPolling, TimeUp, LeaveTask, DropFuture, Moves
<1>3. ASSUME NEW j \in Jobs, Send(j)
      PROVE  DroppedFired'
  BY <1>3 DEF Send, Submit, Moves
<1>4. ASSUME NEW j \in Jobs, Expire(j) \/ Abandon(j) \/ DropResolved(j)
      PROVE  DroppedFired'
  BY <1>4 DEF Expire, Abandon, DropResolved, Moves, Fire
<1>5. ASSUME NEW c \in Cancellers, NEW j \in Jobs, Cancel(c, j)
      PROVE  DroppedFired'
  BY <1>5 DEF Cancel, Fire
<1>6. ASSUME NEW f \in Firers, FinishFire(f)
      PROVE  DroppedFired'
  BY <1>6 DEF FinishFire, FireInterrupt
<1>7. CASE UNCHANGED bothVars
  BY <1>7 DEF bothVars
<1> HIDE DEF DroppedFired
<1>q. QED
  BY <1>1, <1>2, <1>3, <1>4, <1>5, <1>6, <1>7 DEF CallersNext

\* A task or future dropped before the thread reads its token keeps the job
\* off the connection.
THEOREM DroppedJobsStayOut == AsyncSpec => DroppedStaysOut
<1>1. CallersInit => DroppedFired
  BY DEF CallersInit, DroppedFired
<1>2. TellInv /\ ThreadInv /\ DroppedFired /\ [CallersNext]_bothVars
      => DroppedFired'
  BY DroppedFiredStep
<1>3. CallersSpec => []DroppedFired
  BY <1>1, <1>2, TellInvariant, ThreadInvariant, PTL DEF CallersSpec, bothVars
<1>4. DroppedFired /\ [AsyncNext]_asyncVars
      => [\A j \in Jobs : phase[j] = "dropped" /\ cur = j /\ pc' = "attach"
            => pc = "attach"]_asyncVars
  <2> SUFFICES ASSUME DroppedFired, [AsyncNext]_asyncVars, NEW j \in Jobs,
                      phase[j] = "dropped", cur = j, pc' = "attach"
               PROVE  pc = "attach"
    OBVIOUS
  <2>1. [ThreadNext]_threadVars
    BY AsyncStepMaps, CallersStepMaps
  <2>2. state[j] # "none"
    BY DEF DroppedFired
  <2>q. QED
    BY <2>1, <2>2
    DEF ThreadNext, LoopStep, ClosureStep, StmtEnd, ClosureReturn, EnvStep,
        Open, Recv, RecvDisconnected, CheckAbort, CheckToken, AttachHandle,
        AttachCheck, Detach, Respond, HealthStart, HealthDone, Exit, StmtStep,
        StmtRow, StmtDone, StmtInterrupted, StmtFrame, Return, Submit, Fire,
        SendShutdown, DropSenders, FireInterrupt, StoreAbort, AbortInterrupt,
        threadVars, loopVars
<1>q. QED
  BY <1>3, <1>4, AsyncImplementsCallers, PTL DEF AsyncSpec, DroppedStaysOut

-----------------------------------------------------------------------------
(* Nobody awaits in vain.                                                  *)

\* The channel is open exactly while the spawn, the driver or a handle holds a
\* sender; calls borrow a handle; and the done signal comes between the last
\* turn of the loop and the end of the thread.
AwaitInv ==
  /\ ~senders => driver # "spawning" /\ ~DriverHolds /\ ~handles
  /\ senders => driver = "spawning" \/ DriverHolds \/ handles
  /\ driver = "spawning" => ~handles
  /\ DriverHolds \/ handles => opened = "Ok"
  /\ \A j \in Jobs : InCall(j) => handles
  /\ driver \in {"finishing", "joining"} => Leaving
  /\ driver = "joining" => done
  /\ done => pc \in {"closing", "exited"}
  /\ pc = "exited" => done

LEMMA AwaitInvInit == AsyncInit => AwaitInv
  BY DEF AsyncInit, CallersInit, ThreadInit, AwaitInv, DriverHolds, Stopping,
         InCall

\* Only the loop itself moves the thread.
LEMMA LoopMoves ==
  ASSUME AsyncLoopStep
  PROVE  /\ pc \in {"closing", "exited"} => pc' \in {"closing", "exited"}
         /\ pc' = "exited" => done
         /\ UNCHANGED senders
<1>1. LoopStep /\ (pc = "closing" => done)
  BY DEF AsyncLoopStep
<1>2. UNCHANGED senders
  BY <1>1, ThreadKeepsSenders
<1>q. QED
  BY <1>1, <1>2
  DEF LoopStep, Open, Recv, RecvDisconnected, CheckAbort, CheckToken,
      AttachHandle, AttachCheck, Detach, Respond, HealthStart, HealthDone, Exit

LEMMA ClosureMoves ==
  ASSUME ClosureStep
  PROVE  pc = "run" /\ pc' \in {"run", "returned"} /\ UNCHANGED senders
  BY ThreadKeepsSenders
  DEF ClosureStep, StmtEnd, ClosureReturn, StmtStep, StmtRow, StmtDone,
      StmtInterrupted, StmtFrame, Return, loopVars

\* Only a caller that begins borrows a handle.
LEMMA FuturesLetGo ==
  ASSUME TellInv, NEW j \in Jobs, NEW k \in Jobs,
         ~InCall(k),
         \/ Send(j) \/ SendClosed(j) \/ SendFull(j) \/ Receive(j)
         \/ Expire(j) \/ DropResolved(j) \/ LeaveTask(j) \/ TimeUp(j)
         \/ DropFuture(j) \/ Abandon(j)
  PROVE  ~InCall(k)'
  BY DEF TellInv, CallersType, InCall, Send, SendClosed, SendFull, Receive,
         Answered, Expire, DropResolved, LeaveTask, TimeUp, DropFuture, Abandon,
         Moves

LEMMA AwaitInvStep ==
  /\ ThreadInv /\ TellInv /\ DrainInv /\ DriverInv /\ AwaitInv
  /\ [AsyncNext]_asyncVars
  => AwaitInv'
<1> SUFFICES ASSUME ThreadInv, TellInv, DrainInv, DriverInv, AwaitInv,
                    [AsyncNext]_asyncVars
             PROVE  AwaitInv'
  OBVIOUS
<1> USE DEF DriverInv, AwaitInv, Stopping, DriverHolds, callerVars, ownerVars,
        frontVars
<1>0. [ThreadNext]_threadVars
  BY AsyncStepMaps, CallersStepMaps
<1>1. (opened = "Ok" => opened' = "Ok") /\ (Leaving => Leaving')
  BY <1>0, OpenedStays, LeavingStays
<1>2. CASE AsyncLoopStep
  <2>1. UNCHANGED frontVars
    BY <1>2 DEF AsyncLoopStep
  <2>q. QED
    BY <1>1, <1>2, <2>1, LoopMoves DEF InCall
<1>3. CASE ClosureStep /\ UNCHANGED frontVars
  BY <1>1, <1>3, ClosureMoves DEF InCall
<1>4. CASE SignalDone
  BY <1>1, <1>4 DEF SignalDone, InCall, threadVars, chanVars, loopVars
<1>5. CASE SpawnOk \/ SpawnErr \/ DropSpawn
  BY <1>1, <1>5 DEF SpawnOk, SpawnErr, DropSpawn, DropSenders, InCall,
                    threadVars, chanVars, loopVars
<1>6. CASE DropHandles
  <2>1. /\ handles /\ ~handles' /\ driver' = driver /\ done' = done
        /\ phase' = phase /\ \A j \in Jobs : ~InCall(j)
    BY <1>6 DEF DropHandles
  <2>2. CASE DriverHolds
    <3>1. UNCHANGED threadVars
      BY <1>6, <2>2 DEF DropHandles, Release
    <3>q. QED
      BY <1>1, <2>1, <2>2, <3>1 DEF InCall, threadVars, chanVars, loopVars
  <2>3. CASE ~DriverHolds
    <3>1. DropSenders
      BY <1>6, <2>3 DEF DropHandles, Release
    <3>q. QED
      BY <1>1, <2>1, <2>3, <3>1 DEF DropSenders, InCall, loopVars
  <2>q. QED
    BY <2>2, <2>3
<1>7. CASE DropDriver
  <2>1. /\ driver \in {"held", "sending", "finishing"} /\ driver' = "dropped"
        /\ handles' = handles /\ done' = done /\ phase' = phase
    BY <1>7 DEF DropDriver
  <2>2. CASE handles
    <3>1. UNCHANGED threadVars
      BY <1>7, <2>2 DEF DropDriver, Release
    <3>q. QED
      BY <1>1, <2>1, <2>2, <3>1 DEF InCall, threadVars, chanVars, loopVars
  <2>3. CASE ~handles
    <3>1. DropSenders
      BY <1>7, <2>3 DEF DropDriver, Release
    <3>q. QED
      BY <1>1, <2>1, <2>3, <3>1 DEF DropSenders, InCall, loopVars
  <2>q. QED
    BY <2>2, <2>3
<1>8. CASE DriverShutdown \/ Finish
  BY <1>1, <1>8 DEF DriverShutdown, Finish, DriverMoves, InCall, threadVars,
                    chanVars, loopVars
<1>9. CASE ShutdownNow \/ Interrupted
  BY <1>1, <1>9 DEF ShutdownNow, Interrupted, DriverMoves, StoreAbort,
                    AbortInterrupt, InCall, chanVars, loopVars
<1>10. CASE DriverSend
  <2>1. Leaving'
    <3>1. CASE SendShutdown
      BY <3>1 DEF SendShutdown, Leaving, Queued, ThreadInv, TypeInv, ThreadTypeOK
    <3>2. CASE pc = "exited"
      BY <1>1, <3>2 DEF Leaving
    <3>q. QED
      BY <1>10, <3>1, <3>2 DEF DriverSend
  <2>q. QED
    BY <1>1, <1>10, <2>1 DEF DriverSend, DriverMoves, SendShutdown, InCall,
       threadVars, chanVars, loopVars
<1>11. CASE Join
  BY <1>1, <1>11 DEF Join, DriverMoves, Release, DropSenders, InCall,
                     threadVars, chanVars, loopVars
<1>12. ASSUME NEW j \in Jobs, NEW o \in Ops, Calls(j, o)
       PROVE  AwaitInv'
  BY <1>1, <1>12 DEF Calls, Begin, Moves, InCall, threadVars, chanVars, loopVars
<1>13. ASSUME NEW j \in Jobs,
              \/ Send(j) \/ SendClosed(j) \/ SendFull(j) \/ Receive(j)
              \/ Expire(j) \/ DropResolved(j) \/ LeaveTask(j) \/ TimeUp(j)
              \/ DropFuture(j) \/ Abandon(j),
              UNCHANGED ownerVars
       PROVE  AwaitInv'
  <2>1. UNCHANGED <<pc, senders>>
    BY <1>13 DEF Send, Submit, SendClosed, SendFull, Receive, Answered, Expire,
                 Fire, DropResolved, LeaveTask, TimeUp, DropFuture, Abandon,
                 threadVars, chanVars, loopVars
  <2>2. \A k \in Jobs : InCall(k)' => InCall(k)
    BY <1>13, FuturesLetGo
  <2>q. QED
    BY <1>1, <1>13, <2>1, <2>2
<1>14. ASSUME (\E c \in Cancellers, j \in Jobs : Cancel(c, j))
              \/ (\E f \in Firers : FinishFire(f)),
              UNCHANGED ownerVars
       PROVE  AwaitInv'
  BY <1>1, <1>14 DEF Cancel, Fire, FinishFire, FireInterrupt, InCall,
                     chanVars, loopVars
<1>15. CASE UNCHANGED asyncVars
  BY <1>1, <1>15 DEF asyncVars, InCall, threadVars, chanVars, loopVars
<1> HIDE DEF AwaitInv, ownerVars, frontVars
<1>q. QED
  <2>1. Jobs \subseteq Firers /\ Cancellers \subseteq Firers
    BY CallersAssumption
  <2>2. ASSUME NEW j \in Jobs, CallerStep(j)
        PROVE  AwaitInv'
    BY <1>13, <1>14, <2>1, <2>2 DEF CallerStep, TrySendFull
  <2>3. CASE ThreadStep
    BY <1>2, <1>3, <1>4, <2>3 DEF ThreadStep
  <2>4. CASE OwnerStep
    BY <1>5, <1>6, <1>7, <1>8, <1>9, <1>10, <1>11, <2>4
    DEF OwnerStep, DriverStep
  <2>q. QED
    BY <1>12, <1>13, <1>14, <1>15, <2>1, <2>2, <2>3, <2>4 DEF AsyncNext

LEMMA AwaitInvariant == AsyncSpec => []AwaitInv
  BY AwaitInvInit, AwaitInvStep, AsyncImplementsCallers, ThreadInvariant,
     TellInvariant, DrainInvariant, DriverInvariant, PTL DEF AsyncSpec

\* Whatever is dropped while it awaits, no call, no task and no shutdown is left
\* to wait for a thread that cannot hear it or a signal that cannot come.
THEOREM AsyncNobodyWaitsInVain == AsyncSpec => []NobodyWaitsInVain
<1>1. AwaitInv /\ NothingForgotten => NobodyWaitsInVain
  <2> SUFFICES ASSUME AwaitInv, NothingForgotten
               PROVE  NobodyWaitsInVain
    OBVIOUS
  <2>1. senders <=> driver = "spawning" \/ DriverHolds \/ handles
    BY Zenon DEF AwaitInv
  <2>2. driver = "sending" \/ (\E j \in Jobs : phase[j] = "sending")
        => opened = "Ok" /\ senders
    BY DEF AwaitInv, InCall, DriverHolds, Stopping
  <2>q. QED
    BY <2>1, <2>2, Zenon DEF AwaitInv, NobodyWaitsInVain
<1>q. QED
  BY <1>1, AwaitInvariant, AsyncImplementsCallers, NobodyForgotten, PTL
=============================================================================
