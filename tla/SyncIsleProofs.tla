--------------------------- MODULE SyncIsleProofs ---------------------------
(***************************************************************************)
(* What TLAPS proves of the synchronous front end, for every number of     *)
(* callers, cancellers and closers: it implements CallersSpec, so what is  *)
(* proved of the thread and of the callers of any isle holds of it.        *)
(***************************************************************************)
EXTENDS SyncIsle, CallersProofs

\* A step of the callers, the closers, the owner or the thread is one step of
\* CallersSpec, or does not touch its variables.
LEMMA SyncStepMaps == [SyncNext]_syncVars => [CallersNext]_bothVars
<1> SUFFICES ASSUME [SyncNext]_syncVars
             PROVE  [CallersNext]_bothVars
  OBVIOUS
<1>1. Jobs \subseteq Firers /\ Cancellers \subseteq Firers
  BY CallersAssumption
<1>2. CASE ThreadStep
  BY <1>2 DEF ThreadStep, frontVars, CallersNext, OwnersStep
<1>3. CASE OwnerStep
  BY <1>3 DEF OwnerStep, SpawnOk, SpawnErr, DropIsle, DropFields, CallersNext,
              OwnersStep, bothVars
<1>4. ASSUME NEW j \in Jobs,
             \/ \E o \in Ops : Calls(j, o)
             \/ StartPolling(j) \/ LeaveTask(j) \/ TimeUp(j)
      PROVE  CallersNext
  BY <1>4 DEF Calls, CallersNext
<1>5. ASSUME NEW j \in Jobs, CallerStep(j)
      PROVE  CallersNext
  BY <1>1, <1>5 DEF CallerStep, TryCallFull, CallersNext
<1>6. ASSUME NEW c \in Cancellers,
             (\E j \in Jobs : Cancel(c, j)) \/ FinishFire(c)
      PROVE  CallersNext
  BY <1>1, <1>6 DEF CallersNext
<1>7. ASSUME NEW c \in Closers, ShutBegin(c) \/ CloserStep(c)
      PROVE  [CallersNext]_bothVars
  BY <1>7 DEF ShutBegin, CloserStep, ShutSend, ShutTake, ShutJoin, CallersNext,
              OwnersStep, bothVars
<1>8. CASE UNCHANGED syncVars
  BY <1>8 DEF syncVars, bothVars
<1>q. QED
  BY <1>2, <1>3, <1>4, <1>5, <1>6, <1>7, <1>8 DEF SyncNext

\* Isle and Task do to the callers' protocol what any front end may.
THEOREM SyncImplementsCallers == SyncSpec => CallersSpec
<1>1. SyncInit => CallersInit
  BY DEF SyncInit
<1>q. QED
  BY <1>1, SyncStepMaps, PTL DEF SyncSpec, CallersSpec, bothVars

\* Isle and Task do to the thread only what IsleThread's environment may.
THEOREM SyncImplementsThread == SyncSpec => ThreadSpec
  BY SyncImplementsCallers, CallersImplementThread, PTL

\* A call on a shared Isle is interrupted only for its own token, whatever the
\* other callers' deadlines and cancellations do.
THEOREM SyncInterruptsAreOwn == SyncSpec => []NoStrayInterrupt
  BY SyncImplementsThread, InterruptsAreOwn, PTL

\* What any caller is told holds of the callers of a shared Isle.
THEOREM SyncCallersAreTold ==
  SyncSpec => [](/\ RefusedNeverRuns /\ ReasonFitsCall
                 /\ GracefulDrain /\ ToldTheTruth)
  BY SyncImplementsCallers, RefusedJobsNeverRun, ReasonsFit, GracefulDrainHolds,
     CallersToldTheTruth, PTL

-----------------------------------------------------------------------------
(* The join handle.                                                        *)

\* It is taken by a shutdown that has yet to join, or the thread is over.
JoinInv ==
  /\ isle \in {"spawning", "live", "failed", "dropping", "dropped"}
  /\ closer \in [Closers -> {"idle", "sending", "taking", "joining", "returned"}]
  /\ join \in BOOLEAN
  /\ isle = "spawning" => join /\ \A c \in Closers : closer[c] = "idle"
  /\ isle = "live" /\ ~join => \/ pc = "exited"
                              \/ \E c \in Closers : closer[c] = "joining"

LEMMA JoinInvInit == SyncInit => JoinInv
<1> SUFFICES ASSUME SyncInit
             PROVE  JoinInv
  OBVIOUS
<1>1. join \in BOOLEAN /\ join
  BY Zenon DEF SyncInit
<1>q. QED
  BY <1>1 DEF SyncInit, JoinInv

LEMMA JoinInvStep == JoinInv /\ [SyncNext]_syncVars => JoinInv'
<1> SUFFICES ASSUME JoinInv, [SyncNext]_syncVars
             PROVE  JoinInv'
  OBVIOUS
<1> USE DEF JoinInv, callerVars
<1>1. pc = "exited" => pc' = "exited"
  BY SyncStepMaps, CallersStepMaps, ExitedIsFinal
<1>2. CASE UNCHANGED ownerVars
  BY <1>1, <1>2 DEF ownerVars
<1>3. CASE SpawnOk \/ SpawnErr \/ DropIsle \/ DropFields
  <2>1. join' \in BOOLEAN
    BY <1>3, Zenon DEF SpawnOk, SpawnErr, DropIsle, DropFields
  <2>q. QED
    BY <2>1, <1>1, <1>3 DEF SpawnOk, SpawnErr, DropIsle, DropFields
<1>4. ASSUME NEW c \in Closers, ShutBegin(c)
      PROVE  JoinInv'
  BY <1>1, <1>4 DEF ShutBegin
<1>5. ASSUME NEW c \in Closers, ShutSend(c)
      PROVE  JoinInv'
  BY <1>1, <1>5 DEF ShutSend
<1>6. ASSUME NEW c \in Closers, ShutTake(c)
      PROVE  JoinInv'
  <2>1. join' \in BOOLEAN
    BY <1>6, Zenon DEF ShutTake
  <2>2. /\ closer' = [closer EXCEPT ![c] = IF join THEN "joining" ELSE "returned"]
        /\ closer[c] = "taking" /\ isle' = isle /\ isle # "spawning"
    BY <1>6 DEF ShutTake
  <2>3. CASE join
    <3>1. closer'[c] = "joining"
      BY <2>2, <2>3
    <3>q. QED
      BY <2>1, <2>2, <2>3, <3>1
  <2>4. CASE ~join
    BY <2>1, <2>2, <2>4, <1>1
  <2>q. QED
    BY <2>3, <2>4
<1>7. ASSUME NEW c \in Closers, ShutJoin(c)
      PROVE  JoinInv'
  BY <1>1, <1>7 DEF ShutJoin
<1> HIDE DEF JoinInv
<1>q. QED
  <2>1. \/ UNCHANGED ownerVars
        \/ SpawnOk \/ SpawnErr \/ DropIsle \/ DropFields
        \/ \E c \in Closers :
             ShutBegin(c) \/ ShutSend(c) \/ ShutTake(c) \/ ShutJoin(c)
    BY DEF SyncNext, ThreadStep, frontVars, OwnerStep, Calls, CallerStep,
           CloserStep, syncVars
  <2>q. QED
    BY <2>1, <1>2, <1>3, <1>4, <1>5, <1>6, <1>7

LEMMA JoinInvariant == SyncSpec => []JoinInv
  BY JoinInvInit, JoinInvStep, PTL DEF SyncSpec

\* The variables of Isle, Task and their users keep their types.
THEOREM SyncTypeCorrect == SyncSpec => []SyncTypeOK
<1>1. CallersTypeOK /\ JoinInv => SyncTypeOK
  BY DEF JoinInv, SyncTypeOK
<1>q. QED
  BY <1>1, SyncImplementsCallers, CallersTypeCorrect, JoinInvariant, PTL

\* Whoever has the Isle to himself reads from is_alive whether the thread runs.
THEOREM AliveTellsTruth == SyncSpec => []AliveIfUnborrowed
<1>1. JoinInv => AliveIfUnborrowed
  BY DEF JoinInv, AliveIfUnborrowed, IsAlive, Closing
<1>q. QED
  BY <1>1, JoinInvariant, PTL

-----------------------------------------------------------------------------
(* Nobody waits in vain.                                                   *)

\* Calls and shutdowns borrow a live Isle, which holds the only sender; and
\* whoever is past its send has the request to stop in the queue, or the
\* thread already leaves.
BorrowInv ==
  /\ isle \in {"failed", "dropped"} => ~senders
  /\ isle \in {"spawning", "live", "dropping"} => senders
  /\ isle = "live" => opened = "Ok"
  /\ \A j \in Jobs : InCall(j) => isle = "live"
  /\ \A c \in Closers :
       /\ Closing(c) => isle = "live"
       /\ closer[c] \in {"taking", "joining", "returned"} => Leaving

LEMMA BorrowInvInit == SyncInit => BorrowInv
  BY DEF SyncInit, CallersInit, ThreadInit, BorrowInv, InCall, Closing

\* Only a caller that begins enters the Isle.
LEMMA CallersStayOut ==
  ASSUME TellInv, NEW j \in Jobs, NEW k \in Jobs,
         ~InCall(k),
         \/ Send(j) \/ SendClosed(j) \/ SendFull(j) \/ Receive(j) \/ Poll(j)
         \/ Expire(j) \/ StartPolling(j) \/ LeaveTask(j) \/ TimeUp(j)
  PROVE  ~InCall(k)'
  BY DEF TellInv, CallersType, InCall, Send, SendClosed, SendFull, Receive, Poll,
         Answered, Expire, StartPolling, LeaveTask, TimeUp, Moves

LEMMA BorrowInvStep ==
  /\ ThreadInv /\ TellInv /\ DrainInv /\ JoinInv /\ BorrowInv
  /\ [SyncNext]_syncVars
  => BorrowInv'
<1> SUFFICES ASSUME ThreadInv, TellInv, DrainInv, JoinInv, BorrowInv,
                    [SyncNext]_syncVars
             PROVE  BorrowInv'
  OBVIOUS
<1> USE DEF JoinInv, BorrowInv, callerVars, ownerVars, frontVars
<1>0. [ThreadNext]_threadVars
  BY SyncStepMaps, CallersStepMaps
<1>1. (opened = "Ok" => opened' = "Ok") /\ (Leaving => Leaving')
  BY <1>0, OpenedStays, LeavingStays
<1>2. CASE ThreadStep
  <2>1. senders' = senders
    BY <1>2, ThreadKeepsSenders DEF ThreadStep
  <2>q. QED
    BY <1>1, <1>2, <2>1 DEF ThreadStep, InCall, Closing
<1>3. CASE SpawnOk
  BY <1>1, <1>3 DEF SpawnOk, InCall, Closing, threadVars, chanVars
<1>4. CASE SpawnErr
  BY <1>1, <1>4 DEF SpawnErr, InCall, Closing, DropSenders
<1>5. CASE DropIsle
  <2>1. senders' = senders /\ isle' = "dropping" /\ closer' = closer
        /\ phase' = phase
    BY <1>5 DEF DropIsle, SendShutdown, threadVars, chanVars
  <2>q. QED
    BY <1>1, <1>5, <2>1 DEF DropIsle, InCall, Closing
<1>6. CASE DropFields
  BY <1>1, <1>6 DEF DropFields, DropSenders, InCall, Closing
<1>7. ASSUME NEW j \in Jobs, NEW o \in Ops, Calls(j, o)
      PROVE  BorrowInv'
  BY <1>1, <1>7 DEF Calls, Begin, Moves, InCall, Closing, threadVars, chanVars
<1>8. ASSUME NEW j \in Jobs,
             \/ Send(j) \/ SendClosed(j) \/ SendFull(j) \/ Receive(j) \/ Poll(j)
             \/ Expire(j) \/ StartPolling(j) \/ LeaveTask(j) \/ TimeUp(j),
             UNCHANGED ownerVars
      PROVE  BorrowInv'
  <2>1. senders' = senders
    BY <1>8 DEF Send, Submit, SendClosed, SendFull, Receive, Poll, Answered,
                Expire, Fire, StartPolling, LeaveTask, TimeUp, threadVars,
                chanVars
  <2>2. \A k \in Jobs : InCall(k)' => InCall(k)
    BY <1>8, CallersStayOut
  <2>q. QED
    BY <1>1, <1>8, <2>1, <2>2 DEF Closing
<1>9. ASSUME (\E c \in Cancellers, j \in Jobs : Cancel(c, j))
             \/ (\E f \in Firers : FinishFire(f)),
             UNCHANGED ownerVars
      PROVE  BorrowInv'
  BY <1>1, <1>9 DEF Cancel, Fire, FinishFire, FireInterrupt, InCall, Closing,
                    chanVars
<1>10. ASSUME NEW c \in Closers, ShutBegin(c)
       PROVE  BorrowInv'
  BY <1>1, <1>10 DEF ShutBegin, InCall, Closing, threadVars, chanVars
<1>11. ASSUME NEW c \in Closers, ShutSend(c)
       PROVE  BorrowInv'
  <2>1. Leaving'
    <3>1. CASE SendShutdown
      BY <3>1 DEF SendShutdown, Leaving, Queued, ThreadInv, TypeInv, ThreadTypeOK
    <3>2. CASE pc = "exited"
      BY <1>1, <3>2 DEF Leaving
    <3>q. QED
      BY <1>11, <3>1, <3>2 DEF ShutSend
  <2>2. senders' = senders /\ isle' = isle /\ phase' = phase
        /\ closer' = [closer EXCEPT ![c] = "taking"] /\ closer[c] = "sending"
    BY <1>11 DEF ShutSend, SendShutdown, threadVars, chanVars
  <2>q. QED
    BY <1>1, <2>1, <2>2 DEF InCall, Closing
<1>12. ASSUME NEW c \in Closers, ShutTake(c)
       PROVE  BorrowInv'
  BY <1>1, <1>12 DEF ShutTake, InCall, Closing, threadVars, chanVars
<1>13. ASSUME NEW c \in Closers, ShutJoin(c)
       PROVE  BorrowInv'
  BY <1>1, <1>13 DEF ShutJoin, InCall, Closing, threadVars, chanVars
<1>14. CASE UNCHANGED syncVars
  BY <1>1, <1>14 DEF syncVars, InCall, Closing, threadVars, chanVars
<1> HIDE DEF BorrowInv, ownerVars
<1>q. QED
  <2>1. Jobs \subseteq Firers /\ Cancellers \subseteq Firers
    BY CallersAssumption
  <2>2. ASSUME NEW j \in Jobs, CallerStep(j)
        PROVE  BorrowInv'
    BY <1>8, <1>9, <2>1, <2>2 DEF CallerStep, TryCallFull
  <2>q. QED
    BY <1>2, <1>3, <1>4, <1>5, <1>6, <1>7, <1>8, <1>9, <1>10, <1>11, <1>12,
       <1>13, <1>14, <2>1, <2>2 DEF SyncNext, OwnerStep, CloserStep

LEMMA BorrowInvariant == SyncSpec => []BorrowInv
  BY BorrowInvInit, BorrowInvStep, SyncImplementsCallers, ThreadInvariant,
     TellInvariant, DrainInvariant, JoinInvariant, PTL DEF SyncSpec

\* Calls, tasks, shutdowns and the thread itself never wait for something that
\* cannot come: what fairness needs to see them through is always there.
THEOREM SyncNobodyWaitsInVain == SyncSpec => []NobodyWaitsInVain
<1>1. BorrowInv /\ NothingForgotten => NobodyWaitsInVain
  BY DEF BorrowInv, NobodyWaitsInVain, InCall, Closing
<1>q. QED
  BY <1>1, BorrowInvariant, SyncImplementsCallers, NobodyForgotten, PTL
=============================================================================
