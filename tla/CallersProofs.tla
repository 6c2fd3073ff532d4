--------------------------- MODULE CallersProofs ---------------------------
(***************************************************************************)
(* What TLAPS proves of the callers of any isle, for every number of       *)
(* callers and cancellers: CallersSpec is an environment that IsleThread   *)
(* allows, and what callers are told is true.  SyncIsle and AsyncIsle      *)
(* implement CallersSpec, so each theorem here holds of both.              *)
(***************************************************************************)
EXTENDS Callers, IsleThreadProofs

bothVars == <<threadVars, callerVars>>

LEMMA CallersStepMaps == [CallersNext]_bothVars => [ThreadNext]_threadVars
<1> SUFFICES ASSUME [CallersNext]_bothVars
             PROVE  [ThreadNext]_threadVars
  OBVIOUS
<1>1. Jobs \subseteq Firers /\ Cancellers \subseteq Firers
  BY CallersAssumption
<1>2. CASE OwnersStep
  BY <1>2 DEF OwnersStep, ThreadNext, EnvStep
<1>3. ASSUME NEW j \in Jobs,
             \/ \E o \in Ops : Begin(j, o)
             \/ SendClosed(j) \/ SendFull(j) \/ Receive(j) \/ Poll(j)
             \/ StartPolling(j) \/ TimeUp(j) \/ LeaveTask(j) \/ DropFuture(j)
      PROVE  UNCHANGED threadVars
  BY <1>3 DEF Begin, SendClosed, SendFull, Receive, Poll, Answered,
              StartPolling, TimeUp, LeaveTask, DropFuture
<1>4. ASSUME NEW j \in Jobs, Send(j)
      PROVE  ThreadNext
  BY <1>4 DEF Send, ThreadNext, EnvStep
<1>5. ASSUME NEW j \in Jobs, Expire(j) \/ Abandon(j) \/ DropResolved(j)
      PROVE  ThreadNext
  BY <1>1, <1>5 DEF Expire, Abandon, DropResolved, ThreadNext, EnvStep, Reasons
<1>6. ASSUME NEW c \in Cancellers, NEW j \in Jobs, Cancel(c, j)
      PROVE  ThreadNext
  BY <1>1, <1>6 DEF Cancel, ThreadNext, EnvStep, Reasons
<1>7. ASSUME NEW f \in Firers, FinishFire(f)
      PROVE  ThreadNext
  BY <1>7 DEF FinishFire, ThreadNext, EnvStep
<1>8. CASE UNCHANGED bothVars
  BY <1>8 DEF bothVars
<1>q. QED
  BY <1>2, <1>3, <1>4, <1>5, <1>6, <1>7, <1>8 DEF CallersNext

\* The callers and owners of an isle do to its thread only what IsleThread's
\* environment may, so all that is proved of the thread holds under them.
THEOREM CallersImplementThread == CallersSpec => ThreadSpec
<1>1. CallersInit => ThreadInit
  BY DEF CallersInit
<1>q. QED
  BY <1>1, CallersStepMaps, PTL DEF CallersSpec, ThreadSpec, bothVars

-----------------------------------------------------------------------------
(* What a step leaves alone.                                               *)

ThreadInv == TypeInv /\ InterruptInv /\ QueueInv

LEMMA ThreadInvariant == CallersSpec => []ThreadInv
  BY CallersImplementThread, InterruptInvariant, QueueInvariant, PTL DEF ThreadInv

\* The thread and the owners of the isle never touch a token's state.
LEMMA OwnersLeaveTokens == OwnersStep => UNCHANGED state
  BY DEF OwnersStep, LoopStep, ClosureStep, StmtEnd, ClosureReturn, Open, Recv,
         RecvDisconnected, CheckAbort, CheckToken, AttachHandle, AttachCheck,
         Detach, Respond, HealthStart, HealthDone, Exit, StmtStep, StmtRow,
         StmtDone, StmtInterrupted, StmtFrame, Return, SendShutdown,
         DropSenders, StoreAbort, AbortInterrupt, tokenVars

\* An answer stays, abort stays, and only Submit makes a job known: of every
\* step of the thread and its owners.
LEMMA OwnersKeep ==
  ASSUME ThreadInv, OwnersStep, NEW j \in Jobs
  PROVE  /\ result[j] # "none" => result'[j] = result[j]
         /\ abort => abort'
         /\ Fresh(j) => Fresh(j)'
<1> USE ThreadAssumption
<1> USE DEF ThreadInv, TypeInv, ThreadTypeOK, loopVars, chanVars, tokenVars,
        abortVars, connVars, QueueInv, QueuedOnce, HandJob, Queued, Fresh,
        JobPlaces
<1> DEFINE Keeps == /\ result[j] # "none" => result'[j] = result[j]
                    /\ abort => abort'
                    /\ Fresh(j) => Fresh(j)'
<1>1. CASE Recv
  BY <1>1 DEF Recv
<1>2. CASE CheckAbort
  BY <1>2 DEF CheckAbort
<1>3. CASE CheckToken
  BY <1>3 DEF CheckToken
<1>4. CASE Respond
  BY <1>4 DEF Respond
<1>5. CASE Exit
  BY <1>5 DEF Exit
<1>6. CASE SendShutdown
  BY <1>6 DEF SendShutdown
<1>7. CASE StoreAbort
  BY <1>7 DEF StoreAbort
<1>8. CASE UNCHANGED <<chan, cur, result, abort>>
  BY <1>8
<1>9. \/ Recv \/ CheckAbort \/ CheckToken \/ Respond \/ Exit \/ SendShutdown
      \/ StoreAbort \/ UNCHANGED <<chan, cur, result, abort>>
  BY DEF OwnersStep, LoopStep, ClosureStep, StmtEnd, ClosureReturn, Open,
         RecvDisconnected, AttachHandle, AttachCheck, Detach, HealthStart,
         HealthDone, StmtStep, StmtRow, StmtDone, StmtInterrupted, StmtFrame,
         Return, DropSenders, AbortInterrupt
<1> HIDE DEF Keeps
<1>q. QED
  <2>1. Keeps
    BY <1>1, <1>2, <1>3, <1>4, <1>5, <1>6, <1>7, <1>8, <1>9 DEF Keeps
  <2>q. QED
    BY <2>1 DEF Keeps

\* When the thread has left, nothing reaches it any more.
LEMMA ExitedIsFinal ==
  ASSUME [ThreadNext]_threadVars, pc = "exited"
  PROVE  pc' = "exited" /\ UNCHANGED <<chan, result, ran>>
  BY DEF ThreadNext, LoopStep, ClosureStep, StmtEnd, ClosureReturn, EnvStep,
         Open, Recv, RecvDisconnected, CheckAbort, CheckToken, AttachHandle,
         AttachCheck, Detach, Respond, HealthStart, HealthDone, Exit, StmtStep,
         StmtRow, StmtDone, StmtInterrupted, StmtFrame, Return, Submit, Fire,
         SendShutdown, DropSenders, FireInterrupt, StoreAbort, AbortInterrupt,
         threadVars, loopVars, chanVars

-----------------------------------------------------------------------------
(* Types, and the reasons calls fail for.                                  *)

CallersType ==
  /\ op \in [Jobs -> Ops \cup {"none"}]
  /\ phase \in [Jobs -> Phases]
  /\ ans \in [Jobs -> Answers \cup {"none", "QueueFull"}]
  /\ late \subseteq Jobs

\* A deadline passes only in call_timeout; a token fires Cancelled by a clone
\* or by the drop of its task, and whoever dropped it learns of no answer.
ReasonInv ==
  \A j \in Jobs :
    /\ phase[j] = "idle" => op[j] = "none"
    /\ phase[j] \in {"timed", "expiring", "overdue"} => op[j] = "call_timeout"
    /\ state[j] = "Timeout" => op[j] = "call_timeout"
    /\ state[j] = "Cancelled"
         => op[j] \in TaskOps \/ phase[j] \in {"dropped", "done"}
    /\ ans[j] = "Timeout" => op[j] = "call_timeout"
    /\ ans[j] = "Cancelled" => op[j] \in TaskOps
    /\ ans[j] # "SqliteInterrupt"

TellInv == CallersType /\ ReasonInv

LEMMA TellInvInit == CallersInit => TellInv
  BY DEF CallersInit, ThreadInit, TellInv, CallersType, ReasonInv, Phases,
         Answers, TaskOps

LEMMA TellInvStep == ThreadInv /\ TellInv /\ [CallersNext]_bothVars => TellInv'
<1> SUFFICES ASSUME ThreadInv, TellInv, [CallersNext]_bothVars
             PROVE  TellInv'
  OBVIOUS
<1> USE CallersAssumption
<1> USE DEF ThreadInv, TypeInv, ThreadTypeOK, TellInv, CallersType, ReasonInv,
        Phases, Answers, Reasons, TaskOps, callerVars, threadVars, tokenVars
<1>1. CASE OwnersStep /\ UNCHANGED callerVars
  BY <1>1, OwnersLeaveTokens
<1>2. ASSUME NEW j \in Jobs, NEW o \in Ops, Begin(j, o)
      PROVE  TellInv'
  BY <1>2 DEF Begin, Moves
<1>3. ASSUME NEW j \in Jobs, Send(j)
      PROVE  TellInv'
  BY <1>3 DEF Send, Submit, Moves
<1>4. ASSUME NEW j \in Jobs, SendClosed(j) \/ SendFull(j)
      PROVE  TellInv'
  BY <1>4 DEF SendClosed, SendFull, Answered, Moves
<1>5. ASSUME NEW j \in Jobs, Receive(j) \/ Poll(j)
      PROVE  TellInv'
  BY <1>5 DEF Receive, Poll, Answered, Moves, InterruptInv, AnswersExplained
<1>6. ASSUME NEW j \in Jobs, StartPolling(j) \/ TimeUp(j)
      PROVE  TellInv'
  BY <1>6 DEF StartPolling, TimeUp, Moves
<1>7. ASSUME NEW j \in Jobs, Expire(j)
      PROVE  TellInv'
  BY <1>7 DEF Expire, Moves, Fire
<1>8. ASSUME NEW j \in Jobs, LeaveTask(j)
      PROVE  TellInv'
  BY <1>8 DEF LeaveTask, Moves
<1>9. ASSUME NEW j \in Jobs, DropFuture(j)
      PROVE  TellInv'
  BY <1>9 DEF DropFuture, Moves
<1>10. ASSUME NEW j \in Jobs, Abandon(j) \/ DropResolved(j)
       PROVE  TellInv'
  BY <1>10 DEF Abandon, DropResolved, Moves, Fire
<1>11. ASSUME NEW c \in Cancellers, NEW j \in Jobs, Cancel(c, j)
       PROVE  TellInv'
  BY <1>11 DEF Cancel, Fire
<1>12. ASSUME NEW f \in Firers, FinishFire(f)
       PROVE  TellInv'
  BY <1>12 DEF FinishFire, FireInterrupt
<1>13. CASE UNCHANGED bothVars
  BY <1>13 DEF bothVars
<1> HIDE DEF TellInv, ThreadInv
<1>q. QED
  BY <1>1, <1>2, <1>3, <1>4, <1>5, <1>6, <1>7, <1>8, <1>9, <1>10, <1>11, <1>12,
     <1>13 DEF CallersNext

LEMMA TellInvariant == CallersSpec => []TellInv
<1>1. TellInv /\ ThreadInv /\ [CallersNext]_bothVars => TellInv'
  BY TellInvStep
<1>q. QED
  BY <1>1, TellInvInit, ThreadInvariant, PTL DEF CallersSpec, bothVars

\* The variables of the callers keep their types, over any front end.
THEOREM CallersTypeCorrect == CallersSpec => []CallersTypeOK
<1>1. TellInv /\ ThreadInv => CallersTypeOK
  BY DEF TellInv, CallersType, CallersTypeOK, ThreadInv, TypeInv
<1>q. QED
  BY <1>1, TellInvariant, ThreadInvariant, PTL

\* Whatever other callers cancel, drop or abort, a call fails only for the
\* reasons of its own signature.
THEOREM ReasonsFit == CallersSpec => []ReasonFitsCall
<1>1. TellInv => ReasonFitsCall
  BY DEF TellInv, ReasonInv, ReasonFitsCall
<1>q. QED
  BY <1>1, TellInvariant, PTL

-----------------------------------------------------------------------------
(* Refused work.                                                           *)

\* A job is known to the thread only when its caller has sent it; what was
\* refused never becomes known, and what was closed stays dropped.
RefusedInv ==
  \A j \in Jobs :
    /\ phase[j] \in {"idle", "sending", "gone"} => Fresh(j)
    /\ ans[j] = "QueueFull" => Fresh(j) /\ phase[j] = "done"
    /\ ans[j] = "Closed" => \/ Fresh(j) /\ phase[j] = "done"
                            \/ result[j] \in {"Dropped", "Closed"}

LEMMA RefusedInvInit == CallersInit => RefusedInv
  BY ThreadAssumption DEF CallersInit, ThreadInit, RefusedInv, Fresh, Queued

LEMMA RefusedInvStep ==
  ThreadInv /\ TellInv /\ RefusedInv /\ [CallersNext]_bothVars => RefusedInv'
<1> SUFFICES ASSUME ThreadInv, TellInv, RefusedInv, [CallersNext]_bothVars
             PROVE  RefusedInv'
  OBVIOUS
<1> USE CallersAssumption, ThreadAssumption
<1> USE DEF TellInv, CallersType, RefusedInv, callerVars, threadVars, loopVars,
        chanVars, Fresh, Queued
<1>1. CASE OwnersStep /\ UNCHANGED callerVars
  <2> SUFFICES ASSUME NEW j \in Jobs
               PROVE  /\ phase[j]' \in {"idle", "sending", "gone"} => Fresh(j)'
                      /\ ans[j]' = "QueueFull" => Fresh(j)' /\ phase[j]' = "done"
                      /\ ans[j]' = "Closed" => \/ Fresh(j)' /\ phase[j]' = "done"
                                              \/ result'[j] \in {"Dropped", "Closed"}
    OBVIOUS
  <2>1. /\ result[j] # "none" => result'[j] = result[j]
        /\ Fresh(j) => Fresh(j)'
    BY <1>1, OwnersKeep
  <2>2. phase' = phase /\ ans' = ans
    BY <1>1
  <2> HIDE DEF Fresh
  <2>q. QED
    BY <2>1, <2>2
<1>2. ASSUME NEW j \in Jobs, NEW o \in Ops, Begin(j, o)
      PROVE  RefusedInv'
  BY <1>2 DEF Begin, Moves
<1>3. ASSUME NEW j \in Jobs, Send(j)
      PROVE  RefusedInv'
  <2>1. /\ chan' = Append(chan, j) /\ cur' = cur /\ result' = result
        /\ ans' = ans /\ phase[j] = "sending"
        /\ phase'[j] \notin {"idle", "sending", "gone"}
        /\ \A k \in Jobs \ {j} : phase'[k] = phase[k]
    BY <1>3 DEF Send, Submit, Moves
  <2>2. \A k \in Jobs \ {j} : Fresh(k) => Fresh(k)'
    BY <2>1 DEF ThreadInv, TypeInv, ThreadTypeOK
  <2>3. ans[j] # "QueueFull" /\ (ans[j] = "Closed" => result[j] # "none")
    BY <2>1
  <2>4. result[j] = "none"
    BY <1>3 DEF Send, Submit
  <2>q. QED
    BY <2>1, <2>2, <2>3, <2>4
<1>4. ASSUME NEW j \in Jobs, SendClosed(j) \/ SendFull(j)
      PROVE  RefusedInv'
  BY <1>4 DEF SendClosed, SendFull, Answered, Moves
<1>5. ASSUME NEW j \in Jobs, Receive(j) \/ Poll(j)
      PROVE  RefusedInv'
  BY <1>5 DEF Receive, Poll, Answered, Moves, ThreadInv, TypeInv, ThreadTypeOK, Answers
<1>6. ASSUME NEW j \in Jobs, StartPolling(j) \/ TimeUp(j)
      PROVE  RefusedInv'
  BY <1>6 DEF StartPolling, TimeUp, Moves
<1>7. ASSUME NEW j \in Jobs, Expire(j)
      PROVE  RefusedInv'
  BY <1>7 DEF Expire, Moves, Fire
<1>8. ASSUME NEW j \in Jobs, LeaveTask(j)
      PROVE  RefusedInv'
  BY <1>8 DEF LeaveTask, Moves
<1>9. ASSUME NEW j \in Jobs, DropFuture(j)
      PROVE  RefusedInv'
  BY <1>9 DEF DropFuture, Moves
<1>10. ASSUME NEW j \in Jobs, Abandon(j) \/ DropResolved(j)
       PROVE  RefusedInv'
  BY <1>10 DEF Abandon, DropResolved, Moves, Fire
<1>11. ASSUME NEW c \in Cancellers, NEW j \in Jobs, Cancel(c, j)
       PROVE  RefusedInv'
  BY <1>11 DEF Cancel, Fire
<1>12. ASSUME NEW f \in Firers, FinishFire(f)
       PROVE  RefusedInv'
  BY <1>12 DEF FinishFire, FireInterrupt
<1>13. CASE UNCHANGED bothVars
  BY <1>13 DEF bothVars
<1> HIDE DEF TellInv, RefusedInv
<1>q. QED
  BY <1>1, <1>2, <1>3, <1>4, <1>5, <1>6, <1>7, <1>8, <1>9, <1>10, <1>11, <1>12,
     <1>13 DEF CallersNext

\* Closed and QueueFull mean that the work was not done, and never will be.
THEOREM RefusedJobsNeverRun == CallersSpec => []RefusedNeverRuns
<1>1. RefusedInv /\ ThreadInv /\ TellInv /\ [CallersNext]_bothVars => RefusedInv'
  BY RefusedInvStep
<1>2. RefusedInv /\ ThreadInv => RefusedNeverRuns
  BY ThreadAssumption
  DEF RefusedInv, RefusedNeverRuns, ThreadInv, QueueInv, RanAnswered, HandJob,
      InterruptInv, AnswersExplained, Fresh, TypeInv, ThreadTypeOK
<1>q. QED
  BY <1>1, <1>2, RefusedInvInit, ThreadInvariant, TellInvariant, PTL
  DEF CallersSpec, bothVars

\* A caller who is told Ok, an error of SQLite or a panic is told what its own
\* closure came to, which was entered once; EnteredOnce and AnsweredOnce keep
\* it so.  With RefusedNeverRuns: what a caller is told decides whether its
\* work was begun, but for Cancelled, Timeout and a closed running job.
ToldTheTruth ==
  \A j \in Jobs :
    ans[j] \in {"Ok", "Sqlite", "Panicked"} => result[j] = ans[j] /\ j \in ran

LEMMA OwnersKeepAnswers ==
  ASSUME ThreadInv, [CallersNext]_bothVars, NEW j \in Jobs, result[j] # "none"
  PROVE  result'[j] = result[j]
<1>1. CASE OwnersStep
  BY <1>1, OwnersKeep
<1>2. CASE UNCHANGED result
  BY <1>2
<1>3. OwnersStep \/ UNCHANGED result
  BY DEF CallersNext, bothVars, threadVars, Begin, Send, Submit, SendClosed,
     SendFull, Receive, Poll, Answered, StartPolling, TimeUp, Expire, Fire,
     LeaveTask, DropFuture, Abandon, DropResolved, Cancel, FinishFire,
     FireInterrupt
<1>q. QED
  BY <1>1, <1>2, <1>3

\* Neither front end makes an answer up, or hands one to another's caller.
THEOREM CallersToldTheTruth == CallersSpec => []ToldTheTruth
<1> DEFINE Quoted == \A j \in Jobs : ans[j] \in {"Ok", "Sqlite", "Panicked"}
                                       => result[j] = ans[j]
<1>1. CallersInit => Quoted
  BY DEF CallersInit
<1>2. Quoted /\ ThreadInv /\ TellInv /\ [CallersNext]_bothVars => Quoted'
  <2> SUFFICES ASSUME Quoted, ThreadInv, TellInv, [CallersNext]_bothVars,
                      NEW j \in Jobs, ans'[j] \in {"Ok", "Sqlite", "Panicked"}
               PROVE  result'[j] = ans'[j]
    OBVIOUS
  <2>1. CASE ans'[j] = ans[j]
    <3>1. result[j] = ans[j] /\ result[j] # "none"
      BY <2>1
    <3>q. QED
      BY <2>1, <3>1, OwnersKeepAnswers
  <2>2. CASE Receive(j) \/ Poll(j)
    <3>1. ans'[j] = result[j] \/ ans'[j] = "Closed"
      BY <2>2 DEF Receive, Poll, Answered, TellInv, CallersType
    <3>2. result' = result
      BY <2>2 DEF Receive, Poll, Answered, threadVars
    <3>q. QED
      BY <3>1, <3>2
  <2>3. CASE SendClosed(j) \/ SendFull(j)
    BY <2>3 DEF SendClosed, SendFull, Answered, TellInv, CallersType
  <2>4. \/ ans'[j] = ans[j] \/ Receive(j) \/ Poll(j)
        \/ SendClosed(j) \/ SendFull(j)
    BY DEF CallersNext, bothVars, callerVars, Begin, Send, SendClosed,
       SendFull, Receive, Poll, Answered, StartPolling, TimeUp, Expire,
       LeaveTask, DropFuture, Abandon, DropResolved, Cancel, FinishFire,
       TellInv, CallersType
  <2>q. QED
    BY <2>1, <2>2, <2>3, <2>4
<1>3. Quoted /\ ReportedRan => ToldTheTruth
  BY DEF ReportedRan, Reports, ToldTheTruth
<1>q. QED
  BY <1>1, <1>2, <1>3, ThreadInvariant, TellInvariant, CallersImplementThread,
     ReportsAreOfClosures, PTL DEF CallersSpec, bothVars

-----------------------------------------------------------------------------
(* Graceful shutdown.                                                      *)

Excused(j) == j \in late \/ poisoned \/ abort

\* Only late jobs, or those of a broken or aborted isle, are ever dropped.
DroppedExcused == \A j \in Jobs : result[j] = "Dropped" => Excused(j)

\* Behind a request to stop the queue holds late jobs only; so does all of it
\* once the thread leaves, unless it leaves for a panic or an abort.
DrainInv ==
  /\ pc = "opening" => opened = "pending"
  /\ opened # "Ok" => chan = <<>>
  /\ \A i, k \in 1 .. Len(chan) :
       i < k /\ chan[i] = Shutdown /\ chan[k] \in Jobs => chan[k] \in late
  /\ pc = "closing" => \A j \in Jobs : Queued(j) => Excused(j)
  /\ DroppedExcused

LEMMA DrainInvInit == CallersInit => DrainInv
  BY DEF CallersInit, ThreadInit, DrainInv, DroppedExcused, Queued

\* What excused a job once excuses it for ever.
LEMMA PoisonStays ==
  ASSUME ThreadInv, OwnersStep
  PROVE  poisoned => poisoned'
  BY DEF ThreadInv, TypeInv, ThreadTypeOK, InterruptInv, PanicPlaces, OwnersStep,
         LoopStep, ClosureStep, StmtEnd, ClosureReturn, Open, Recv,
         RecvDisconnected, CheckAbort, CheckToken, AttachHandle, AttachCheck,
         Detach, Respond, HealthStart, HealthDone, Exit, StmtStep, StmtRow,
         StmtDone, StmtInterrupted, StmtFrame, Return, SendShutdown,
         DropSenders, StoreAbort, AbortInterrupt, connVars

LEMMA DrainInvStep ==
  ThreadInv /\ TellInv /\ DrainInv /\ [CallersNext]_bothVars => DrainInv'
<1> SUFFICES ASSUME ThreadInv, TellInv, DrainInv, [CallersNext]_bothVars
             PROVE  DrainInv'
  OBVIOUS
<1> USE CallersAssumption, ThreadAssumption
<1> USE DEF ThreadInv, TypeInv, ThreadTypeOK, TellInv, CallersType, DrainInv,
        DroppedExcused, Excused, callerVars, threadVars, loopVars, chanVars,
        tokenVars, abortVars, connVars, Queued
<1>1. CASE OwnersStep /\ UNCHANGED callerVars
  <2>1. (poisoned => poisoned') /\ (abort => abort') /\ late' = late
    <3>1. abort => abort'
      BY <1>1 DEF OwnersStep, LoopStep, ClosureStep, StmtEnd, ClosureReturn,
         Open, Recv, RecvDisconnected, CheckAbort, CheckToken, AttachHandle,
         AttachCheck, Detach, Respond, HealthStart, HealthDone, Exit, StmtStep,
         StmtRow, StmtDone, StmtInterrupted, StmtFrame, Return, SendShutdown,
         DropSenders, StoreAbort, AbortInterrupt
    <3>q. QED
      BY <3>1, <1>1, PoisonStays
  <2>2. ASSUME NEW r \in {"Ok", "Sqlite", "Closed"}, Open(r)
        PROVE  DrainInv'
    BY <2>1, <2>2 DEF Open
  <2>3. CASE Recv
    BY <2>1, <2>3 DEF Recv
  <2>4. CASE RecvDisconnected
    BY <2>1, <2>4 DEF RecvDisconnected
  <2>5. CASE CheckAbort
    BY <2>1, <2>5 DEF CheckAbort
  <2>6. CASE CheckToken
    BY <2>1, <2>6 DEF CheckToken, Reasons
  <2>7. CASE Respond
    BY <2>1, <2>7
    DEF Respond, Answer, Normalized, Reasons, Outcomes, JobPlaces
  <2>8. CASE HealthDone
    BY <2>1, <2>8 DEF HealthDone, InterruptInv, NoStrayInterrupt, JobPlaces
  <2>9. CASE Exit
    BY <2>1, <2>9 DEF Exit
  <2>10. CASE SendShutdown
    BY <2>1, <2>10 DEF SendShutdown
  <2>11. CASE /\ UNCHANGED <<opened, chan, result>>
              /\ pc' \notin {"opening", "closing"} \/ pc' = pc
    BY <2>1, <2>11
  <2>12. \/ \E r \in {"Ok", "Sqlite", "Closed"} : Open(r)
         \/ Recv \/ RecvDisconnected \/ CheckAbort \/ CheckToken \/ Respond
         \/ HealthDone \/ Exit \/ SendShutdown
         \/ /\ UNCHANGED <<opened, chan, result>>
            /\ pc' \notin {"opening", "closing"} \/ pc' = pc
    BY <1>1 DEF OwnersStep, LoopStep, ClosureStep, StmtEnd, ClosureReturn,
         AttachHandle, AttachCheck, Detach, HealthStart, StmtStep,
         StmtRow, StmtDone, StmtInterrupted, StmtFrame, Return,
         DropSenders, StoreAbort, AbortInterrupt
  <2> HIDE DEF DrainInv
  <2>q. QED
    BY <2>2, <2>3, <2>4, <2>5, <2>6, <2>7, <2>8, <2>9, <2>10, <2>11, <2>12
<1>2. ASSUME NEW j \in Jobs, Send(j)
      PROVE  DrainInv'
  <2>1. /\ opened = "Ok" /\ opened' = opened /\ pc' = pc /\ result' = result
        /\ poisoned' = poisoned /\ abort' = abort /\ chan' = Append(chan, j)
        /\ late' = IF pc = "closing" \/ Queued(Shutdown) THEN late \cup {j}
                   ELSE late
    BY <1>2 DEF Send, Submit
  <2>2. late \subseteq late'
    BY <2>1
  <2>3. \A i, k \in 1 .. Len(chan') :
          i < k /\ chan'[i] = Shutdown /\ chan'[k] \in Jobs => chan'[k] \in late'
    <3> SUFFICES ASSUME NEW i \in 1 .. Len(chan'), NEW k \in 1 .. Len(chan'),
                        i < k, chan'[i] = Shutdown, chan'[k] \in Jobs
                 PROVE  chan'[k] \in late'
      OBVIOUS
    <3>1. /\ Len(chan') = Len(chan) + 1 /\ chan'[Len(chan) + 1] = j
          /\ \A n \in 1 .. Len(chan) : chan'[n] = chan[n]
      BY <2>1
    <3>2. CASE k = Len(chan) + 1
      <4>1. Queued(Shutdown)
        BY <3>1, <3>2
      <4>q. QED
        BY <2>1, <3>1, <3>2, <4>1
    <3>3. CASE k # Len(chan) + 1
      BY <2>2, <3>1, <3>3
    <3>q. QED
      BY <3>2, <3>3
  <2>4. \A k \in Jobs : Queued(k)' => Queued(k) \/ k = j
    BY <2>1
  <2>q. QED
    BY <2>1, <2>2, <2>3, <2>4
<1>3. CASE UNCHANGED <<pc, opened, chan, result, poisoned, abort, late>>
  BY <1>3
<1>4. \/ OwnersStep /\ UNCHANGED callerVars
      \/ \E j \in Jobs : Send(j)
      \/ UNCHANGED <<pc, opened, chan, result, poisoned, abort, late>>
  BY DEF CallersNext, bothVars, Begin, SendClosed, SendFull, Receive, Poll,
     Answered, StartPolling, TimeUp, Expire, LeaveTask, DropFuture, Abandon, DropResolved, Cancel,
     FinishFire, Fire, FireInterrupt
<1> HIDE DEF DrainInv
<1>q. QED
  BY <1>1, <1>2, <1>3, <1>4

LEMMA DrainInvariant == CallersSpec => []DrainInv
<1>1. DrainInv /\ ThreadInv /\ TellInv /\ [CallersNext]_bothVars => DrainInv'
  BY DrainInvStep
<1>q. QED
  BY <1>1, DrainInvInit, ThreadInvariant, TellInvariant, PTL
  DEF CallersSpec, bothVars

\* A late job came behind a request to stop, and stays there.
LateInv == \A j \in late : Stranded(j)

LEMMA LateInvStep ==
  ThreadInv /\ TellInv /\ LateInv /\ [CallersNext]_bothVars => LateInv'
<1> SUFFICES ASSUME ThreadInv, TellInv, LateInv, [CallersNext]_bothVars,
                    NEW j \in late'
             PROVE  Stranded(j)'
  BY DEF LateInv
<1>1. [ThreadNext]_threadVars
  BY CallersStepMaps
<1>2. CASE j \in late
  <2>1. j \in Jobs /\ Stranded(j)
    BY <1>2 DEF LateInv, TellInv, CallersType
  <2>q. QED
    BY <1>1, <2>1, StrandedStays DEF ThreadInv
<1>3. ASSUME NEW k \in Jobs, Send(k), j = k, pc = "closing" \/ Queued(Shutdown)
      PROVE  Stranded(j)'
  <2>1. chan' = Append(chan, j) /\ pc' = pc
    BY <1>3 DEF Send, Submit, loopVars
  <2>2. /\ Len(chan') = Len(chan) + 1 /\ chan'[Len(chan) + 1] = j
        /\ \A i \in 1 .. Len(chan) : chan'[i] = chan[i]
    BY <2>1, <1>3 DEF ThreadInv, TypeInv, ThreadTypeOK
  <2>3. Queued(j)'
    BY <2>2 DEF Queued
  <2>4. Queued(Shutdown) => Ahead(Shutdown, j)'
    BY <2>2 DEF Queued, Ahead
  <2>q. QED
    BY <1>3, <2>1, <2>3, <2>4 DEF Stranded
<1>4. \/ late' = late
      \/ \E k \in Jobs : /\ Send(k)
                         /\ late' = late \/ (late' = late \cup {k}
                              /\ (pc = "closing" \/ Queued(Shutdown)))
  BY DEF CallersNext, bothVars, callerVars, Begin, Send, SendClosed,
     SendFull, Receive, Poll, Answered, StartPolling, TimeUp, Expire,
     LeaveTask, DropFuture, Abandon, DropResolved, Cancel, FinishFire
<1>q. QED
  BY <1>2, <1>3, <1>4

LEMMA LateInvariant == CallersSpec => []LateInv
<1>1. CallersInit => LateInv
  BY DEF CallersInit, LateInv
<1>2. LateInv /\ ThreadInv /\ TellInv /\ [CallersNext]_bothVars => LateInv'
  BY LateInvStep
<1>q. QED
  BY <1>1, <1>2, ThreadInvariant, TellInvariant, PTL DEF CallersSpec, bothVars

\* Shutdown drains what was queued ahead of it, and nothing behind it: only a
\* request to stop, a broken connection or an abort makes the thread drop a
\* job, and what a request to stop left behind is never entered.
THEOREM GracefulDrainHolds == CallersSpec => []GracefulDrain
<1>1. DrainInv /\ LateInv /\ ThreadInv /\ TellInv => GracefulDrain
  <2> SUFFICES ASSUME DrainInv, LateInv, ThreadInv, TellInv
               PROVE  GracefulDrain
    OBVIOUS
  <2>1. \A j \in late : j \notin ran
    BY StrandedNeverRan DEF LateInv, ThreadInv, TellInv, CallersType
  <2>2. DroppedExcused
    BY DEF DrainInv
  <2>q. QED
    BY <2>1, <2>2 DEF GracefulDrain, DroppedExcused, Excused
<1>q. QED
  BY <1>1, DrainInvariant, LateInvariant, ThreadInvariant, TellInvariant, PTL

\* A spawn that succeeded is not taken back.
LEMMA OpenedStays ==
  ASSUME DrainInv, [ThreadNext]_threadVars, opened = "Ok"
  PROVE  opened' = "Ok"
<1>1. pc # "opening"
  BY DEF DrainInv
<1>q. QED
  BY <1>1
  DEF ThreadNext, LoopStep, ClosureStep, StmtEnd, ClosureReturn, EnvStep,
      Open, Recv, RecvDisconnected, CheckAbort, CheckToken, AttachHandle,
      AttachCheck, Detach, Respond, HealthStart, HealthDone, Exit, StmtStep,
      StmtRow, StmtDone, StmtInterrupted, StmtFrame, Return, Submit, Fire,
      SendShutdown, DropSenders, FireInterrupt, StoreAbort, AbortInterrupt,
      threadVars

\* The thread itself neither drops nor gains a sender.
LEMMA ThreadKeepsSenders == LoopStep \/ ClosureStep => UNCHANGED senders
  BY DEF LoopStep, ClosureStep, StmtEnd, ClosureReturn, Open, Recv,
         RecvDisconnected, CheckAbort, CheckToken, AttachHandle, AttachCheck,
         Detach, Respond, HealthStart, HealthDone, Exit, StmtStep, StmtRow,
         StmtDone, StmtInterrupted, StmtFrame, Return, chanVars

-----------------------------------------------------------------------------
(* Nobody is forgotten.                                                    *)

\* Taking a request from the channel loses no other.
LEMMA QueuedInTail ==
  ASSUME NEW S, chan \in Seq(S), chan # <<>>, chan' = Tail(chan), NEW x
  PROVE  Queued(x) => x = Head(chan) \/ Queued(x)'
<1> SUFFICES ASSUME NEW i \in 1 .. Len(chan), chan[i] = x, x # Head(chan)
             PROVE  Queued(x)'
  BY DEF Queued
<1>1. i # 1 /\ i - 1 \in 1 .. Len(Tail(chan)) /\ Tail(chan)[i - 1] = x
  BY DEF Queued
<1>q. QED
  BY <1>1 DEF Queued

\* A job the thread was once given stays known to it: it moves from the queue
\* into the thread's hands and from there, or at the end, to its answer.
LEMMA KnownStays ==
  ASSUME ThreadInv, [ThreadNext]_threadVars, NEW j \in Jobs, ~Fresh(j)
  PROVE  ~Fresh(j)'
<1> USE ThreadAssumption
<1> USE DEF ThreadInv, TypeInv, ThreadTypeOK, threadVars, loopVars, chanVars,
        Fresh, Queued, JobPlaces
<1>1. CASE Recv
  <2>1. Queued(j) => j = Head(chan) \/ Queued(j)'
    BY <1>1, QueuedInTail DEF Recv
  <2>q. QED
    BY <1>1, <2>1 DEF Recv
<1>2. CASE CheckAbort
  BY <1>2 DEF CheckAbort
<1>3. CASE CheckToken
  BY <1>3 DEF CheckToken, Reasons
<1>4. CASE Respond
  BY <1>4 DEF Respond, Answer, Normalized, Reasons, Outcomes
<1>5. CASE Exit
  BY <1>5 DEF Exit
<1>6. ASSUME NEW k \in Jobs, Submit(k)
      PROVE  ~Fresh(j)'
  BY <1>6 DEF Submit
<1>7. CASE SendShutdown
  BY <1>7 DEF SendShutdown
<1>8. CASE UNCHANGED <<chan, cur, result>>
  BY <1>8
<1>9. \/ Recv \/ CheckAbort \/ CheckToken \/ Respond \/ Exit
      \/ \E k \in Jobs : Submit(k)
      \/ SendShutdown \/ UNCHANGED <<chan, cur, result>>
  BY DEF ThreadNext, EnvStep, LoopStep, ClosureStep, StmtEnd, ClosureReturn,
         Open, RecvDisconnected, AttachHandle, AttachCheck, Detach,
         HealthStart, HealthDone, StmtStep, StmtRow, StmtDone,
         StmtInterrupted, StmtFrame, Return, Fire, DropSenders,
         FireInterrupt, StoreAbort, AbortInterrupt
<1> HIDE DEF Fresh, ThreadInv
<1>q. QED
  BY <1>1, <1>2, <1>3, <1>4, <1>5, <1>6, <1>7, <1>8, <1>9

\* A request to stop is never lost: it waits in the queue until the thread
\* takes it, and a thread that leaves does not come back.
LEMMA LeavingStays ==
  ASSUME ThreadInv, [ThreadNext]_threadVars, Leaving
  PROVE  Leaving'
<1> USE ThreadAssumption
<1> USE DEF ThreadInv, TypeInv, ThreadTypeOK, threadVars, loopVars, chanVars,
        Leaving, Queued
<1>1. CASE Recv
  <2>1. Queued(Shutdown) => Shutdown = Head(chan) \/ Queued(Shutdown)'
    BY <1>1, QueuedInTail DEF Recv
  <2>q. QED
    BY <1>1, <2>1 DEF Recv
<1>2. CASE pc' \in {"closing", "exited"}
  BY <1>2
<1>3. ASSUME NEW k \in Jobs, Submit(k)
      PROVE  Leaving'
  BY <1>3 DEF Submit
<1>4. CASE SendShutdown
  BY <1>4 DEF SendShutdown
<1>5. CASE chan' = chan /\ (pc \in {"closing", "exited"} => pc' \in {"closing", "exited"})
  BY <1>5
<1>6. \/ Recv \/ pc' \in {"closing", "exited"}
      \/ \E k \in Jobs : Submit(k)
      \/ SendShutdown
      \/ chan' = chan /\ (pc \in {"closing", "exited"} => pc' \in {"closing", "exited"})
  BY DEF ThreadNext, EnvStep, LoopStep, ClosureStep, StmtEnd, ClosureReturn,
         Open, RecvDisconnected, CheckAbort, CheckToken, AttachHandle,
         AttachCheck, Detach, Respond, HealthStart, HealthDone, Exit, StmtStep,
         StmtRow, StmtDone, StmtInterrupted, StmtFrame, Return, Fire,
         DropSenders, FireInterrupt, StoreAbort, AbortInterrupt
<1> HIDE DEF Leaving
<1>q. QED
  BY <1>1, <1>2, <1>3, <1>4, <1>5, <1>6

\* A caller waits only for a job it has handed over, and the thread drops its
\* queue when it leaves.
OwedInv ==
  /\ pc = "exited" => chan = <<>>
  /\ \A j \in Jobs : Awaits(j) => ~Fresh(j)

LEMMA OwedInvInit == CallersInit => OwedInv
  BY DEF CallersInit, ThreadInit, OwedInv, Awaits

LEMMA OwedInvStep ==
  ThreadInv /\ TellInv /\ OwedInv /\ [CallersNext]_bothVars => OwedInv'
<1> SUFFICES ASSUME ThreadInv, TellInv, OwedInv, [CallersNext]_bothVars
             PROVE  OwedInv'
  OBVIOUS
<1>1. [ThreadNext]_threadVars
  BY CallersStepMaps
<1>2. pc' = "exited" => chan' = <<>>
  <2>1. CASE pc = "exited"
    BY <1>1, <2>1, ExitedIsFinal DEF OwedInv
  <2>2. CASE pc # "exited"
    BY <1>1, <2>2
    DEF ThreadNext, EnvStep, LoopStep, ClosureStep, StmtEnd, ClosureReturn,
         Open, Recv, RecvDisconnected, CheckAbort, CheckToken, AttachHandle,
         AttachCheck, Detach, Respond, HealthStart, HealthDone, Exit, StmtStep,
         StmtRow, StmtDone, StmtInterrupted, StmtFrame, Return, Submit, Fire,
         SendShutdown, DropSenders, FireInterrupt, StoreAbort, AbortInterrupt,
         threadVars, loopVars, chanVars
  <2>q. QED
    BY <2>1, <2>2
<1>3. ASSUME NEW j \in Jobs, Awaits(j)'
      PROVE  ~Fresh(j)'
  <2>1. CASE Awaits(j)
    BY <1>1, <2>1, KnownStays DEF OwedInv
  <2>2. CASE Send(j)
    <3>1. chan' = Append(chan, j) /\ chan \in Seq(Jobs \cup {Shutdown})
      BY <2>2 DEF Send, Submit, ThreadInv, TypeInv, ThreadTypeOK
    <3>q. QED
      BY <3>1 DEF Fresh, Queued
  <2>3. Awaits(j) \/ Send(j)
    BY <1>3
    DEF Awaits, CallersNext, bothVars, callerVars, Begin, Send, SendClosed,
        SendFull, Receive, Poll, Answered, StartPolling, TimeUp, Expire,
        LeaveTask, DropFuture, Abandon, DropResolved, Cancel, FinishFire, Moves,
        TellInv, CallersType
  <2>q. QED
    BY <2>1, <2>2, <2>3
<1>q. QED
  BY <1>2, <1>3 DEF OwedInv

\* Whatever its callers, its tokens and its owners do, the thread answers or
\* drops every job that somebody waits for before it leaves.
THEOREM NobodyForgotten == CallersSpec => []NothingForgotten
<1>1. OwedInv /\ ThreadInv /\ TellInv /\ [CallersNext]_bothVars => OwedInv'
  BY OwedInvStep
<1>2. OwedInv /\ ThreadInv => NothingForgotten
  BY ThreadAssumption
  DEF OwedInv, ThreadInv, TypeInv, JobPlaces, NothingForgotten, Fresh, Queued
<1>q. QED
  BY <1>1, <1>2, OwedInvInit, ThreadInvariant, TellInvariant, PTL
  DEF CallersSpec, bothVars
=============================================================================
