-------------------------- MODULE IsleThreadProofs --------------------------
(***************************************************************************)
(* What TLAPS proves of the SQLite thread, for every set of jobs and of    *)
(* firing threads and every channel capacity.  Three inductive invariants, *)
(* each on top of the one before: the types, with the places at which a    *)
(* job is in hand; who may own an interrupt; what the queue, the job in    *)
(* hand, the answers and the history of entered closures say of each other.*)
(***************************************************************************)
EXTENDS IsleThread, TLAPS

JobPlaces == {"job", "token", "attach", "attached", "run", "returned", "respond"}

TypeInv ==
  /\ ThreadTypeOK
  /\ pc \in JobPlaces <=> cur # NoJob

-----------------------------------------------------------------------------
(* Types.                                                                  *)

LEMMA TypeInvInit == ThreadInit => TypeInv
<1> SUFFICES ASSUME ThreadInit
             PROVE  TypeInv
  OBVIOUS
<1>1. /\ senders \in BOOLEAN /\ abort \in BOOLEAN /\ aborting \in BOOLEAN
      /\ flag \in BOOLEAN /\ hit \in BOOLEAN /\ poisoned \in BOOLEAN
  BY Zenon DEF ThreadInit
<1>2. handle \in [Jobs -> BOOLEAN]
  BY DEF ThreadInit
<1>q. QED
  BY <1>1, <1>2, ThreadAssumption
  DEF ThreadInit, TypeInv, ThreadTypeOK, JobPlaces, Places, Outcomes, Answers,
      Reasons

LEMMA TypeInvStep == TypeInv /\ [ThreadNext]_threadVars => TypeInv'
<1> SUFFICES ASSUME TypeInv, [ThreadNext]_threadVars
             PROVE  TypeInv'
  OBVIOUS
<1> USE ThreadAssumption
<1> USE DEF TypeInv, ThreadTypeOK, loopVars, chanVars, tokenVars, abortVars,
        connVars, Places, Outcomes, Answers, Reasons, JobPlaces
<1>1. ASSUME NEW r \in {"Ok", "Sqlite", "Closed"}, Open(r)
      PROVE  TypeInv'
  BY <1>1 DEF Open
<1>2. CASE Recv
  BY <1>2 DEF Recv
<1>3. CASE RecvDisconnected
  BY <1>3 DEF RecvDisconnected
<1>4. CASE CheckAbort
  BY <1>4 DEF CheckAbort
<1>5. CASE CheckToken
  BY <1>5 DEF CheckToken
<1>6. CASE AttachHandle
  BY <1>6 DEF AttachHandle
<1>7. CASE AttachCheck
  <2>1. flag' \in BOOLEAN
    BY <1>7, Zenon DEF AttachCheck, Interrupt
  <2>q. QED
    BY <2>1, <1>7 DEF AttachCheck
<1>8. CASE Detach
  BY <1>8 DEF Detach
<1>9. CASE Respond
  <2>1. /\ pc' \in Places /\ cur' \in Jobs \cup {NoJob} /\ hit' = FALSE
        /\ UNCHANGED <<ret, chanVars, opened, tokenVars, abortVars, flag, stmt,
                       poisoned, ran>>
    BY <1>9 DEF Respond
  <2>2. result' \in [Jobs -> Answers \cup {"none"}]
    <3>1. CASE cur \in Jobs
      <4>1. Answer \in Answers
        BY <3>1 DEF Answer, Normalized
      <4>q. QED
        BY <4>1, <1>9 DEF Respond
    <3>2. CASE cur \notin Jobs
      BY <3>2, <1>9 DEF Respond
    <3>q. QED
      BY <3>1, <3>2
  <2>3. hit' \in BOOLEAN
    BY <2>1, Zenon
  <2>q. QED
    BY <2>1, <2>2, <2>3, <1>9, SMTT(30) DEF Respond
<1>10. CASE HealthStart
  BY <1>10 DEF HealthStart
<1>11. CASE HealthDone
  <2>1. pc \notin JobPlaces /\ pc' \in {"recv", "closing"}
    BY <1>11 DEF HealthDone
  <2>2. flag' \in BOOLEAN
    BY <1>11, Zenon DEF HealthDone
  <2>3. /\ stmt' = "none"
        /\ UNCHANGED <<cur, ret, chanVars, opened, tokenVars, abortVars, hit,
                       poisoned, result, ran>>
    BY <1>11 DEF HealthDone
  <2>q. QED
    BY <2>1, <2>2, <2>3
<1>12. CASE Exit
  BY <1>12 DEF Exit
<1>13. CASE StmtStep
  BY <1>13 DEF StmtStep, StmtFrame
<1>14. CASE StmtRow
  BY <1>14 DEF StmtRow, StmtFrame
<1>15. CASE StmtDone
  BY <1>15 DEF StmtDone, StmtFrame
<1>16. CASE StmtInterrupted
  BY <1>16 DEF StmtInterrupted, StmtFrame
<1>17. ASSUME NEW r \in Outcomes, Return(r)
      PROVE  TypeInv'
  BY <1>17 DEF Return
<1>18. ASSUME NEW j \in Jobs, Submit(j)
      PROVE  TypeInv'
  BY <1>18 DEF Submit
<1>19. CASE SendShutdown
  BY <1>19 DEF SendShutdown
<1>20. CASE DropSenders
  <2>1. senders' \in BOOLEAN
    BY <1>20, Zenon DEF DropSenders
  <2>q. QED
    BY <2>1, <1>20 DEF DropSenders
<1>21. ASSUME NEW f \in Firers, NEW j \in Jobs, NEW r \in Reasons, Fire(f, j, r)
      PROVE  TypeInv'
  BY <1>21 DEF Fire
<1>22. ASSUME NEW f \in Firers, FireInterrupt(f)
      PROVE  TypeInv'
  <2>1. flag' \in BOOLEAN
    BY <1>22, Zenon DEF FireInterrupt, Interrupt
  <2>q. QED
    BY <2>1, <1>22 DEF FireInterrupt
<1>23. CASE StoreAbort
  BY <1>23 DEF StoreAbort
<1>24. CASE AbortInterrupt
  <2>1. flag' \in BOOLEAN
    BY <1>24, Zenon DEF AbortInterrupt, Interrupt
  <2>q. QED
    <3>1. aborting' \in BOOLEAN /\ abort' \in BOOLEAN
      BY <1>24, Zenon DEF AbortInterrupt
    <3>q. QED
      BY <2>1, <3>1, <1>24 DEF AbortInterrupt
<1>25. CASE UNCHANGED threadVars
  BY <1>25 DEF threadVars
<1> HIDE DEF TypeInv
<1>q. QED
  BY <1>1, <1>2, <1>3, <1>4, <1>5, <1>6, <1>7, <1>8, <1>9, <1>10, <1>11,
     <1>12, <1>13, <1>14, <1>15, <1>16, <1>17, <1>18, <1>19, <1>20, <1>21,
     <1>22, <1>23, <1>24, <1>25
  DEF ThreadNext, LoopStep, ClosureStep, StmtEnd, ClosureReturn, EnvStep

\* The values of every variable stay in their types (the enums and flags of
\* thread.rs and token.rs), for every number of jobs, threads and slots.
THEOREM ThreadTypeCorrect == ThreadSpec => []ThreadTypeOK
<1>1. ThreadInit => TypeInv
  BY TypeInvInit
<1>2. TypeInv /\ [ThreadNext]_threadVars => TypeInv'
  BY TypeInvStep
<1>3. TypeInv => ThreadTypeOK
  BY DEF TypeInv
<1>q. QED
  BY <1>1, <1>2, <1>3, PTL DEF ThreadSpec

-----------------------------------------------------------------------------
(* Interrupts.                                                             *)

\* The handle is on the token of the job in hand only, from attach to detach.
HandleOwned ==
  \A j \in Jobs :
    handle[j] => j = cur /\ pc \in {"attached", "run", "returned"}

\* A fire call past its compare-and-swap finds the token fired.
FireSeen ==
  \A f \in Firers : firing[f] # NoJob => state[firing[f]] # "none"

\* Statements run inside the closure or the health check, the flag is set
\* while one runs, and hit is a matter of the closure that was running.
InterruptPlaces ==
  /\ stmt # "none" => pc \in {"run", "select"}
  /\ flag => stmt # "none"
  /\ hit => pc \in {"run", "returned", "respond"}
  /\ pc \in {"returned", "respond"} /\ ret = "interrupt" => hit

\* A poisoned connection is on its way through the health check, or out.
PanicPlaces ==
  poisoned => \/ pc \in {"returned", "respond"} /\ ret = "panic"
              \/ pc \in {"health", "select", "closing", "exited"}

InterruptInv ==
  /\ HandleOwned /\ FireSeen
  /\ aborting => abort
  /\ InterruptPlaces /\ PanicPlaces
  /\ NoStrayInterrupt /\ AnswersExplained

LEMMA InterruptInvInit == ThreadInit => InterruptInv
  BY ThreadAssumption
  DEF ThreadInit, InterruptInv, HandleOwned, FireSeen, InterruptPlaces,
      PanicPlaces, NoStrayInterrupt, AnswersExplained, Reasons

LEMMA InterruptInvStep ==
  TypeInv /\ InterruptInv /\ [ThreadNext]_threadVars => InterruptInv'
<1> SUFFICES ASSUME TypeInv, InterruptInv, [ThreadNext]_threadVars
             PROVE  InterruptInv'
  OBVIOUS
<1> USE ThreadAssumption
<1> USE DEF TypeInv, ThreadTypeOK, loopVars, chanVars, tokenVars, abortVars,
        connVars, Places, Outcomes, Answers, Reasons, JobPlaces,
        InterruptInv, HandleOwned, FireSeen, InterruptPlaces, PanicPlaces,
        NoStrayInterrupt, AnswersExplained
<1>1. ASSUME NEW r \in {"Ok", "Sqlite", "Closed"}, Open(r)
      PROVE  InterruptInv'
  BY <1>1 DEF Open
<1>2. CASE Recv
  BY <1>2 DEF Recv
<1>3. CASE RecvDisconnected
  BY <1>3 DEF RecvDisconnected
<1>4. CASE CheckAbort
  BY <1>4 DEF CheckAbort
<1>5. CASE CheckToken
  BY <1>5 DEF CheckToken
<1>6. CASE AttachHandle
  BY <1>6 DEF AttachHandle
<1>7. CASE AttachCheck
  BY <1>7 DEF AttachCheck, Interrupt
<1>8. CASE Detach
  BY <1>8 DEF Detach
<1>9. CASE Respond
  BY <1>9 DEF Respond, Answer, Normalized
<1>10. CASE HealthStart
  BY <1>10 DEF HealthStart
<1>11. CASE HealthDone
  BY <1>11 DEF HealthDone
<1>12. CASE Exit
  BY <1>12 DEF Exit
<1>13. CASE StmtStep
  BY <1>13 DEF StmtStep, StmtFrame
<1>14. CASE StmtRow
  BY <1>14 DEF StmtRow, StmtFrame
<1>15. CASE StmtDone
  BY <1>15 DEF StmtDone, StmtFrame
<1>16. CASE StmtInterrupted
  BY <1>16 DEF StmtInterrupted, StmtFrame
<1>17. ASSUME NEW r \in Outcomes, Return(r)
      PROVE  InterruptInv'
  BY <1>17 DEF Return
<1>18. ASSUME NEW j \in Jobs, Submit(j)
      PROVE  InterruptInv'
  BY <1>18 DEF Submit
<1>19. CASE SendShutdown
  BY <1>19 DEF SendShutdown
<1>20. CASE DropSenders
  BY <1>20 DEF DropSenders
<1>21. ASSUME NEW f \in Firers, NEW j \in Jobs, NEW r \in Reasons, Fire(f, j, r)
      PROVE  InterruptInv'
  BY <1>21 DEF Fire
<1>22. ASSUME NEW f \in Firers, FireInterrupt(f)
      PROVE  InterruptInv'
  BY <1>22 DEF FireInterrupt, Interrupt
<1>23. CASE StoreAbort
  BY <1>23 DEF StoreAbort
<1>24. CASE AbortInterrupt
  BY <1>24 DEF AbortInterrupt, Interrupt
<1>25. CASE UNCHANGED threadVars
  BY <1>25 DEF threadVars
<1> HIDE DEF TypeInv, InterruptInv
<1>q. QED
  BY <1>1, <1>2, <1>3, <1>4, <1>5, <1>6, <1>7, <1>8, <1>9, <1>10, <1>11,
     <1>12, <1>13, <1>14, <1>15, <1>16, <1>17, <1>18, <1>19, <1>20, <1>21,
     <1>22, <1>23, <1>24, <1>25
  DEF ThreadNext, LoopStep, ClosureStep, StmtEnd, ClosureReturn, EnvStep

LEMMA InterruptInvariant == ThreadSpec => [](TypeInv /\ InterruptInv)
<1>1. ThreadInit => TypeInv /\ InterruptInv
  BY TypeInvInit, InterruptInvInit
<1>2. TypeInv /\ InterruptInv /\ [ThreadNext]_threadVars
      => (TypeInv /\ InterruptInv)'
  BY TypeInvStep, InterruptInvStep
<1>q. QED
  BY <1>1, <1>2, PTL DEF ThreadSpec

\* A fire on a token whose job is over, before, or beside the running one
\* interrupts nothing: what is interrupted asked for it, or the isle aborts.
THEOREM InterruptsAreOwn == ThreadSpec => []NoStrayInterrupt
<1>1. TypeInv /\ InterruptInv => NoStrayInterrupt
  BY DEF InterruptInv
<1>q. QED
  BY <1>1, InterruptInvariant, PTL

\* normalize_error leaves no interrupt unexplained in any answer.
THEOREM AnswersAreExplained == ThreadSpec => []AnswersExplained
<1>1. TypeInv /\ InterruptInv => AnswersExplained
  BY DEF InterruptInv
<1>q. QED
  BY <1>1, InterruptInvariant, PTL

\* The gate of run_loop: a connection that a panic left broken enters no job.
THEOREM HealthGateHolds == ThreadSpec => HealthGate
<1>1. TypeInv /\ InterruptInv /\ [ThreadNext]_threadVars
      => [poisoned => ran' = ran]_threadVars
  <2> SUFFICES ASSUME InterruptInv, ThreadNext, poisoned
               PROVE  ran' = ran
    OBVIOUS
  <2>1. pc # "attached"
    BY DEF InterruptInv, PanicPlaces
  <2>q. QED
    BY <2>1
    DEF ThreadNext, LoopStep, ClosureStep, StmtEnd, ClosureReturn, EnvStep,
        Open, Recv, RecvDisconnected, CheckAbort, CheckToken, AttachHandle,
        AttachCheck, Detach, Respond, HealthStart, HealthDone, Exit, StmtStep,
        StmtRow, StmtDone, StmtInterrupted, StmtFrame, Return, Submit, Fire,
        SendShutdown, DropSenders, FireInterrupt, StoreAbort, AbortInterrupt
<1>q. QED
  BY <1>1, InterruptInvariant, PTL DEF ThreadSpec, HealthGate

-----------------------------------------------------------------------------
(* The queue and the answers.                                              *)

\* A queued job waits there once, unanswered and not entered.
QueuedOnce ==
  /\ \A j \in Jobs :
       Queued(j) => j # cur /\ result[j] = "none" /\ j \notin ran
  /\ \A i, k \in 1 .. Len(chan) :
       chan[i] = chan[k] /\ chan[i] # Shutdown => i = k

\* The job in hand is unanswered, and was entered only if it is past attach.
HandJob ==
  cur # NoJob => /\ result[cur] = "none"
                 /\ cur \in ran => pc \in {"run", "returned", "respond"}

\* An entered job is in hand or has an answer of its own.
RanAnswered ==
  \A j \in ran : j = cur \/ result[j] \notin {"none", "Dropped"}

QueueInv == QueuedOnce /\ HandJob /\ RanAnswered

LEMMA QueueInvInit == ThreadInit => QueueInv
  BY DEF ThreadInit, QueueInv, QueuedOnce, HandJob, RanAnswered, Queued

LEMMA QueueInvStep ==
  TypeInv /\ QueueInv /\ [ThreadNext]_threadVars => QueueInv'
<1> SUFFICES ASSUME TypeInv, QueueInv, [ThreadNext]_threadVars
             PROVE  QueueInv'
  OBVIOUS
<1> USE ThreadAssumption
<1> USE DEF TypeInv, ThreadTypeOK, loopVars, chanVars, tokenVars, abortVars,
        connVars, Outcomes, Answers, Reasons, JobPlaces, QueueInv, QueuedOnce,
        HandJob, RanAnswered, Queued
<1>1. ASSUME NEW r \in {"Ok", "Sqlite", "Closed"}, Open(r)
      PROVE  QueueInv'
  BY <1>1 DEF Open
<1>2. CASE Recv
  BY <1>2 DEF Recv
<1>3. CASE RecvDisconnected
  BY <1>3 DEF RecvDisconnected
<1>4. CASE CheckAbort
  BY <1>4 DEF CheckAbort
<1>5. CASE CheckToken
  BY <1>5 DEF CheckToken
<1>6. CASE AttachHandle
  BY <1>6 DEF AttachHandle
<1>7. CASE AttachCheck
  BY <1>7 DEF AttachCheck, Interrupt
<1>8. CASE Detach
  BY <1>8 DEF Detach
<1>9. CASE Respond
  BY <1>9 DEF Respond, Answer, Normalized
<1>10. CASE HealthStart
  BY <1>10 DEF HealthStart
<1>11. CASE HealthDone
  BY <1>11 DEF HealthDone
<1>12. CASE Exit
  BY <1>12 DEF Exit
<1>13. CASE StmtStep
  BY <1>13 DEF StmtStep, StmtFrame
<1>14. CASE StmtRow
  BY <1>14 DEF StmtRow, StmtFrame
<1>15. CASE StmtDone
  BY <1>15 DEF StmtDone, StmtFrame
<1>16. CASE StmtInterrupted
  BY <1>16 DEF StmtInterrupted, StmtFrame
<1>17. ASSUME NEW r \in Outcomes, Return(r)
      PROVE  QueueInv'
  BY <1>17 DEF Return
<1>18. ASSUME NEW j \in Jobs, Submit(j)
      PROVE  QueueInv'
  <2>1. ~Queued(j) /\ cur # j /\ result[j] = "none"
    BY <1>18 DEF Submit, Fresh
  <2>2. j \notin ran
    BY <2>1
  <2>3. /\ Len(chan') = Len(chan) + 1
        /\ \A i \in 1 .. Len(chan) : chan'[i] = chan[i]
        /\ chan'[Len(chan) + 1] = j
    BY <1>18 DEF Submit
  <2>4. /\ cur' = cur /\ pc' = pc /\ result' = result /\ ran' = ran
    BY <1>18 DEF Submit
  <2>5. \A k \in Jobs : Queued(k)' => Queued(k) \/ k = j
    BY <2>3
  <2>6. QueuedOnce'
    <3>1. \A k \in Jobs :
            Queued(k)' => k # cur' /\ result'[k] = "none" /\ k \notin ran'
      BY <2>1, <2>2, <2>4, <2>5
    <3>2. \A i, k \in 1 .. Len(chan') :
            chan'[i] = chan'[k] /\ chan'[i] # Shutdown => i = k
      BY <2>1, <2>3
    <3>q. QED
      BY <3>1, <3>2
  <2>q. QED
    BY <2>4, <2>6
<1>19. CASE SendShutdown
  BY <1>19 DEF SendShutdown
<1>20. CASE DropSenders
  BY <1>20 DEF DropSenders
<1>21. ASSUME NEW f \in Firers, NEW j \in Jobs, NEW r \in Reasons, Fire(f, j, r)
      PROVE  QueueInv'
  BY <1>21 DEF Fire
<1>22. ASSUME NEW f \in Firers, FireInterrupt(f)
      PROVE  QueueInv'
  BY <1>22 DEF FireInterrupt, Interrupt
<1>23. CASE StoreAbort
  BY <1>23 DEF StoreAbort
<1>24. CASE AbortInterrupt
  BY <1>24 DEF AbortInterrupt, Interrupt
<1>25. CASE UNCHANGED threadVars
  BY <1>25 DEF threadVars
<1> HIDE DEF TypeInv, QueueInv
<1>q. QED
  BY <1>1, <1>2, <1>3, <1>4, <1>5, <1>6, <1>7, <1>8, <1>9, <1>10, <1>11,
     <1>12, <1>13, <1>14, <1>15, <1>16, <1>17, <1>18, <1>19, <1>20, <1>21,
     <1>22, <1>23, <1>24, <1>25
  DEF ThreadNext, LoopStep, ClosureStep, StmtEnd, ClosureReturn, EnvStep

LEMMA QueueInvariant == ThreadSpec => [](TypeInv /\ QueueInv)
<1>1. ThreadInit => TypeInv /\ QueueInv
  BY TypeInvInit, QueueInvInit
<1>2. TypeInv /\ QueueInv /\ [ThreadNext]_threadVars => (TypeInv /\ QueueInv)'
  BY TypeInvStep, QueueInvStep
<1>q. QED
  BY <1>1, <1>2, PTL DEF ThreadSpec

\* A caller who sees Closed because its job was dropped (by abort, by the end
\* of the thread) may submit it elsewhere: no part of it has run.
THEOREM DroppedJobsNeverRan == ThreadSpec => []DroppedNeverRan
<1>1. TypeInv /\ QueueInv => DroppedNeverRan
  BY ThreadAssumption
  DEF QueueInv, RanAnswered, HandJob, DroppedNeverRan, TypeInv, ThreadTypeOK
<1>q. QED
  BY <1>1, QueueInvariant, PTL

\* What a closure's end is reported as, Cancelled and Timeout apart: those are
\* also what a job passed over in the queue is answered with.
Reports == {"Ok", "Sqlite", "Closed", "Panicked"}

\* A job whose answer reports how its closure ended was entered.
ReportedRan == \A j \in Jobs : result[j] \in Reports => j \in ran

\* With the job in hand past attach, it has been entered.
ReportInv ==
  /\ pc \in {"run", "returned", "respond"} => cur \in ran
  /\ ReportedRan

LEMMA ReportInvStep ==
  TypeInv /\ ReportInv /\ [ThreadNext]_threadVars => ReportInv'
<1> SUFFICES ASSUME TypeInv, ReportInv, [ThreadNext]_threadVars
             PROVE  ReportInv'
  OBVIOUS
<1> USE ThreadAssumption DEF ReportInv, ReportedRan, Reports
<1>t. cur \in Jobs \cup {NoJob} /\ result \in [Jobs -> Answers \cup {"none"}]
      /\ state \in [Jobs -> Reasons \cup {"none"}]
  BY DEF TypeInv, ThreadTypeOK
<1>1. CASE CheckAbort \/ CheckToken
  <2>1. /\ ran' = ran /\ pc' \notin {"run", "returned", "respond"}
        /\ \/ result' = result
           \/ \E a : a \notin Reports /\ result' = [result EXCEPT ![cur] = a]
    BY <1>1, <1>t DEF CheckAbort, CheckToken, Reasons, TypeInv, JobPlaces
  <2>q. QED
    BY <2>1, <1>t
<1>2. CASE Respond
  BY <1>2, <1>t DEF Respond
<1>3. CASE Exit
  BY <1>3 DEF Exit
<1>4. CASE AttachCheck
  BY <1>4 DEF AttachCheck
<1>5. CASE /\ UNCHANGED <<cur, result, ran>>
           /\ pc' \in {"run", "returned", "respond"}
                => pc \in {"run", "returned", "respond"}
  BY <1>5
<1>6. CASE pc' \in {"job", "closing"} /\ UNCHANGED <<result, ran>>
  BY <1>6
<1>7. \/ CheckAbort \/ CheckToken \/ Respond \/ Exit \/ AttachCheck
      \/ /\ UNCHANGED <<cur, result, ran>>
         /\ pc' \in {"run", "returned", "respond"}
              => pc \in {"run", "returned", "respond"}
      \/ pc' \in {"job", "closing"} /\ UNCHANGED <<result, ran>>
  BY DEF ThreadNext, EnvStep, LoopStep, ClosureStep, StmtEnd, ClosureReturn,
         Open, Recv, RecvDisconnected, AttachHandle, Detach,
         HealthStart, HealthDone, StmtStep, StmtRow, StmtDone,
         StmtInterrupted, StmtFrame, Return, Fire, DropSenders, Submit,
         SendShutdown, FireInterrupt, StoreAbort, AbortInterrupt, threadVars,
         loopVars
<1> HIDE DEF ReportInv
<1>q. QED
  BY <1>1, <1>2, <1>3, <1>4, <1>5, <1>6, <1>7

\* make_job answers Ok, an error or a panic from the closure's own end, and
\* nothing else answers in its place.
THEOREM ReportsAreOfClosures == ThreadSpec => []ReportedRan
<1>1. ThreadInit => ReportInv
  BY DEF ThreadInit, ReportInv, ReportedRan, Reports
<1>2. TypeInv /\ ReportInv /\ [ThreadNext]_threadVars => ReportInv'
  BY ReportInvStep
<1>3. ReportInv => ReportedRan
  BY DEF ReportInv
<1>q. QED
  BY <1>1, <1>2, <1>3, QueueInvariant, PTL DEF ThreadSpec

-----------------------------------------------------------------------------
(* Jobs that will not be entered any more.                                 *)

\* A fired job between the queue and its queued-stage check, or answered.
DoomedByToken(j) ==
  /\ j \notin ran /\ state[j] # "none"
  /\ \/ Queued(j)
     \/ cur = j /\ pc \in {"job", "token"}
     \/ cur # j /\ result[j] # "none"

\* A job in the queue, or in front of the abort check, of an aborting isle.
DoomedByAbort(j) ==
  /\ j \notin ran /\ abort
  /\ \/ Queued(j)
     \/ cur = j /\ pc = "job"
     \/ cur # j /\ result[j] # "none"

LEMMA DoomedByTokenStep ==
  ASSUME NEW k \in Jobs
  PROVE  TypeInv /\ QueueInv /\ DoomedByToken(k) /\ [ThreadNext]_threadVars
         => DoomedByToken(k)'
<1> SUFFICES ASSUME TypeInv, QueueInv, DoomedByToken(k), [ThreadNext]_threadVars
             PROVE  DoomedByToken(k)'
  OBVIOUS
<1> USE ThreadAssumption
<1> USE DEF TypeInv, ThreadTypeOK, loopVars, chanVars, tokenVars, abortVars,
        connVars, Outcomes, Answers, Reasons, JobPlaces, QueueInv, QueuedOnce,
        HandJob, Queued, DoomedByToken
<1>1. ASSUME NEW r \in {"Ok", "Sqlite", "Closed"}, Open(r)
      PROVE  DoomedByToken(k)'
  BY <1>1 DEF Open
<1>2. CASE Recv
  <2>1. \A i \in 2 .. Len(chan) :
          i - 1 \in 1 .. Len(chan') /\ chan'[i - 1] = chan[i]
    BY <1>2 DEF Recv
  <2>2. CASE Queued(k) /\ Head(chan) = k
    BY <1>2, <2>2 DEF Recv
  <2>3. CASE Queued(k) /\ Head(chan) # k
    <3>1. PICK i \in 2 .. Len(chan) : chan[i] = k
      BY <1>2, <2>3 DEF Recv
    <3>2. Queued(k)'
      BY <2>1, <3>1
    <3>q. QED
      BY <1>2, <3>2 DEF Recv
  <2>4. CASE ~Queued(k)
    BY <1>2, <2>4 DEF Recv
  <2>q. QED
    BY <2>2, <2>3, <2>4
<1>3. CASE RecvDisconnected
  BY <1>3 DEF RecvDisconnected
<1>4. CASE CheckAbort
  BY <1>4 DEF CheckAbort
<1>5. CASE CheckToken
  BY <1>5 DEF CheckToken
<1>6. CASE AttachHandle
  BY <1>6 DEF AttachHandle
<1>7. CASE AttachCheck
  BY <1>7 DEF AttachCheck, Interrupt
<1>8. CASE Detach
  BY <1>8 DEF Detach
<1>9. CASE Respond
  BY <1>9 DEF Respond, Answer, Normalized
<1>10. CASE HealthStart
  BY <1>10 DEF HealthStart
<1>11. CASE HealthDone
  BY <1>11 DEF HealthDone
<1>12. CASE Exit
  BY <1>12 DEF Exit
<1>13. CASE StmtStep
  BY <1>13 DEF StmtStep, StmtFrame
<1>14. CASE StmtRow
  BY <1>14 DEF StmtRow, StmtFrame
<1>15. CASE StmtDone
  BY <1>15 DEF StmtDone, StmtFrame
<1>16. CASE StmtInterrupted
  BY <1>16 DEF StmtInterrupted, StmtFrame
<1>17. ASSUME NEW r \in Outcomes, Return(r)
      PROVE  DoomedByToken(k)'
  BY <1>17 DEF Return
<1>18. ASSUME NEW j \in Jobs, Submit(j)
      PROVE  DoomedByToken(k)'
  BY <1>18 DEF Submit
<1>19. CASE SendShutdown
  BY <1>19 DEF SendShutdown
<1>20. CASE DropSenders
  BY <1>20 DEF DropSenders
<1>21. ASSUME NEW f \in Firers, NEW j \in Jobs, NEW r \in Reasons, Fire(f, j, r)
      PROVE  DoomedByToken(k)'
  BY <1>21 DEF Fire
<1>22. ASSUME NEW f \in Firers, FireInterrupt(f)
      PROVE  DoomedByToken(k)'
  BY <1>22 DEF FireInterrupt, Interrupt
<1>23. CASE StoreAbort
  BY <1>23 DEF StoreAbort
<1>24. CASE AbortInterrupt
  BY <1>24 DEF AbortInterrupt, Interrupt
<1>25. CASE UNCHANGED threadVars
  BY <1>25 DEF threadVars
<1> HIDE DEF TypeInv, QueueInv, DoomedByToken
<1>q. QED
  BY <1>1, <1>2, <1>3, <1>4, <1>5, <1>6, <1>7, <1>8, <1>9, <1>10, <1>11,
     <1>12, <1>13, <1>14, <1>15, <1>16, <1>17, <1>18, <1>19, <1>20, <1>21,
     <1>22, <1>23, <1>24, <1>25
  DEF ThreadNext, LoopStep, ClosureStep, StmtEnd, ClosureReturn, EnvStep

LEMMA DoomedByAbortStep ==
  ASSUME NEW k \in Jobs
  PROVE  TypeInv /\ QueueInv /\ DoomedByAbort(k) /\ [ThreadNext]_threadVars
         => DoomedByAbort(k)'
<1> SUFFICES ASSUME TypeInv, QueueInv, DoomedByAbort(k), [ThreadNext]_threadVars
             PROVE  DoomedByAbort(k)'
  OBVIOUS
<1> USE ThreadAssumption
<1> USE DEF TypeInv, ThreadTypeOK, loopVars, chanVars, tokenVars, abortVars,
        connVars, Outcomes, Answers, Reasons, JobPlaces, QueueInv, QueuedOnce,
        HandJob, Queued, DoomedByAbort
<1>1. ASSUME NEW r \in {"Ok", "Sqlite", "Closed"}, Open(r)
      PROVE  DoomedByAbort(k)'
  BY <1>1 DEF Open
<1>2. CASE Recv
  <2>1. \A i \in 2 .. Len(chan) :
          i - 1 \in 1 .. Len(chan') /\ chan'[i - 1] = chan[i]
    BY <1>2 DEF Recv
  <2>2. CASE Queued(k) /\ Head(chan) = k
    BY <1>2, <2>2 DEF Recv
  <2>3. CASE Queued(k) /\ Head(chan) # k
    <3>1. PICK i \in 2 .. Len(chan) : chan[i] = k
      BY <1>2, <2>3 DEF Recv
    <3>2. Queued(k)'
      BY <2>1, <3>1
    <3>q. QED
      BY <1>2, <3>2 DEF Recv
  <2>4. CASE ~Queued(k)
    BY <1>2, <2>4 DEF Recv
  <2>q. QED
    BY <2>2, <2>3, <2>4
<1>3. CASE RecvDisconnected
  BY <1>3 DEF RecvDisconnected
<1>4. CASE CheckAbort
  BY <1>4 DEF CheckAbort
<1>5. CASE CheckToken
  BY <1>5 DEF CheckToken
<1>6. CASE AttachHandle
  BY <1>6 DEF AttachHandle
<1>7. CASE AttachCheck
  BY <1>7 DEF AttachCheck, Interrupt
<1>8. CASE Detach
  BY <1>8 DEF Detach
<1>9. CASE Respond
  BY <1>9 DEF Respond, Answer, Normalized
<1>10. CASE HealthStart
  BY <1>10 DEF HealthStart
<1>11. CASE HealthDone
  BY <1>11 DEF HealthDone
<1>12. CASE Exit
  BY <1>12 DEF Exit
<1>13. CASE StmtStep
  BY <1>13 DEF StmtStep, StmtFrame
<1>14. CASE StmtRow
  BY <1>14 DEF StmtRow, StmtFrame
<1>15. CASE StmtDone
  BY <1>15 DEF StmtDone, StmtFrame
<1>16. CASE StmtInterrupted
  BY <1>16 DEF StmtInterrupted, StmtFrame
<1>17. ASSUME NEW r \in Outcomes, Return(r)
      PROVE  DoomedByAbort(k)'
  BY <1>17 DEF Return
<1>18. ASSUME NEW j \in Jobs, Submit(j)
      PROVE  DoomedByAbort(k)'
  BY <1>18 DEF Submit
<1>19. CASE SendShutdown
  BY <1>19 DEF SendShutdown
<1>20. CASE DropSenders
  BY <1>20 DEF DropSenders
<1>21. ASSUME NEW f \in Firers, NEW j \in Jobs, NEW r \in Reasons, Fire(f, j, r)
      PROVE  DoomedByAbort(k)'
  BY <1>21 DEF Fire
<1>22. ASSUME NEW f \in Firers, FireInterrupt(f)
      PROVE  DoomedByAbort(k)'
  BY <1>22 DEF FireInterrupt, Interrupt
<1>23. CASE StoreAbort
  BY <1>23 DEF StoreAbort
<1>24. CASE AbortInterrupt
  BY <1>24 DEF AbortInterrupt, Interrupt
<1>25. CASE UNCHANGED threadVars
  BY <1>25 DEF threadVars
<1> HIDE DEF TypeInv, QueueInv, DoomedByAbort
<1>q. QED
  BY <1>1, <1>2, <1>3, <1>4, <1>5, <1>6, <1>7, <1>8, <1>9, <1>10, <1>11,
     <1>12, <1>13, <1>14, <1>15, <1>16, <1>17, <1>18, <1>19, <1>20, <1>21,
     <1>22, <1>23, <1>24, <1>25
  DEF ThreadNext, LoopStep, ClosureStep, StmtEnd, ClosureReturn, EnvStep

\* token.rs: a queued job whose token fires is dropped before execution.
THEOREM QueuedCancelIsFinal == ThreadSpec => QueuedCancelNeverRuns
<1> SUFFICES ASSUME NEW j \in Jobs
             PROVE  ThreadSpec
                    => [](Queued(j) /\ state[j] # "none" => [](j \notin ran))
  BY DEF QueuedCancelNeverRuns
<1>1. TypeInv /\ QueueInv /\ Queued(j) /\ state[j] # "none" => DoomedByToken(j)
  BY DEF QueueInv, QueuedOnce, DoomedByToken
<1>2. TypeInv /\ QueueInv /\ DoomedByToken(j) /\ [ThreadNext]_threadVars
      => DoomedByToken(j)'
  BY DoomedByTokenStep
<1>3. DoomedByToken(j) => j \notin ran
  BY DEF DoomedByToken
<1>q. QED
  BY <1>1, <1>2, <1>3, QueueInvariant, PTL DEF ThreadSpec

\* run_loop: while abort is set, remaining jobs are dropped without execution.
THEOREM AbortIsFinal == ThreadSpec => AbortDropsQueued
<1> SUFFICES ASSUME NEW j \in Jobs
             PROVE  ThreadSpec
                    => [](Queued(j) /\ abort => [](j \notin ran))
  BY DEF AbortDropsQueued
<1>1. TypeInv /\ QueueInv /\ Queued(j) /\ abort => DoomedByAbort(j)
  BY DEF QueueInv, QueuedOnce, DoomedByAbort
<1>2. TypeInv /\ QueueInv /\ DoomedByAbort(j) /\ [ThreadNext]_threadVars
      => DoomedByAbort(j)'
  BY DoomedByAbortStep
<1>3. DoomedByAbort(j) => j \notin ran
  BY DEF DoomedByAbort
<1>q. QED
  BY <1>1, <1>2, <1>3, QueueInvariant, PTL DEF ThreadSpec

-----------------------------------------------------------------------------
(* Once only, and in order.                                                *)

\* Who touches the queue, the job in hand or an answer.
LEMMA JobMoves ==
  ASSUME [ThreadNext]_threadVars
  PROVE  \/ Recv \/ CheckAbort \/ CheckToken \/ Respond \/ Exit
         \/ \E k \in Jobs : Submit(k)
         \/ SendShutdown
         \/ UNCHANGED <<chan, cur, result>>
  BY DEF ThreadNext, EnvStep, LoopStep, ClosureStep, StmtEnd, ClosureReturn,
         Open, RecvDisconnected, AttachHandle, AttachCheck, Detach,
         HealthStart, HealthDone, StmtStep, StmtRow, StmtDone,
         StmtInterrupted, StmtFrame, Return, Fire, DropSenders,
         FireInterrupt, StoreAbort, AbortInterrupt, threadVars, loopVars,
         chanVars

\* No answer is taken back or given twice: not by a panic after it, nor by the
\* thread's end, which drops the jobs it still holds.
AnsweredOnce ==
  [][\A j \in Jobs : result[j] # "none" => result'[j] = result[j]]_threadVars

\* Response channels are sent to once (make_job), or dropped unsent.
THEOREM AnswersAreFinal == ThreadSpec => AnsweredOnce
<1>1. TypeInv /\ QueueInv /\ [ThreadNext]_threadVars
      => [\A j \in Jobs : result[j] # "none" => result'[j] = result[j]]_threadVars
  <2> SUFFICES ASSUME TypeInv, QueueInv, [ThreadNext]_threadVars,
                      NEW j \in Jobs, result[j] # "none"
               PROVE  result'[j] = result[j]
    OBVIOUS
  <2>1. cur # j /\ ~Queued(j)
    BY ThreadAssumption DEF QueueInv, HandJob, QueuedOnce
  <2>2. CASE CheckAbort \/ CheckToken \/ Respond
    <3>1. \/ UNCHANGED result
          \/ \E a : result' = [result EXCEPT ![cur] = a]
      BY <2>2 DEF CheckAbort, CheckToken, Respond
    <3>q. QED
      BY <2>1, <3>1 DEF TypeInv, ThreadTypeOK
  <2>3. CASE Exit
    BY <2>1, <2>3 DEF Exit
  <2>4. CASE UNCHANGED result
    BY <2>4
  <2>5. CheckAbort \/ CheckToken \/ Respond \/ Exit \/ UNCHANGED result
    BY JobMoves DEF Recv, Submit, SendShutdown
  <2>q. QED
    BY <2>2, <2>3, <2>4, <2>5
<1>q. QED
  BY <1>1, QueueInvariant, PTL DEF ThreadSpec, AnsweredOnce

\* The closure is an FnOnce: it is entered for a job that was never entered,
\* and that nobody has answered.
EnteredOnce ==
  [][pc # "run" /\ pc' = "run" => /\ cur \in Jobs \ ran
                                  /\ result[cur] = "none"]_threadVars

\* make_job calls a closure at most once, and before any answer to it.
THEOREM ClosuresEnterOnce == ThreadSpec => EnteredOnce
<1>1. TypeInv /\ QueueInv /\ [ThreadNext]_threadVars
      => [pc # "run" /\ pc' = "run" => /\ cur \in Jobs \ ran
                                       /\ result[cur] = "none"]_threadVars
  <2> SUFFICES ASSUME TypeInv, QueueInv, [ThreadNext]_threadVars,
                      pc # "run", pc' = "run"
               PROVE  cur \in Jobs \ ran /\ result[cur] = "none"
    OBVIOUS
  <2>1. pc = "attached"
    BY DEF ThreadNext, LoopStep, ClosureStep, StmtEnd, ClosureReturn, EnvStep,
       Open, Recv, RecvDisconnected, CheckAbort, CheckToken, AttachHandle,
       AttachCheck, Detach, Respond, HealthStart, HealthDone, Exit, StmtStep,
       StmtRow, StmtDone, StmtInterrupted, StmtFrame, Return, Submit, Fire,
       SendShutdown, DropSenders, FireInterrupt, StoreAbort, AbortInterrupt,
       threadVars, loopVars
  <2>q. QED
    BY <2>1 DEF TypeInv, ThreadTypeOK, JobPlaces, QueueInv, HandJob
<1>q. QED
  BY <1>1, QueueInvariant, PTL DEF ThreadSpec, EnteredOnce

Ahead(x, y) ==
  \E i, m \in 1 .. Len(chan) : i < m /\ chan[i] = x /\ chan[m] = y

\* A job queued ahead of another is answered before the thread so much as
\* takes the other, however both end.
FirstComeFirstServed ==
  \A j, k \in Jobs :
    [](Ahead(j, k) => [](cur = k \/ result[k] # "none" => result[j] # "none"))

\* From the queue to its answer the earlier job keeps the other one waiting.
Precedes(j, k) ==
  Ahead(j, k) \/ (cur = j /\ Queued(k)) \/ result[j] # "none"

\* Appending to the channel, or taking its head, keeps the order of the rest.
LEMMA AheadInAppend ==
  ASSUME NEW S, chan \in Seq(S), NEW z \in S, chan' = Append(chan, z),
         NEW x, NEW y
  PROVE  (Queued(x) => Queued(x)') /\ (Ahead(x, y) => Ahead(x, y)')
<1>1. /\ 1 .. Len(chan) \subseteq 1 .. Len(chan')
      /\ \A i \in 1 .. Len(chan) : chan'[i] = chan[i]
  OBVIOUS
<1>q. QED
  BY <1>1 DEF Queued, Ahead

LEMMA AheadInTail ==
  ASSUME NEW S, chan \in Seq(S), chan # <<>>, chan' = Tail(chan),
         NEW x, NEW y
  PROVE  Ahead(x, y) => Ahead(x, y)' \/ (Head(chan) = x /\ Queued(y)')
<1> SUFFICES ASSUME NEW i \in 1 .. Len(chan), NEW m \in 1 .. Len(chan), i < m,
                    chan[i] = x, chan[m] = y
             PROVE  Ahead(x, y)' \/ (Head(chan) = x /\ Queued(y)')
  BY DEF Ahead
<1>1. m - 1 \in 1 .. Len(chan') /\ chan'[m - 1] = y
  OBVIOUS
<1>2. CASE i = 1
  <2>1. Queued(y)'
    BY <1>1 DEF Queued
  <2>2. Head(chan) = x
    BY <1>2
  <2>q. QED
    BY <2>1, <2>2
<1>3. CASE i # 1
  <2>1. i - 1 \in 1 .. Len(chan') /\ chan'[i - 1] = x /\ i - 1 < m - 1
    BY <1>3
  <2>q. QED
    BY <1>1, <2>1 DEF Ahead
<1>q. QED
  BY <1>2, <1>3

LEMMA PrecedesStep ==
  ASSUME NEW j \in Jobs, NEW k \in Jobs
  PROVE  TypeInv /\ QueueInv /\ Precedes(j, k) /\ [ThreadNext]_threadVars
         => Precedes(j, k)'
<1> SUFFICES ASSUME TypeInv, QueueInv, Precedes(j, k), [ThreadNext]_threadVars
             PROVE  Precedes(j, k)'
  OBVIOUS
<1> USE ThreadAssumption DEF Precedes
<1>1. chan \in Seq(Jobs \cup {Shutdown})
  BY DEF TypeInv, ThreadTypeOK
<1>2. Ahead(j, k) => Queued(j) /\ Queued(k)
  BY DEF Ahead, Queued
<1>3. CASE Recv
  <2>1. pc = "recv" /\ chan # <<>> /\ chan' = Tail(chan) /\ result' = result
    BY <1>3 DEF Recv
  <2>2. cur = NoJob
    BY <2>1 DEF TypeInv, JobPlaces
  <2>3. CASE Ahead(j, k)
    <3>1. Ahead(j, k)' \/ (Head(chan) = j /\ Queued(k)')
      BY <1>1, <2>1, <2>3, AheadInTail
    <3>2. Head(chan) = j => cur' = j
      BY <1>3 DEF Recv
    <3>q. QED
      BY <3>1, <3>2
  <2>q. QED
    BY <2>1, <2>2, <2>3
<1>4. CASE CheckAbort \/ CheckToken \/ Respond
  <2>1. /\ chan' = chan
        /\ \/ cur' = cur /\ result' = result
           \/ \E a : a # "none" /\ result' = [result EXCEPT ![cur] = a]
    BY <1>4
    DEF CheckAbort, CheckToken, Respond, TypeInv, ThreadTypeOK, Answer,
        Normalized, chanVars, Outcomes
  <2>2. Ahead(j, k)' = Ahead(j, k) /\ Queued(k)' = Queued(k)
    BY <2>1 DEF Ahead, Queued
  <2>q. QED
    BY <2>1, <2>2 DEF TypeInv, ThreadTypeOK
<1>5. CASE Exit
  <2>1. cur = NoJob
    BY <1>5 DEF Exit, TypeInv, JobPlaces
  <2>2. \A x \in Jobs : result'[x] = IF Queued(x) THEN "Dropped" ELSE result[x]
    BY <1>5 DEF Exit
  <2>q. QED
    BY <1>2, <2>1, <2>2
<1>6. ASSUME NEW z \in Jobs \cup {Shutdown}, chan' = Append(chan, z),
             UNCHANGED <<cur, result>>
      PROVE  Precedes(j, k)'
  BY <1>1, <1>6, AheadInAppend
<1>7. CASE UNCHANGED <<chan, cur, result>>
  BY <1>7 DEF Ahead, Queued
<1>8. \/ Recv \/ CheckAbort \/ CheckToken \/ Respond \/ Exit
      \/ \E z \in Jobs \cup {Shutdown} :
           chan' = Append(chan, z) /\ UNCHANGED <<cur, result>>
      \/ UNCHANGED <<chan, cur, result>>
  BY JobMoves DEF Submit, SendShutdown, loopVars
<1> HIDE DEF Precedes
<1>q. QED
  BY <1>3, <1>4, <1>5, <1>6, <1>7, <1>8

\* The channel is first in, first out, and run_loop takes one job at a time.
THEOREM ServedInOrder == ThreadSpec => FirstComeFirstServed
<1> SUFFICES ASSUME NEW j \in Jobs, NEW k \in Jobs
             PROVE  ThreadSpec
                    => [](Ahead(j, k) => [](cur = k \/ result[k] # "none"
                                            => result[j] # "none"))
  BY DEF FirstComeFirstServed
<1>1. Ahead(j, k) => Precedes(j, k)
  BY DEF Precedes
<1>2. TypeInv /\ QueueInv /\ Precedes(j, k) /\ [ThreadNext]_threadVars
      => Precedes(j, k)'
  BY PrecedesStep
<1>3. TypeInv /\ QueueInv /\ Precedes(j, k)
      => (cur = k \/ result[k] # "none" => result[j] # "none")
  <2> SUFFICES ASSUME TypeInv, QueueInv, Ahead(j, k) \/ (cur = j /\ Queued(k))
               PROVE  cur # k /\ result[k] = "none"
    BY DEF Precedes
  <2>1. Queued(k)
    BY DEF Ahead, Queued
  <2>q. QED
    BY <2>1 DEF QueueInv, QueuedOnce
<1>q. QED
  BY <1>1, <1>2, <1>3, QueueInvariant, PTL DEF ThreadSpec

-----------------------------------------------------------------------------
(* Behind a request to stop.                                               *)

\* The job is queued behind the request, or in what is left when the thread
\* has taken it, or dropped already.
Stranded(j) ==
  \/ Ahead(Shutdown, j)
  \/ pc = "closing" /\ Queued(j)
  \/ result[j] = "Dropped"

LEMMA StrandedStays ==
  ASSUME TypeInv, QueueInv, [ThreadNext]_threadVars, NEW j \in Jobs, Stranded(j)
  PROVE  Stranded(j)'
<1> USE ThreadAssumption DEF Stranded
<1>1. chan \in Seq(Jobs \cup {Shutdown})
  BY DEF TypeInv, ThreadTypeOK
<1>2. Ahead(Shutdown, j) => Queued(j)
  BY DEF Ahead, Queued
<1>3. result[j] = "Dropped" => cur # j
  BY DEF QueueInv, HandJob
<1>4. CASE Recv
  <2>1. pc = "recv" /\ chan # <<>> /\ chan' = Tail(chan) /\ result' = result
    BY <1>4 DEF Recv
  <2>2. Ahead(Shutdown, j) => \/ Ahead(Shutdown, j)'
                              \/ Head(chan) = Shutdown /\ Queued(j)'
    BY <1>1, <2>1, AheadInTail
  <2>3. Head(chan) = Shutdown => pc' = "closing"
    BY <1>4 DEF Recv
  <2>q. QED
    BY <2>1, <2>2, <2>3
<1>5. CASE CheckAbort \/ CheckToken \/ Respond
  <2>1. /\ chan' = chan /\ pc # "closing"
        /\ \/ result' = result
           \/ \E a : result' = [result EXCEPT ![cur] = a]
    BY <1>5 DEF CheckAbort, CheckToken, Respond, chanVars
  <2>2. Ahead(Shutdown, j)' = Ahead(Shutdown, j)
    BY <2>1 DEF Ahead
  <2>q. QED
    BY <1>3, <2>1, <2>2 DEF TypeInv, ThreadTypeOK
<1>6. CASE Exit
  <2>1. result'[j] = IF Queued(j) THEN "Dropped" ELSE result[j]
    BY <1>6 DEF Exit
  <2>q. QED
    BY <1>2, <2>1
<1>7. ASSUME NEW z \in Jobs \cup {Shutdown}, chan' = Append(chan, z),
             UNCHANGED <<pc, result>>
      PROVE  Stranded(j)'
  BY <1>1, <1>7, AheadInAppend
<1>8. CASE UNCHANGED <<chan, result>> /\ (pc = "closing" => pc' = "closing")
  BY <1>8 DEF Ahead, Queued
<1>9. \/ Recv \/ CheckAbort \/ CheckToken \/ Respond \/ Exit
      \/ \E z \in Jobs \cup {Shutdown} :
           chan' = Append(chan, z) /\ UNCHANGED <<pc, result>>
      \/ UNCHANGED <<chan, result>> /\ (pc = "closing" => pc' = "closing")
  BY DEF ThreadNext, EnvStep, LoopStep, ClosureStep, StmtEnd, ClosureReturn,
         Open, RecvDisconnected, AttachHandle, AttachCheck, Detach,
         HealthStart, HealthDone, StmtStep, StmtRow, StmtDone,
         StmtInterrupted, StmtFrame, Return, Fire, DropSenders, Submit,
         SendShutdown, FireInterrupt, StoreAbort, AbortInterrupt, threadVars,
         loopVars, chanVars
<1> HIDE DEF Stranded
<1>q. QED
  BY <1>4, <1>5, <1>6, <1>7, <1>8, <1>9

LEMMA StrandedNeverRan ==
  ASSUME TypeInv, QueueInv, NEW j \in Jobs, Stranded(j)
  PROVE  j \notin ran
<1>1. Ahead(Shutdown, j) => Queued(j)
  BY DEF Ahead, Queued
<1>q. QED
  BY <1>1, ThreadAssumption
  DEF Stranded, TypeInv, ThreadTypeOK, QueueInv, QueuedOnce, HandJob,
      RanAnswered

\* A request to stop ends the work: no job that comes behind it is entered,
\* also when more requests, jobs, cancels or an abort follow.
StopEndsWork ==
  \A j \in Jobs : [](Ahead(Shutdown, j) => [](j \notin ran))

\* run_loop returns on Request::Shutdown, and the rest of the queue with it.
THEOREM StopIsFinal == ThreadSpec => StopEndsWork
<1> SUFFICES ASSUME NEW j \in Jobs
             PROVE  ThreadSpec => [](Ahead(Shutdown, j) => [](j \notin ran))
  BY DEF StopEndsWork
<1>1. Ahead(Shutdown, j) => Stranded(j)
  BY DEF Stranded
<1>2. TypeInv /\ QueueInv /\ Stranded(j) /\ [ThreadNext]_threadVars
      => Stranded(j)'
  BY StrandedStays
<1>3. TypeInv /\ QueueInv /\ Stranded(j) => j \notin ran
  BY StrandedNeverRan
<1>q. QED
  BY <1>1, <1>2, <1>3, QueueInvariant, PTL DEF ThreadSpec

-----------------------------------------------------------------------------
(* A cancel that comes while the closure runs.                             *)

\* From attach to detach the token of the job in hand can reach it.
HandleThere == pc \in {"attached", "run", "returned"} => handle[cur]

LEMMA HandleThereStep ==
  TypeInv /\ HandleThere /\ [ThreadNext]_threadVars => HandleThere'
<1> SUFFICES ASSUME TypeInv, HandleThere, [ThreadNext]_threadVars
             PROVE  HandleThere'
  OBVIOUS
<1> USE ThreadAssumption
<1> USE DEF HandleThere
<1>1. CASE AttachHandle
  <2>1. cur \in Jobs /\ handle \in [Jobs -> BOOLEAN]
    BY <1>1 DEF AttachHandle, TypeInv, ThreadTypeOK, JobPlaces
  <2>2. cur' = cur /\ handle' = [handle EXCEPT ![cur] = TRUE]
    BY <1>1 DEF AttachHandle
  <2>q. QED
    BY <2>1, <2>2
<1>2. CASE pc' \notin {"attached", "run", "returned"}
  BY <1>2
<1>3. CASE /\ pc \in {"attached", "run", "returned"}
           /\ UNCHANGED <<cur, handle>>
  BY <1>3
<1>4. \/ AttachHandle
      \/ pc' \notin {"attached", "run", "returned"}
      \/ /\ pc \in {"attached", "run", "returned"}
         /\ UNCHANGED <<cur, handle>>
  BY DEF ThreadNext, LoopStep, ClosureStep, StmtEnd, ClosureReturn, EnvStep,
       Open, Recv, RecvDisconnected, CheckAbort, CheckToken,
       AttachCheck, Detach, Respond, HealthStart, HealthDone, Exit, StmtStep,
       StmtRow, StmtDone, StmtInterrupted, StmtFrame, Return, Submit, Fire,
       SendShutdown, DropSenders, FireInterrupt, StoreAbort, AbortInterrupt,
       threadVars, loopVars, tokenVars
<1>q. QED
  BY <1>1, <1>2, <1>3, <1>4

\* fire() finds the handle under its lock for as long as the closure runs.
THEOREM RunningJobsAreReached == ThreadSpec => CancelReaches
<1>1. ThreadInit => HandleThere
  BY DEF ThreadInit, HandleThere
<1>2. TypeInv /\ HandleThere /\ [ThreadNext]_threadVars => HandleThere'
  BY HandleThereStep
<1>3. TypeInv /\ HandleThere /\ [ThreadNext]_threadVars
      => [\A f \in Firers :
            /\ firing[f] # NoJob /\ firing'[f] = NoJob
            /\ firing[f] = cur /\ pc = "run" /\ stmt # "none"
            => flag']_threadVars
  <2> SUFFICES ASSUME TypeInv, HandleThere, [ThreadNext]_threadVars,
                      NEW f \in Firers, firing[f] # NoJob, firing'[f] = NoJob,
                      firing[f] = cur, pc = "run", stmt # "none"
               PROVE  flag'
    OBVIOUS
  <2>1. FireInterrupt(f)
    <3>1. ASSUME NEW g \in Firers, NEW j \in Jobs, NEW r \in Reasons,
                 Fire(g, j, r)
          PROVE  FALSE
      BY <3>1, ThreadAssumption DEF Fire, TypeInv, ThreadTypeOK
    <3>2. ASSUME NEW g \in Firers, FireInterrupt(g)
          PROVE  g = f
      BY <3>2 DEF FireInterrupt, TypeInv, ThreadTypeOK
    <3>3. \/ UNCHANGED firing
          \/ \E g \in Firers, j \in Jobs, r \in Reasons : Fire(g, j, r)
          \/ \E g \in Firers : FireInterrupt(g)
      BY DEF ThreadNext, LoopStep, ClosureStep, StmtEnd, ClosureReturn, EnvStep,
       Open, Recv, RecvDisconnected, CheckAbort, CheckToken, AttachHandle,
       AttachCheck, Detach, Respond, HealthStart, HealthDone, Exit, StmtStep,
       StmtRow, StmtDone, StmtInterrupted, StmtFrame, Return, Submit,
       SendShutdown, DropSenders, StoreAbort, AbortInterrupt,
       threadVars, tokenVars
    <3>q. QED
      BY <3>1, <3>2, <3>3
  <2>2. handle[firing[f]]
    BY DEF HandleThere
  <2>q. QED
    BY <2>1, <2>2, Zenon DEF FireInterrupt, Interrupt
<1>q. QED
  BY <1>1, <1>2, <1>3, InterruptInvariant, PTL DEF ThreadSpec, CancelReaches
=============================================================================
