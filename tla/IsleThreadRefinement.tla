------------------------ MODULE IsleThreadRefinement ------------------------
(***************************************************************************)
(* The SQLite thread implements JobService, for every set of jobs and of   *)
(* firing threads and every channel capacity: each of its steps is a step  *)
(* of the service under the mapping of IsleThread, or leaves it alone.     *)
(***************************************************************************)
EXTENDS IsleThreadProofs, SequenceTheorems

\* A job in front of a queue, as the mapping puts the undecided one.
LEMMA ConsFacts ==
  ASSUME NEW S, NEW s \in Seq(S), NEW e \in S
  PROVE  /\ <<e>> \o s \in Seq(S)
         /\ <<e>> \o s # <<>>
         /\ Head(<<e>> \o s) = e
         /\ Tail(<<e>> \o s) = s
         /\ Len(<<e>> \o s) = Len(s) + 1
         /\ \A i \in 2 .. Len(s) + 1 : (<<e>> \o s)[i] = s[i - 1]
         /\ (<<e>> \o s)[1] = e
  OBVIOUS

LEMMA ConsAppend ==
  ASSUME NEW S, NEW s \in Seq(S), NEW e \in S, NEW x \in S
  PROVE  Append(<<e>> \o s, x) = <<e>> \o Append(s, x)
  OBVIOUS

LEMMA ConsHeadTail ==
  ASSUME NEW S, NEW s \in Seq(S), s # <<>>
  PROVE  <<Head(s)>> \o Tail(s) = s
  OBVIOUS

\* One step of the service, or none.
ServiceStep == [Service!ServiceNext]_(Service!serviceVars)

\* Nothing of what the service sees changes.
Unseen == UNCHANGED <<Waiting, Running, result, Stage>>

LEMMA UnseenIsStep == Unseen => ServiceStep
  BY DEF Unseen, ServiceStep, Service!serviceVars

LEMMA InitMaps == ThreadInit => Service!ServiceInit
  BY DEF ThreadInit, Service!ServiceInit, Waiting, Running, Stage, Undecided

\* An interrupted closure has a reason in its token, or in the abort.
LEMMA InterruptExplained ==
  TypeInv /\ InterruptInv /\ pc = "respond" => Answer \in Service!Reports
<1> SUFFICES ASSUME TypeInv, InterruptInv, pc = "respond"
             PROVE  Answer \in Service!Reports
  OBVIOUS
<1>1. cur \in Jobs /\ state[cur] \in {"none", "Cancelled", "Timeout"}
  BY ThreadAssumption DEF TypeInv, ThreadTypeOK, JobPlaces, Reasons
<1>2. ret \in {"ok", "error", "interrupt", "panic"}
  BY DEF TypeInv, ThreadTypeOK, Outcomes
<1>3. ret = "interrupt" => abort \/ state[cur] # "none"
  BY DEF InterruptInv, InterruptPlaces, NoStrayInterrupt
<1>q. QED
  BY <1>1, <1>2, <1>3 DEF Answer, Normalized, Service!Reports

LEMMA StepMaps ==
  TypeInv /\ InterruptInv /\ [ThreadNext]_threadVars => ServiceStep
<1> SUFFICES ASSUME TypeInv, InterruptInv, [ThreadNext]_threadVars
             PROVE  ServiceStep
  OBVIOUS
<1> USE ThreadAssumption
<1> USE DEF Waiting, Running, Stage, Undecided, loopVars, chanVars, tokenVars,
        abortVars, connVars
<1>t. /\ chan \in Seq(Jobs \cup {Shutdown})
      /\ cur \in Jobs \cup {NoJob}
      /\ pc \in JobPlaces <=> cur # NoJob
  BY DEF TypeInv, ThreadTypeOK
<1>1. ASSUME NEW r \in {"Ok", "Sqlite", "Closed"}, Open(r)
      PROVE  ServiceStep
  <2>1. CASE r = "Ok"
    <3>1. Unseen
      BY <1>1, <2>1 DEF Open, Unseen
    <3>q. QED
      BY <3>1, UnseenIsStep
  <2>2. CASE r # "Ok"
    <3>1. Service!Stop
      BY <1>1, <2>2, <1>t DEF Open, Service!Stop, JobPlaces
    <3>q. QED
      BY <3>1 DEF ServiceStep, Service!ServiceNext
  <2>q. QED
    BY <2>1, <2>2
<1>2. CASE Recv
  <2>1. CASE Head(chan) = Shutdown
    <3>1. Service!Stop
      BY <1>2, <2>1, <1>t DEF Recv, Service!Stop, JobPlaces
    <3>q. QED
      BY <3>1 DEF ServiceStep, Service!ServiceNext
  <2>2. CASE Head(chan) # Shutdown
    <3>1. Waiting' = Waiting
      BY <1>2, <2>2, <1>t, ConsHeadTail DEF Recv
    <3>2. Unseen
      BY <1>2, <2>2, <3>1, <1>t DEF Recv, Unseen, JobPlaces
    <3>q. QED
      BY <3>2, UnseenIsStep
  <2>q. QED
    BY <2>1, <2>2
<1>3. CASE RecvDisconnected
  <2>1. Service!Stop
    BY <1>3, <1>t DEF RecvDisconnected, Service!Stop, JobPlaces
  <2>q. QED
    BY <2>1 DEF ServiceStep, Service!ServiceNext
<1>4. CASE CheckAbort
  <2>0. cur \in Jobs
    BY <1>4, <1>t DEF CheckAbort, JobPlaces
  <2>1. CASE abort
    <3>1. Service!Refuse(cur, "Dropped")
      BY <1>4, <2>0, <2>1, <1>t, ConsFacts
      DEF CheckAbort, Service!Refuse, Service!NextJob
    <3>q. QED
      BY <2>0, <3>1
      DEF ServiceStep, Service!ServiceNext, Service!Refusals
  <2>2. CASE ~(abort)
    <3>1. Unseen
      BY <1>4, <2>2 DEF CheckAbort, Unseen
    <3>q. QED
      BY <3>1, UnseenIsStep
  <2>q. QED
    BY <2>1, <2>2
<1>5. CASE CheckToken
  <2>0. cur \in Jobs
    BY <1>5, <1>t DEF CheckToken, JobPlaces
  <2>1. CASE state[cur] # "none"
    <3>0. state[cur] \in {"Cancelled", "Timeout"}
      BY <2>1, <2>0 DEF TypeInv, ThreadTypeOK, Reasons
    <3>1. Service!Refuse(cur, state[cur])
      BY <1>5, <2>0, <2>1, <1>t, ConsFacts
      DEF CheckToken, Service!Refuse, Service!NextJob
    <3>q. QED
      BY <2>0, <3>0, <3>1
      DEF ServiceStep, Service!ServiceNext, Service!Refusals
  <2>2. CASE ~(state[cur] # "none")
    <3>1. Unseen
      BY <1>5, <2>2 DEF CheckToken, Unseen
    <3>q. QED
      BY <3>1, UnseenIsStep
  <2>q. QED
    BY <2>1, <2>2
<1>6. CASE AttachHandle
  BY <1>6, UnseenIsStep DEF AttachHandle, Unseen
<1>7. CASE AttachCheck
  <2>1. cur \in Jobs
    BY <1>7, <1>t DEF AttachCheck, JobPlaces
  <2>2. Service!Start(cur)
    BY <1>7, <2>1, <1>t, ConsFacts
    DEF AttachCheck, Service!Start, Service!NextJob
  <2>q. QED
    BY <2>1, <2>2 DEF ServiceStep, Service!ServiceNext
<1>8. CASE Detach
  BY <1>8, UnseenIsStep DEF Detach, Unseen
<1>9. CASE Respond
  <2>1. cur \in Jobs
    BY <1>9, <1>t DEF Respond, JobPlaces
  <2>2. Answer \in Service!Reports
    BY InterruptExplained, <1>9 DEF Respond
  <2>3. Service!Finish(cur, Answer)
    BY <1>9, <2>1, <1>t DEF Respond, Service!Finish
  <2>q. QED
    BY <2>1, <2>2, <2>3 DEF ServiceStep, Service!ServiceNext
<1>10. CASE HealthStart
  BY <1>10, UnseenIsStep DEF HealthStart, Unseen
<1>11. CASE HealthDone
  <2>1. CASE pc' = "recv"
    <3>1. Unseen
      BY <1>11, <2>1 DEF HealthDone, Unseen
    <3>q. QED
      BY <3>1, UnseenIsStep
  <2>2. CASE pc' = "closing"
    <3>1. Service!Stop
      BY <1>11, <2>2, <1>t DEF HealthDone, Service!Stop, JobPlaces
    <3>q. QED
      BY <3>1 DEF ServiceStep, Service!ServiceNext
  <2>q. QED
    BY <1>11, <2>1, <2>2 DEF HealthDone
<1>12. CASE Exit
  <2>1. Service!Discard
    BY <1>12, <1>t DEF Exit, Queued, Service!Discard
  <2>q. QED
    BY <2>1 DEF ServiceStep, Service!ServiceNext
<1>13. CASE StmtStep
  BY <1>13, UnseenIsStep DEF StmtStep, StmtFrame, Unseen
<1>14. CASE StmtRow
  BY <1>14, UnseenIsStep DEF StmtRow, StmtFrame, Unseen
<1>15. CASE StmtDone
  BY <1>15, UnseenIsStep DEF StmtDone, StmtFrame, Unseen
<1>16. CASE StmtInterrupted
  BY <1>16, UnseenIsStep DEF StmtInterrupted, StmtFrame, Unseen
<1>17. ASSUME NEW r \in Outcomes, Return(r)
      PROVE  ServiceStep
  BY <1>17, UnseenIsStep DEF Return, Unseen
<1>18. ASSUME NEW j \in Jobs, Submit(j)
      PROVE  ServiceStep
  <2>1. Waiting' = Append(Waiting, j)
    BY <1>18, <1>t, ConsAppend DEF Submit, JobPlaces
  <2>2. result[j] = "none" /\ Running # j
    BY <1>18 DEF Submit, Fresh
  <2>3. \A i \in 1 .. Len(Waiting) : Waiting[i] # j
    BY <1>18, <1>t, ConsFacts DEF Submit, Fresh, Queued, JobPlaces
  <2>4. Service!Accept(j)
    BY <1>18, <2>1, <2>2, <2>3 DEF Submit, Service!Accept
  <2>q. QED
    BY <2>4 DEF ServiceStep, Service!ServiceNext
<1>19. CASE SendShutdown
  <2>1. Waiting' = Append(Waiting, Shutdown)
    BY <1>19, <1>t, ConsAppend DEF SendShutdown, JobPlaces
  <2>4. Service!Accept(Shutdown)
    BY <1>19, <2>1 DEF SendShutdown, Service!Accept
  <2>q. QED
    BY <2>4 DEF ServiceStep, Service!ServiceNext
<1>20. CASE DropSenders
  BY <1>20, UnseenIsStep DEF DropSenders, Unseen
<1>21. ASSUME NEW f \in Firers, NEW j \in Jobs, NEW r \in Reasons, Fire(f, j, r)
      PROVE  ServiceStep
  BY <1>21, UnseenIsStep DEF Fire, Unseen
<1>22. ASSUME NEW f \in Firers, FireInterrupt(f)
      PROVE  ServiceStep
  BY <1>22, UnseenIsStep DEF FireInterrupt, Unseen
<1>23. CASE StoreAbort
  BY <1>23, UnseenIsStep DEF StoreAbort, Unseen
<1>24. CASE AbortInterrupt
  BY <1>24, UnseenIsStep DEF AbortInterrupt, Unseen
<1>25. CASE UNCHANGED threadVars
  BY <1>25, UnseenIsStep DEF threadVars, Unseen
<1> HIDE DEF TypeInv, ServiceStep
<1>q. QED
  BY <1>1, <1>2, <1>3, <1>4, <1>5, <1>6, <1>7, <1>8, <1>9, <1>10, <1>11,
     <1>12, <1>13, <1>14, <1>15, <1>16, <1>17, <1>18, <1>19, <1>20, <1>21,
     <1>22, <1>23, <1>24, <1>25
  DEF ThreadNext, LoopStep, ClosureStep, StmtEnd, ClosureReturn, EnvStep

\* The isle is a JobService: jobs run one at a time in the order the channel
\* took them, none twice, and each answer tells whether the closure ran.
THEOREM ThreadImplementsService == ThreadSpec => ImplementsService
<1>1. ThreadInit => Service!ServiceInit
  BY InitMaps
<1>2. TypeInv /\ InterruptInv /\ [ThreadNext]_threadVars
      => [Service!ServiceNext]_(Service!serviceVars)
  BY StepMaps DEF ServiceStep
<1>q. QED
  BY <1>1, <1>2, InterruptInvariant, PTL
  DEF ThreadSpec, ImplementsService, Service!ServiceSpec
=============================================================================
