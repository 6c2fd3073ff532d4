----------------------------- MODULE JobService -----------------------------
(***************************************************************************)
(* What an isle promises its callers, without threads, tokens or SQLite:   *)
(* one closure runs at a time, in the order of acceptance, at most once,   *)
(* and every accepted job gets one answer.  A job passed over without      *)
(* running is told so by its answer; one that ran is never told Dropped.   *)
(* The doc comments of thread.rs and handle.rs promise this much, and      *)
(* IsleThread is shown to implement it.                                    *)
(***************************************************************************)
EXTENDS Integers, Sequences

CONSTANTS Jobs, NoJob, Shutdown

VARIABLES
  waiting,  \* requests in the order of their acceptance
  running,  \* the job whose closure runs, NoJob if none does
  answer,   \* the answer of each job, "none" before
  service   \* "serving", "stopping" (it starts nothing more), "stopped"

serviceVars == <<waiting, running, answer, service>>

Refusals == {"Cancelled", "Timeout", "Dropped"}
Reports  == {"Ok", "Sqlite", "Cancelled", "Timeout", "Closed", "Panicked"}

ServiceInit ==
  /\ waiting = <<>> /\ running = NoJob
  /\ answer = [j \in Jobs |-> "none"]
  /\ service = "serving"

\* Accepted while it stops, a request is discarded later with the others.
Accept(x) ==
  /\ service # "stopped"
  /\ x \in Jobs => /\ answer[x] = "none" /\ running # x
                   /\ \A i \in 1 .. Len(waiting) : waiting[i] # x
  /\ waiting' = Append(waiting, x)
  /\ UNCHANGED <<running, answer, service>>

NextJob(j) ==
  /\ service = "serving" /\ running = NoJob
  /\ waiting # <<>> /\ Head(waiting) = j
  /\ waiting' = Tail(waiting)

Start(j) ==
  /\ NextJob(j)
  /\ running' = j
  /\ UNCHANGED <<answer, service>>

Refuse(j, a) ==
  /\ NextJob(j)
  /\ answer' = [answer EXCEPT ![j] = a]
  /\ UNCHANGED <<running, service>>

Finish(j, a) ==
  /\ running = j
  /\ running' = NoJob
  /\ answer' = [answer EXCEPT ![j] = a]
  /\ UNCHANGED <<waiting, service>>

\* At a request to stop, or on its own account between two jobs.
Stop ==
  /\ service = "serving" /\ running = NoJob
  /\ service' = "stopping"
  /\ \/ waiting # <<>> /\ Head(waiting) = Shutdown /\ waiting' = Tail(waiting)
     \/ UNCHANGED waiting
  /\ UNCHANGED <<running, answer>>

Discard ==
  /\ service = "stopping" /\ service' = "stopped"
  /\ answer' = [j \in Jobs |-> IF \E i \in 1 .. Len(waiting) : waiting[i] = j
                               THEN "Dropped" ELSE answer[j]]
  /\ waiting' = <<>>
  /\ UNCHANGED running

ServiceNext ==
  \/ \E x \in Jobs \cup {Shutdown} : Accept(x)
  \/ \E j \in Jobs : Start(j)
  \/ \E j \in Jobs, a \in Refusals : Refuse(j, a)
  \/ \E j \in Jobs, a \in Reports : Finish(j, a)
  \/ Stop \/ Discard

ServiceSpec == ServiceInit /\ [][ServiceNext]_serviceVars
=============================================================================
