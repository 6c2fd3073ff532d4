----------------------------- MODULE IsleThread -----------------------------
(***************************************************************************)
(* The SQLite thread of one isle: the loop of thread.rs that owns the      *)
(* connection, the cancellation tokens of token.rs that other threads fire *)
(* at it, and the interrupt flag of the connection, through which a token  *)
(* (or shutdown_now) reaches a running statement.                          *)
(*                                                                         *)
(* Everything outside the thread is an open environment here: requests are *)
(* sent, tokens are fired and the isle is dropped or aborted at any moment *)
(* the types allow.  The front ends replace the environment by the real    *)
(* callers and are checked to be one of its behaviours.                    *)
(***************************************************************************)
EXTENDS Integers, Sequences, FiniteSets

CONSTANTS
  Jobs,      \* closures that may be submitted, each at most once
  Firers,    \* threads that may be inside CancelToken::fire
  NoJob,     \* no job in hand
  Shutdown,  \* Request::Shutdown; a job stands for its own Request::Job
  Capacity   \* bound of the request channel

ASSUME ThreadAssumption ==
  /\ NoJob \notin Jobs
  /\ Shutdown \notin Jobs
  /\ NoJob # Shutdown
  /\ Capacity \in Nat

VARIABLES
  pc,        \* where the SQLite thread is in its body, run_loop and make_job
  cur,       \* the job taken from the channel, NoJob between jobs
  ret,       \* how the closure of cur left catch_unwind
  chan,      \* requests in the channel, oldest first
  senders,   \* some sender of the channel is alive
  opened,    \* what init_rx yields to spawn: "pending" until the thread says
  state,     \* token of each job: "none", or the reason it fired with
  handle,    \* token of each job holds the connection's interrupt handle
  firing,    \* job whose fire call has set state and not yet taken the lock
  abort,     \* the abort flag of shutdown_now
  aborting,  \* shutdown_now has set abort and not yet interrupted
  flag,      \* the connection's interrupt flag, as running statements see it
  stmt,      \* statements of the connection: none, one stepping, or open ones
  hit,       \* a statement of cur ended with SQLITE_INTERRUPT
  poisoned,  \* a panic left the connection unable to run SELECT 1
  result,    \* what the response channel of each job carries
  ran        \* history: jobs whose closure was entered

loopVars  == <<pc, cur, ret>>
chanVars  == <<chan, senders>>
tokenVars == <<state, handle, firing>>
abortVars == <<abort, aborting>>
connVars  == <<flag, stmt, hit, poisoned>>
threadVars == <<loopVars, chanVars, opened, tokenVars, abortVars, connVars,
                result, ran>>

Reasons  == {"Cancelled", "Timeout"}
Outcomes == {"ok", "error", "interrupt", "panic"}
Answers  == {"Ok", "Sqlite", "SqliteInterrupt", "Cancelled", "Timeout",
             "Closed", "Panicked", "Dropped"}
Places   == {"opening", "recv", "job", "token", "attach", "attached", "run",
             "returned", "respond", "health", "select", "closing", "exited"}

ThreadInit ==
  /\ pc = "opening" /\ cur = NoJob /\ ret = "ok"
  /\ chan = <<>> /\ senders = TRUE
  /\ opened = "pending"
  /\ state = [j \in Jobs |-> "none"]
  /\ handle = [j \in Jobs |-> FALSE]
  /\ firing = [f \in Firers |-> NoJob]
  /\ abort = FALSE /\ aborting = FALSE
  /\ flag = FALSE /\ stmt = "none" /\ hit = FALSE /\ poisoned = FALSE
  /\ result = [j \in Jobs |-> "none"]
  /\ ran = {}

Queued(j) == \E i \in 1 .. Len(chan) : chan[i] = j

\* The job has not been accepted by the channel yet.
Fresh(j) == ~Queued(j) /\ cur # j /\ result[j] = "none"

\* A sync_channel(0) hands a request over only to a receiver in recv().
HasRoom ==
  \/ Len(chan) < Capacity
  \/ Capacity = 0 /\ chan = <<>> /\ pc = "recv"

\* sqlite3_interrupt marks the statements now running; with none running it
\* is a no-op, and statements started later are not affected.
Interrupt == flag' = (stmt # "none")

-----------------------------------------------------------------------------
(* The thread body and run_loop.                                           *)

\* Open the connection and run init outside any catch_unwind: success, an
\* error sent to spawn, or a panic that drops init_tx (seen as Closed).
Open(r) ==
  /\ pc = "opening"
  /\ opened' = r
  /\ pc' = IF r = "Ok" THEN "recv" ELSE "closing"
  /\ UNCHANGED <<cur, ret, chanVars, tokenVars, abortVars, connVars, result,
                 ran>>

RecvAnything ==
  /\ pc = "recv" /\ chan # <<>>
  /\ chan' = Tail(chan)
  /\ pc' = "job" /\ cur' = Head(chan)
  /\ UNCHANGED <<ret, senders, opened, tokenVars, abortVars, connVars, result,
                 ran>>
RecvShutdownFirst ==
  /\ pc = "recv" /\ chan # <<>>
  /\ \/ Queued(Shutdown) /\ pc' = "closing" /\ UNCHANGED <<cur, chan>>
     \/ /\ ~Queued(Shutdown)
        /\ pc' = "job" /\ cur' = Head(chan) /\ chan' = Tail(chan)
  /\ UNCHANGED <<ret, senders, opened, tokenVars, abortVars, connVars, result,
                 ran>>
Recv ==
  /\ pc = "recv" /\ chan # <<>>
  /\ chan' = Tail(chan)
  /\ \/ Head(chan) = Shutdown /\ pc' = "closing" /\ UNCHANGED cur
     \/ Head(chan) # Shutdown /\ pc' = "job" /\ cur' = Head(chan)
  /\ UNCHANGED <<ret, senders, opened, tokenVars, abortVars, connVars, result,
                 ran>>

RecvDisconnected ==
  /\ pc = "recv" /\ chan = <<>> /\ ~senders
  /\ pc' = "closing"
  /\ UNCHANGED <<cur, ret, chanVars, opened, tokenVars, abortVars, connVars,
                 result, ran>>

\* Under abort the job is dropped, and its response sender with it.
CheckAbortAlways ==
  /\ pc = "job" /\ pc' = "token"
  /\ UNCHANGED <<cur, ret, chanVars, opened, tokenVars, abortVars, connVars,
                 result, ran>>
CheckAbort ==
  /\ pc = "job"
  /\ \/ /\ abort
        /\ pc' = "recv" /\ cur' = NoJob
        /\ result' = [result EXCEPT ![cur] = "Dropped"]
     \/ /\ ~abort
        /\ pc' = "token" /\ UNCHANGED <<cur, result>>
  /\ UNCHANGED <<ret, chanVars, opened, tokenVars, abortVars, connVars, ran>>

\* The thread leaves: the connection closes, the receiver is dropped and with
\* it every queued job and its response sender.
ExitKeepingQueue ==
  /\ pc = "closing" /\ pc' = "exited"
  /\ UNCHANGED <<cur, ret, chanVars, opened, tokenVars, abortVars, connVars,
                 result, ran>>
Exit ==
  /\ pc = "closing" /\ pc' = "exited"
  /\ result' = [j \in Jobs |-> IF Queued(j) THEN "Dropped" ELSE result[j]]
  /\ chan' = <<>>
  /\ UNCHANGED <<cur, ret, senders, opened, tokenVars, abortVars, connVars, ran>>

-----------------------------------------------------------------------------
(* make_job: the wrapper around one closure.                               *)

\* Queued-stage check: a fired token answers without touching the connection.
CheckTokenAlways ==
  /\ pc = "token" /\ pc' = "attach"
  /\ UNCHANGED <<cur, ret, chanVars, opened, tokenVars, abortVars, connVars,
                 result, ran>>
CheckTokenNoReturn ==
  /\ pc = "token" /\ pc' = "attach"
  /\ result' = [result EXCEPT ![cur] = state[cur]]
  /\ UNCHANGED <<cur, ret, chanVars, opened, tokenVars, abortVars, connVars, ran>>
CheckToken ==
  /\ pc = "token"
  /\ \/ /\ state[cur] # "none"
        /\ result' = [result EXCEPT ![cur] = state[cur]]
        /\ pc' = "recv" /\ cur' = NoJob
     \/ /\ state[cur] = "none"
        /\ pc' = "attach" /\ UNCHANGED <<cur, result>>
  /\ UNCHANGED <<ret, chanVars, opened, tokenVars, abortVars, connVars, ran>>

AttachUnlessFired ==
  /\ pc = "attach" /\ pc' = "attached"
  /\ handle' = [handle EXCEPT ![cur] = (state[cur] = "none")]
  /\ UNCHANGED <<cur, ret, chanVars, opened, state, firing, abortVars, connVars,
                 result, ran>>
AttachHandle ==
  /\ pc = "attach" /\ pc' = "attached"
  /\ handle' = [handle EXCEPT ![cur] = TRUE]
  /\ UNCHANGED <<cur, ret, chanVars, opened, state, firing, abortVars, connVars,
                 result, ran>>

\* The second half of attach, then the call of the closure.
AttachCheck ==
  /\ pc = "attached" /\ pc' = "run"
  /\ IF state[cur] # "none" THEN Interrupt ELSE UNCHANGED flag
  /\ ran' = ran \cup {cur}
  /\ UNCHANGED <<cur, ret, chanVars, opened, tokenVars, abortVars, stmt, hit,
                 poisoned, result>>

\* How the closure ended; unwinding or returning finalizes its statements.
Return(r) ==
  /\ pc = "run" /\ stmt # "stepping"
  /\ r = "interrupt" => hit
  /\ pc' = "returned" /\ ret' = r
  /\ stmt' = "none" /\ flag' = FALSE
  /\ poisoned' \in IF r = "panic" THEN BOOLEAN ELSE {poisoned}
  /\ UNCHANGED <<cur, chanVars, opened, tokenVars, abortVars, hit, result, ran>>

DetachForgotten ==
  /\ pc = "returned" /\ pc' = "respond"
  /\ UNCHANGED <<cur, ret, chanVars, opened, tokenVars, abortVars, connVars,
                 result, ran>>
Detach ==
  /\ pc = "returned" /\ pc' = "respond"
  /\ handle' = [handle EXCEPT ![cur] = FALSE]
  /\ UNCHANGED <<cur, ret, chanVars, opened, state, firing, abortVars, connVars,
                 result, ran>>

\* normalize_error on SQLITE_INTERRUPT: the token's reason, then the abort.
NormalizedTokenOnly ==
  IF state[cur] # "none" THEN state[cur] ELSE "SqliteInterrupt"
Normalized ==
  IF state[cur] # "none" THEN state[cur]
  ELSE IF abort THEN "Closed" ELSE "SqliteInterrupt"

AnswerUncaught ==
  CASE ret = "ok" -> "Ok"
    [] ret = "error" -> "Sqlite"
    [] ret = "interrupt" -> Normalized
    [] ret = "panic" -> "Dropped"
Answer ==
  CASE ret = "ok" -> "Ok"
    [] ret = "error" -> "Sqlite"
    [] ret = "interrupt" -> Normalized
    [] ret = "panic" -> "Panicked"

Respond ==
  /\ pc = "respond"
  /\ result' = [result EXCEPT ![cur] = Answer]
  /\ pc' = IF ret = "panic" THEN "health" ELSE "recv"
  /\ cur' = NoJob /\ hit' = FALSE
  /\ UNCHANGED <<ret, chanVars, opened, tokenVars, abortVars, flag, stmt,
                 poisoned, ran>>

\* SELECT 1 after a panic: a statement like any other, so it can be
\* interrupted, and it fails on a poisoned connection.
HealthStart ==
  /\ pc = "health" /\ pc' = "select"
  /\ stmt' = "stepping"
  /\ UNCHANGED <<cur, ret, chanVars, opened, tokenVars, abortVars, flag, hit,
                 poisoned, result, ran>>

HealthIgnored ==
  /\ pc = "select" /\ pc' = "recv"
  /\ stmt' = "none" /\ flag' = FALSE
  /\ UNCHANGED <<cur, ret, chanVars, opened, tokenVars, abortVars, hit,
                 poisoned, result, ran>>
HealthDone ==
  /\ pc = "select"
  /\ \/ ~poisoned /\ pc' = "recv"
     \/ (poisoned \/ flag) /\ pc' = "closing"
  /\ stmt' = "none" /\ flag' = FALSE
  /\ UNCHANGED <<cur, ret, chanVars, opened, tokenVars, abortVars, hit,
                 poisoned, result, ran>>
-----------------------------------------------------------------------------
(* The closure's statements on the connection (SQLite, through rusqlite).  *)

\* "open" stands for statements that have yielded a row and are not reset.
\* Until the last of them is done, an interrupt also reaches new statements.
StmtFrame ==
  /\ pc = "run"
  /\ UNCHANGED <<loopVars, chanVars, opened, tokenVars, abortVars, poisoned,
                 result, ran>>

StmtStep == StmtFrame /\ stmt # "stepping" /\ stmt' = "stepping"
            /\ UNCHANGED <<flag, hit>>
StmtRow  == StmtFrame /\ stmt = "stepping" /\ stmt' = "open"
            /\ UNCHANGED <<flag, hit>>
StmtDone == StmtFrame /\ stmt = "stepping" /\ stmt' = "none" /\ flag' = FALSE
            /\ UNCHANGED hit
\* Other statements of the closure may still be open, and stay interrupted.
StmtInterrupted ==
  /\ StmtFrame /\ stmt = "stepping" /\ flag
  /\ stmt' \in {"none", "open"} /\ flag' = (stmt' = "open") /\ hit' = TRUE

-----------------------------------------------------------------------------
(* What other threads do to the isle.                                      *)

Submit(j) ==
  /\ Fresh(j) /\ opened = "Ok" /\ senders /\ pc # "exited" /\ HasRoom
  /\ chan' = Append(chan, j)
  /\ UNCHANGED <<loopVars, senders, opened, tokenVars, abortVars, connVars,
                 result, ran>>

SendShutdown ==
  /\ opened = "Ok" /\ senders /\ pc # "exited" /\ HasRoom
  /\ chan' = Append(chan, Shutdown)
  /\ UNCHANGED <<loopVars, senders, opened, tokenVars, abortVars, connVars,
                 result, ran>>

DropSenders ==
  /\ senders /\ senders' = FALSE
  /\ UNCHANGED <<loopVars, chan, opened, tokenVars, abortVars, connVars,
                 result, ran>>

\* The compare-and-swap of fire(): the first reason stays.  A token leaves
\* the front end only with a task, so its job has been accepted.
Fire(f, j, r) ==
  /\ firing[f] = NoJob /\ ~Fresh(j)
  /\ state' = [state EXCEPT ![j] = IF @ = "none" THEN r ELSE @]
  /\ firing' = [firing EXCEPT ![f] = j]
  /\ UNCHANGED <<loopVars, chanVars, opened, handle, abortVars, connVars,
                 result, ran>>

\* The second half of fire(): interrupt under the lock, if a handle is there.
FireInterrupt(f) ==
  /\ firing[f] # NoJob
  /\ IF handle[firing[f]] THEN Interrupt ELSE UNCHANGED flag
  /\ firing' = [firing EXCEPT ![f] = NoJob]
  /\ UNCHANGED <<loopVars, chanVars, opened, state, handle, abortVars, stmt,
                 hit, poisoned, result, ran>>

\* shutdown_now: store abort, then interrupt whatever the connection runs.
StoreAbort ==
  /\ opened = "Ok" /\ ~abort
  /\ abort' = TRUE /\ aborting' = TRUE
  /\ UNCHANGED <<loopVars, chanVars, opened, tokenVars, connVars, result, ran>>

AbortInterrupt ==
  /\ aborting /\ aborting' = FALSE
  /\ Interrupt
  /\ UNCHANGED <<loopVars, chanVars, opened, tokenVars, abort, stmt, hit,
                 poisoned, result, ran>>

-----------------------------------------------------------------------------
\* Steps the thread takes by itself, whatever the closure does.
LoopStep ==
  \/ \E r \in {"Ok", "Sqlite", "Closed"} : Open(r)
  \/ Recv \/ RecvDisconnected \/ CheckAbort \/ CheckToken
  \/ AttachHandle \/ AttachCheck \/ Detach \/ Respond
  \/ HealthStart \/ HealthDone \/ Exit

StmtEnd == StmtRow \/ StmtDone \/ StmtInterrupted
ClosureReturn == \E r \in Outcomes : Return(r)
ClosureStep == StmtStep \/ StmtEnd \/ ClosureReturn

EnvStep ==
  \/ \E j \in Jobs : Submit(j)
  \/ SendShutdown \/ DropSenders
  \/ \E f \in Firers, j \in Jobs, r \in Reasons : Fire(f, j, r)
  \/ \E f \in Firers : FireInterrupt(f)
  \/ StoreAbort \/ AbortInterrupt

ThreadNext == LoopStep \/ ClosureStep \/ EnvStep

ThreadSpec == ThreadInit /\ [][ThreadNext]_threadVars

\* The thread is scheduled, and closures end: a statement steps to a row or
\* to its end, and a closure that can return again and again returns.
ThreadFairness ==
  /\ WF_threadVars(LoopStep)
  /\ WF_threadVars(StmtEnd)
  /\ SF_threadVars(ClosureReturn)

FairThreadSpec == ThreadSpec /\ ThreadFairness

-----------------------------------------------------------------------------
(* Properties.                                                             *)

ThreadTypeOK ==
  /\ pc \in Places /\ cur \in Jobs \cup {NoJob} /\ ret \in Outcomes
  /\ chan \in Seq(Jobs \cup {Shutdown}) /\ senders \in BOOLEAN
  /\ opened \in {"pending", "Ok", "Sqlite", "Closed"}
  /\ state \in [Jobs -> Reasons \cup {"none"}]
  /\ handle \in [Jobs -> BOOLEAN]
  /\ firing \in [Firers -> Jobs \cup {NoJob}]
  /\ abort \in BOOLEAN /\ aborting \in BOOLEAN
  /\ flag \in BOOLEAN /\ stmt \in {"none", "stepping", "open"}
  /\ hit \in BOOLEAN /\ poisoned \in BOOLEAN
  /\ result \in [Jobs -> Answers \cup {"none"}]
  /\ ran \subseteq Jobs

\* An interrupt is only ever pending, or was only ever observed, because the
\* running job's own token fired or shutdown_now aborted the isle: a late fire
\* of another job's token reaches neither this job nor the health check
\* (TokenInner.handle is Some only while its job executes).
NoStrayInterrupt ==
  flag \/ hit => abort \/ (cur # NoJob /\ state[cur] # "none")

\* Every answer names its cause (normalize_error): a raw SQLITE_INTERRUPT never
\* reaches a caller, Cancelled and Timeout are the reason the job's own token
\* holds, and Closed is answered only for an abort the token did not precede.
AnswersExplained ==
  \A j \in Jobs :
    /\ result[j] # "SqliteInterrupt"
    /\ result[j] \in Reasons => state[j] = result[j]
    /\ result[j] = "Closed" => abort

\* A job dropped without an answer was never entered, so its caller, who sees
\* Closed, knows that nothing of it touched the database.
DroppedNeverRan == \A j \in Jobs : result[j] = "Dropped" => j \notin ran

\* A cancel, a deadline or a repeated cancel that comes back from fire() while
\* its job's closure runs a statement, or holds rows open, has marked it for
\* interruption: however its two halves met the check, the attach and the run.
CancelReaches ==
  [][\A f \in Firers :
       /\ firing[f] # NoJob /\ firing'[f] = NoJob
       /\ firing[f] = cur /\ pc = "run" /\ stmt # "none"
       => flag']_threadVars

\* A job whose token fires while it is still queued is never entered.
QueuedCancelNeverRuns ==
  \A j \in Jobs :
    [](Queued(j) /\ state[j] # "none" => [](j \notin ran))

\* Once shutdown_now has stored abort, no job still queued is ever entered.
AbortDropsQueued ==
  \A j \in Jobs : [](Queued(j) /\ abort => [](j \notin ran))

\* After a panic no job is entered on a connection that fails SELECT 1, even
\* when an abort or an interrupt races with the check.
HealthGate == [][poisoned => ran' = ran]_threadVars

\* Every job the channel accepted is answered or dropped in the end, whatever
\* is fired, dropped, aborted or panics meanwhile: no caller waits for ever.
EveryJobAnswered == \A j \in Jobs : ~Fresh(j) ~> result[j] # "none"

\* What JobService sees of the thread.  A job taken from the channel still
\* waits until its closure is entered, for it may be passed over.
Undecided == pc \in {"job", "token", "attach", "attached"}

Waiting == IF Undecided THEN <<cur>> \o chan ELSE chan
Running == IF Undecided THEN NoJob ELSE cur
Stage ==
  IF pc = "closing" THEN "stopping"
  ELSE IF pc = "exited" THEN "stopped" ELSE "serving"

Service == INSTANCE JobService
  WITH waiting <- Waiting, running <- Running, answer <- result, service <- Stage

\* The isle does its jobs one at a time, in the order of acceptance, at most
\* once each, with one answer each that tells whether the closure ran.
ImplementsService == Service!ServiceSpec

\* The comment on attach: a token that fired before attach looks at it is
\* delivered at once, so no statement of that job runs uninterrupted.
RaceWindowClosed ==
  \A j \in Jobs :
    [](pc = "attached" /\ cur = j /\ state[j] # "none"
       => [](cur = j /\ stmt = "stepping" => flag \/ hit))
=============================================================================
