# rusqlite-isle in TLA+

`rusqlite-isle` gives a SQLite `Connection` a thread of its own. Callers send
closures over a bounded channel, the thread runs them one at a time, and a
token per job cancels it in either stage: a queued job is passed over, a running
statement is interrupted with `sqlite3_interrupt`. This directory models that
machinery, checks it with TLC on small instances and proves the main results
with TLAPS for all of them.

## Inventory

| part | state | operations | talks to |
|---|---|---|---|
| SQLite thread (`thread.rs`, and the thread body in `handle.rs`) | connection, job in hand | open and init, `run_loop`, `make_job`, health check | request channel in, one response channel per job out, abort flag |
| cancel token (`token.rs`) | atomic reason, interrupt handle behind a mutex | `cancel`, `expire`, `fired`, `attach`, `detach` | callers fire it, the thread attaches to it, it interrupts the connection |
| `Isle` (`handle.rs`) | channel sender, join handle, abort flag | spawn, `call`, `call_timeout`, `try_call`, `spawn_call`, `shutdown`, `is_alive`, drop | the thread |
| `Task` (`task.rs`) | response receiver, token | `wait`, `try_recv`, `cancel` | the thread, through the token |
| `IslePool` (`pool.rs`) | idle isles, `active`, `closed`, a mutex and a condition variable | three checkouts, return on drop, `shutdown` | `Isle`s, user's factory |
| `AsyncIsle` (`async_isle.rs`) | tokio channel sender per clone, abort flag | `spawn`, `call`, `call_timeout`, `try_call`, `spawn_call`, `is_alive` | the same thread |
| `AsyncIsleDriver` (`async_isle.rs`) | a sender, done signal, join handle, interrupt handle | `shutdown`, `shutdown_now`, drop | the thread |
| `AsyncTask` (`async_task.rs`) | response receiver, token | `await`, `cancel`, `detach`, drop-cancel | the thread, through the token |
| errors (`error.rs`) | none | `is_interrupt` | everyone |

What makes it hard, and what has to hold of each part:

* **Interrupts are aimed at a connection, not at a job.** Only the order of
  attach, detach, the compare-and-swap in `fire` and the handle's lock keep a
  late cancel away from the next job. An interrupt that finds no statement
  running does nothing.
* **Two reasons and two stages race.** Cancel, deadline and abort may all hit one
  job while it is queued, between the checks, running or finished. The answer
  has to name the right one, once.
* **The thread may go away** (shutdown, drop, init failure, a panic that ruins the
  connection) with jobs queued and callers blocked on either side of a bounded
  channel. Nobody may wait for ever, and `Closed` has to mean "not done".
* **Any future may be dropped where it awaits**: a call that waits for room or for its
  answer, a spawn, a shutdown. What it held goes with it (a job not yet sent, a
  token that fires, a sender), and nothing else may suffer.
* **The pool grows outside its mutex**, hands slots over through `notify_one`, holds
  isles that may die at any time, and joins threads with the mutex held.

The hazards, each at its line, are listed in `PROJECT.json`.

## Modules

| module | what it is |
|---|---|
| `JobService` | abstract: what an isle promises. A queue of accepted jobs, one running at a time, one answer each, and a stop that discards |
| `IsleThread` | the thread, the tokens and the connection, in an environment that may do anything the types allow |
| `Callers` | EXTENDS `IsleThread`: what callers of either front end do. Calls, deadlines, tasks, cancels, futures and tasks dropped |
| `SyncIsle` | EXTENDS `Callers`: `Isle` and `Task`, with the owner and the threads that shut down |
| `AsyncIsle` | EXTENDS `Callers`: `AsyncIsle`, its clones and its driver, `AsyncTask` |
| `PoolLeases` | abstract: what a pool promises. Threads lease isles, at most `MaxSize` at once, each isle to one thread |
| `IslePool` | the pool, over isles reduced to their life cycle |
| `IsleThreadProofs`, `IsleThreadRefinement`, `CallersProofs`, `SyncIsleProofs`, `AsyncIsleProofs`, `IslePoolProofs`, `IslePoolRefinement`, `PoolLeasesProofs` | the theorems |
| `MC*` | symmetry sets and bounds for TLC; one `.cfg` per run |

The specifications form a chain, each implementing the next: `SyncIsle` and
`AsyncIsle` implement `CallersSpec`, which implements `ThreadSpec`, which
implements `JobService`. What is proved low in the chain holds of both front ends.
`IslePool` implements `PoolLeases`.

### IsleThread

`pc` walks through the code in order: `opening` (the thread body), `recv`
(`next()` of `run_loop`), `job` (abort check), `token` (queued-stage check),
`attach` and `attached` (the two halves of `attach`), `run` (the closure inside
`catch_unwind`), `returned` (before `detach`), `respond` (`match result` and
`normalize_error`), `health` and `select` (`SELECT 1`), `closing` (the loop has
been left), `exited` (the receiver is gone and with it the queue). Each is a
point where another thread can come between.

`fire` is two steps, as in the code: the compare-and-swap, and then the lock with
the interrupt. Several of them can be under way, one per member of `Firers`.
`StoreAbort` and `AbortInterrupt` are the two statements of `shutdown_now`; they
belong to the async driver, but the thread's answer to them belongs here.

The connection is modelled by how `rusqlite` and SQLite behave towards this code
(external in the map): `stmt` says whether statements run, `flag` whether they are
marked as interrupted. `Interrupt` marks what runs and nothing else; a statement
that ends while others are open leaves them marked; a step of a marked
statement fails with `SQLITE_INTERRUPT`, *or completes*, since SQLite looks at
the mark only now and then. A closure may return anything, but
`SQLITE_INTERRUPT` only if a statement of its own was interrupted (`hit`).

### Callers

Each job has its caller, each caller makes one call. `phase` follows it through
`sending` (blocked on, or trying, the channel), `waiting`, `timed`, `expiring`,
`overdue` (the three parts of `call_timeout`), `task`, `polling` (a caller of
`try_recv`) and the ways to end. The two front ends share this protocol almost
line by line; `Callers` has every step that either lets a caller take, and
guards that hold in both, so that what is proved of it is proved of both.
`Cancellers` hold clones of tokens and may fire them at any time, also after the
job and the task are gone. `late` is a history variable: the jobs accepted behind
a request to stop.

### SyncIsle

`Closers` call `shutdown()` in its three parts: the blocking send, the taking of the
join handle under its mutex, the join. The owner spawns and drops; a drop needs
everyone's borrow to be over, as the borrow checker asks, and then sends
best-effort and drops the sender in two steps.

### AsyncIsle

`driver` walks through `spawning`, `held`, `aborting` (between the two statements of
`shutdown_now`), `sending`, `finishing` (awaiting the done signal), `joining`,
`returned`, or `dropped` at any of its awaits; `handles` says whether any clone is
left. A holder that lets go of the last sender disconnects the channel
(`Release`). The thread sends `done` between leaving its loop and dropping its
receiver, so that a request may still be accepted after the signal. Any caller's
future may be dropped: before its job is sent the job goes with it
(`DropFuture`), later its token fires (`Abandon`). A finished `AsyncTask` fires
its token as well when it is dropped (`DropResolved`). `detach` is `LeaveTask`.

### IslePool

Sections under the pool's mutex are single steps, but those that join an isle's
thread hold `lock` over several. `place` says where each thread is: `locking`,
`waiting` on the condition variable, `woken` or `late` (notified or at its deadline,
and not yet back in the mutex: others may barge in), `factory` (the mutex
released, the slot counted), `undo` (before `dec_active`), `holding` a guard,
`stopping` and `draining` (joining with the mutex held). Isles may die at any time.
`checkout_overlong` is `checkout_timeout` with a deadline no `Instant` can hold:
the addition panics under the mutex and poisons it.

## Runs

| run | shows | bounds | distinct states |
|---|---|---|---|
| `thread_safety` | `ThreadTypeOK`, `NoStrayInterrupt`, `AnswersExplained`, `DroppedNeverRan`, `CancelReaches`, `HealthGate`, `ImplementsService` | 3 jobs, 1 firer, capacity 2 | 1.2 million |
| `thread_liveness` | `EveryJobAnswered`, `QueuedCancelNeverRuns`, `AbortDropsQueued` | 2 jobs, 1 firer, capacity 1 | 124 000 |
| `sync_safety` | `SyncTypeOK`, `RefusedNeverRuns`, `ReasonFitsCall`, `GracefulDrain`, `AliveIfUnborrowed`, `NobodyWaitsInVain`, `ThreadSpec` | 2 callers, 1 canceller, 2 closers, capacity 2 | 743 000 |
| `sync_liveness` | `CallsReturn`, `ShutdownReturns`, `DropEndsThread`, `PollsEnd` | 2 callers, 1 closer, capacity 1 | 107 000 |
| `async_safety` | `AsyncTypeOK`, `RefusedNeverRuns`, `ReasonFitsCall`, `GracefulDrain`, `NobodyWaitsInVain`, `ShutdownIsFinal`, `DroppedStaysOut` | 2 callers of different kinds, 1 canceller, capacity 1 | 1.5 million |
| `async_liveness` | `CallsReturn`, `DriverReturns`, `AbandonedIsleEnds`, `ThreadSpec` | 2 callers, capacity 1 | 174 000 |
| `pool_safety` | `PoolTypeOK`, `LiveBound`, `SlotsAccounted`, `RefusedOnlyWhenFull`, `NoLostWakeup`, `ImplementsLeases` | 4 threads, 3 identities, `max_size` 2 | 104 000 |
| `pool_liveness` | `CallsReturn`, `ShutdownStopsAll` | 3 threads, `max_size` 1 | 20 000 |
| `thread_attach_race`, `sync_deadline`, `sync_shutdown_twice`, `pool_factory_panic` | a claim of the docs that the code does not keep, see below | smallest | small |

Why these bounds are enough for the questions asked:

* Three jobs are one running and two queued, so that order, one job's cancel against
  the next job, and a health check with successors are all there. A firing
  spans two steps and other steps come between, so one firer already makes every
  late interrupt, and it may fire the same token again. The proofs cover any number.
* Capacity 1 makes senders block with two callers. Capacity 2 lets both jobs
  and a `Shutdown` contend. A rendezvous channel (capacity 0) is defined by
  `HasRoom`, `SendFull` and `DropIsle` but not run; the thread's proofs cover it.
* Four threads on two isles have two asleep while two return, die, time out or
  fail. A fifth was tried by hand once, with the same result. One more isle
  identity than `max_size` lets a new isle appear while old ones are still around.
* `sync_liveness` uses `call_timeout` and `spawn_call`: `call` is `call_timeout`
  whose deadline does not come, and `try_call` does not block. `sync_safety`
  leaves out `spawn_call`, whose halves are `call`'s send and `try_call`'s task.
* `async_safety` uses `call_timeout`, whose parts include `call`'s, and `try_call`,
  which `spawn_call` wraps; `MixedCalls` gives each caller a different one of them, since two of a kind
  meet in `sync_safety`, over the same `Callers`. `async_liveness` uses `call` alone: it is the one that
  waits for room and for its answer without a deadline of its own; that the
  front end is an environment the thread allows is proved for every operation.
* One call per caller and per pool thread bounds the histories. The thread, the
  channel and the pool themselves have no other counters.

Deadlock is not checked (`CHECK_DEADLOCK FALSE`): threads end and every caller
may have made its call. That nobody is stuck before is what the liveness
properties say, and `NobodyWaitsInVain` and `NoLostWakeup` say of every state: whoever waits,
waits for something that is on its way.

Every property has a mutant in `PROJECT.json`: an operator beside the original
(`DetachForgotten`, `ShutTrySend`, ...) that changes it as a plausible slip would,
and under which TLC finds the property violated. They take no part in the specification.

### Fairness

* The SQLite thread and all callers are scheduled (weak fairness on their steps):
  nothing in the code can disable a thread's next step for good but what it waits
  for.
* `ThreadFairness` and `ClosuresEnd`: a statement ends or yields a row, and a closure
  that can return again and again returns (strong fairness, since its statements
  come and go). The library cannot promise more than its closures do. Nothing
  obliges a closure to step, a token to fire, an isle to be dropped.
* `AsyncFairness`: the runtime polls every future until it ends or is dropped, and a
  driver that is shutting down goes on. No future has to be dropped, no call made,
  no deadline to pass and no driver to be shut down: `DriverReturns` starts from a
  shutdown under way, `AbandonedIsleEnds` from the moment when nobody holds a sender.
* `ClosuresHeedInterrupts` (only in `sync_deadline`) lets closures go on for ever
  unless interrupted: the case a deadline is for.
* The pool asks that threads are scheduled, that guards are dropped in the end,
  that deadlines pass and that a stopping isle drains. The mutex and `notify_one`
  are given to anyone: no queueing is assumed. With one call per thread, barging
  cannot starve anybody for ever.

## Where docs and code differ

1. `thread_attach_race`: `attach` says (token.rs:112-114) that a token fired before it
   is delivered immediately "so the race window is closed". At that moment no
   statement runs, the interrupt is a no-op, and the job's statements run to
   their end.
2. `sync_deadline`: `call_timeout` (handle.rs:261-263) promises to return at its
   deadline. Its single interrupt may fall between two statements; the call then
   lasts as long as the closure, for ever if that relies on being interrupted.
3. `sync_shutdown_twice`: "After shutdown every submission returns Closed"
   (handle.rs:317). The second of two concurrent calls returns while the first
   still joins; `try_call` after it still hands out a `Task`. The job does not run, and its `wait()`
   tells `Closed`.
4. `pool_factory_panic`: a factory that panics leaves its slot in `active`
   (pool.rs:71 calls it the number of isles checked out). `SlotsAccounted`
   checks that this is the only way to lose one.

A smaller one has no run of its own: `try_recv` (task.rs:53) "returns `None` while the
job is still pending". It also returns `None` for ever once the job was dropped, where
`wait` returns `Closed`. `PollsEnd` states what is left: polling ends for every job
that is answered.

## Proofs

Assumptions: `ThreadAssumption` (the markers are not jobs, the capacity is a
natural number), `CallersAssumption` (each caller fires its own token, callers and
cancellers are different), `AsyncAssumption` (a tokio channel has room for
something) and `PoolAssumption` (finitely many threads, a size above 0). The sets of
jobs, firing threads, cancellers, closers and isles are arbitrary, and so are the
capacity and the pool's size.

* `ThreadTypeCorrect`. `TypeInv` strengthens `ThreadTypeOK`: a job is in hand exactly
  from `job` to `respond`, without which `result[cur]` would not be typed.
* `InterruptsAreOwn`, `AnswersAreExplained`. `NoStrayInterrupt` is not inductive: a step of
  `FireInterrupt` could find a handle on another job's token. `InterruptInv` adds
  that a handle is attached only to the job in hand, between `attach` and `detach`, that
  statements run only in `run` and `select`, that a firing token has its reason, and
  that the marks are explained. `AnswersAreExplained` then follows at `Respond`.
* `HealthGateHolds`, an action property, needs that a poisoned connection never gets
  back to `recv`.
* `DroppedJobsNeverRan`. `QueueInv`: the channel holds each job at most once, none
  that is in hand, answered or entered.
* `QueuedCancelIsFinal`, `AbortIsFinal`, `StopIsFinal`. From the moment in question an invariant
  holds for good (`DoomedByToken`: the reason is set and the job has not passed the
  queued-stage check; `DoomedByAbort` likewise; `Stranded`: the job is behind a `Shutdown`, or in
  what is left when that was taken), so the properties need no induction over data.
* `ServedInOrder`, with `Precedes` in the same role: the earlier job is ahead in the queue,
  or in hand while the other one is queued, or answered. `AheadInAppend` and `AheadInTail` are what
  the channel's two operations do to the order.
* `AnswersAreFinal`, `ClosuresEnterOnce`: action properties that `QueueInv` carries, since the job in hand
  and the queued ones are unanswered and, before attach, not entered. `ReportsAreOfClosures` is the converse of
  `DroppedJobsNeverRan`: with both, `Ok`, an error, a panic or a late `Closed` means entered,
  a dropped sender means not entered. `Cancelled` and `Timeout` may be either.
* `RunningJobsAreReached` proves `CancelReaches`: from `attach` to `detach` the handle of the job in hand is there
  (`HandleThere`, the converse of `HandleOwned`), so that no `fire` of a running job's token misses
  a statement that runs at that moment. One that runs later is not interrupted:
  that is what `sync_deadline` shows.
* `ThreadImplementsService`. The refinement mapping puts the job in hand at the head of
  the abstract queue until its closure is entered, because it may still be
  passed over; so `Recv` stutters, `CheckAbort` and `CheckToken` are `Refuse` or stutter, `AttachCheck` is
  `Start`, `Respond` is `Finish` and `Exit` is `Discard`. Lemmas on `<<cur>> \o chan` stand in for
  facts about sequences the SMT solver does not find.
* `CallersImplementThread`. Every step of `Callers` is a step of the thread or of its
  environment, so that all theorems above hold of `CallersSpec`. On top of it
  `TellInv` relates the reason a token has to the call that was made (only a
  `call_timeout` can time out; only a task, or a call already given up, can be cancelled),
  whence `ReasonsFit`; `RefusedInv` that a refused job is not in the thread's hands and never gets
  there, whence `RefusedJobsNeverRun`; `DrainInv` that every job behind a `Shutdown` in
  the queue is late, and that once the loop is left whatever is queued is late,
  or the connection broken, or an abort stored, and `LateInv` that every late job is stranded, whence `GracefulDrainHolds`. `CallersToldTheTruth`:
  what a caller is told quotes the thread's answer, which is final.
* `NobodyForgotten`, the safety core of `CallsReturn`. `KnownStays`: a job once accepted is in the queue, in hand or
  answered for good; `OwedInv`: whoever waits has had his job accepted, and an exited thread's queue is
  empty. So a thread that has left owes no answer, and one that has not still holds the job. With
  `LeavingStays` (a request to stop, once sent, is not lost) the front ends add their own waits:
  `SyncNobodyWaitsInVain` for the join of `shutdown` and of the drop, where `BorrowInv` says who still borrows the
  `Isle`, and `AsyncNobodyWaitsInVain` for the driver, over futures dropped at every await (`AwaitInv`). What
  fairness then adds is only that the thread goes on.
* `SyncImplementsCallers`, `AsyncImplementsCallers`. Step by step, each front end does what
  `Callers` allows; `SyncCallersAreTold`, `AsyncCallersAreTold`, `SyncInterruptsAreOwn`,
  `AsyncInterruptsAreOwn` collect what follows.
* `AliveTellsTruth` rests on `JoinInv`: the join handle is gone only when one
  closer is joining, or the thread is over. `ShutdownFinal` rests on `DriverInv`: a driver that
  has returned has seen the thread exit. `DroppedJobsStayOut` rests on
  `DroppedFired`: a dropped task's token has a reason.
* The pool. `PoolInv` (who holds an isle, who keeps the mutex, a running isle is in
  the pool, and `Exclusive`, which says what the ownership of an `Isle` gives and the counting needs).
  `SlotsAreAccounted` counts: each step takes
  one thread into `Slots`, lets one go, or neither. It is what makes
  `saturating_sub` never saturate, on which `SizeInv` rests: slots, idle isles and
  the isle being joined under the mutex are together at most `MaxSize`. From it
  follow `PoolTypeCorrect` and `LiveIslesBounded`, and with the exact count `RefusalsAreJust`: `active` at `MaxSize` means
  that many slots are really in use. `WakeupsAreKept` joins two invariants. `OpenWakeups` is inductive with
  the types alone: whoever takes a slot may use up one waker, whoever gives one
  back makes one if anybody waits. `ClosedInv` says that in a closed pool threads sleep, and isles idle, only
  while the shutdown that drains it keeps the mutex. From these: `SomebodyMoves` (the threads are never
  all asleep, unless factory panics have leaked every slot), `MutexHolderJoins` (whoever keeps the mutex
  joins an isle, and nothing else of the pool) and `ClosedPoolIsEmpty`.
* `PoolImplementsLeases`. A thread's lease is the guard in its hands, or the factory call it
  makes; `TakenIsSlots` says that these are the slots that `active` counts, so that
  `SlotsAccounted` turns the code's test of the counter into the abstract bound.
  `SizeInv` is needed where an idle isle is handed out, which the code does without
  that test. Waiting, waking, poisoning and joining are stutters, or
  throw away isles that are dead.
* `PoolLeases` itself (`LeasedToOne`, `LiveIslesAreKept`, `MaxSizeHolds`): that the abstract pool promises what its
  comment says. Its guards bound the leases alone; that the isles are bounded as well needs
  `SlotsShared`: slots taken and live isles nobody holds are together at most `MaxSize`, since the
  pool grows only when it has no live isle to spare. The hypothesis `LeaseConstants` is part of `PoolAssumption`.

Every safety property and action property of a passing run is proved. Model-checked only:
liveness under fairness (`CallsReturn` and the others of the four liveness runs), which is out of TLAPS's reach, as `ENABLED` is;
`NobodyForgotten`, the two `NobodyWaitsInVain`, `WakeupsAreKept` and `SomebodyMoves` are the part of it
that can be proved. The claims of the four violated runs are refuted, not proved.

## What is abstracted or assumed

* Sequential consistency. The token's state is published with release and read with acquire
  orderings around the handle's mutex, and the abort flag is stored before the interrupt.
  Behaviours of weaker memory are not modelled.
* Merged steps: lock and interrupt in `fire` (the lock excludes `detach`), the load and
  interrupt in `attach` (no statement runs), the two loads in `normalize_error` (if
  the token has not fired at the first, the interrupt was an abort's, which is then already stored: the second
  load cannot change its mind). Channel sends
  and receives are atomic, as the standard library presents them.
* Closures do not make up `SQLITE_INTERRUPT` errors and keep no statement running past
  their return; destructors do not panic; a thread can always be spawned.
* tokio's channel: taking a permit and pushing the request are one step. Its
  waiting senders are served in any order; `TrySendFull` covers that a permit may
  already be promised to one of them while the queue still has room.
* `shutdown`'s and `shutdown_now`'s join is blocking, but by then the thread has nothing left to
  do but drop what it owns.
* The pool's isles do not call back into the pool from their jobs: a checkout inside a
  closure, on an isle that a pool being shut down joins, deadlocks (pool.rs:215).
* Not modelled: paths, open flags, busy timeout, thread names, messages, `Debug`; `active()`,
  `idle()` and the asynchronous `is_alive`s, which only read; the crate root, examples and tests.

## Plan

1. Done: `JobService`, `IsleThread`; `Callers` with `SyncIsle` and `AsyncIsle`; `IslePool`; the
   safety properties of all of them proved, with the safety cores of their liveness, and the chain of
   implementations; `PoolLeases`, what it promises, and that `IslePool` implements it.
2. Left: isles composed with the pool, to say what a job that uses the pool from
   inside it may expect.
