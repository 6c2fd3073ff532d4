------------------------------ MODULE IslePool ------------------------------
(***************************************************************************)
(* The pool of isles of pool.rs: threads that check isles out of it, block *)
(* on its condition variable, give isles back by dropping their guards,    *)
(* and shut it down.  An isle is here what the pool sees of it: a thread   *)
(* that runs, has been told to stop, or has exited.                        *)
(*                                                                         *)
(* Sections of code under the pool's mutex are single steps, except those  *)
(* that join an isle's thread: they keep the mutex for as long as it takes.*)
(***************************************************************************)
EXTENDS Integers, Sequences, FiniteSets

CONSTANTS
  Threads,   \* users of the pool: each makes one call, and drops its guard
  Isles,     \* identities of isles
  NoIsle,    \* no isle in the guard
  NoThread,  \* nobody holds the mutex over several steps
  MaxSize,   \* PoolConfig::max_size
  Ops,       \* what threads call
  FactoryOutcomes  \* what a factory call may come to

ASSUME PoolAssumption ==
  /\ IsFiniteSet(Threads)
  /\ NoIsle \notin Isles /\ NoThread \notin Threads
  /\ MaxSize \in Nat \ {0}
  /\ Ops \subseteq {"checkout", "try_checkout", "checkout_timeout",
                    "checkout_overlong", "shutdown"}
  /\ FactoryOutcomes \subseteq {"ok", "error", "panic"}

VARIABLES
  idle,    \* idle isles, a stack that grows at its end
  active,  \* the count the code keeps of isles checked out
  closed,  \* the pool has been shut down
  lock,    \* the thread that keeps the mutex while it joins an isle
  poison,  \* a thread panicked with the mutex held
  isle,    \* each isle's thread: "none", "running", "stopping", "exited"
  op,      \* what each thread called
  place,   \* how far it is
  guard,   \* the isle in its hands
  ans      \* what its call returned

poolVars == <<idle, active, closed, lock, poison>>
userVars == <<op, place, guard, ans>>
vars == <<poolVars, isle, userVars>>

\* "woken" has left the condition variable, by a notification or spuriously;
\* "late" has left it at its deadline; "undo" is dec_active after a factory
\* error; "stopping" and "draining" join isles under the mutex.
Places == {"idle", "locking", "waiting", "woken", "late", "factory", "undo",
           "holding", "stopping", "draining", "done"}

Replies == {"none", "Isle", "None", "Closed", "Timeout", "Panicked",
            "FactoryError", "FactoryPanic", "unit"}

Init ==
  /\ idle = <<>> /\ active = 0 /\ closed = FALSE
  /\ lock = NoThread /\ poison = FALSE
  /\ isle = [i \in Isles |-> "none"]
  /\ op = [t \in Threads |-> "none"]
  /\ place = [t \in Threads |-> "idle"]
  /\ guard = [t \in Threads |-> NoIsle]
  /\ ans = [t \in Threads |-> "none"]

At(p) == {t \in Threads : place[t] = p}

\* Isle::is_alive: the thread has not finished.
IsAlive(i) == isle[i] # "exited"

InPool(i) ==
  \/ \E k \in 1 .. Len(idle) : idle[k] = i
  \/ \E t \in Threads : guard[t] = i

Move(t, p) == place' = [place EXCEPT ![t] = p]
Reply(t, a) ==
  place' = [place EXCEPT ![t] = "done"] /\ ans' = [ans EXCEPT ![t] = a]

\* notify_one, and t moves on to p: any waiting thread may be the one.
NotifyOneAndMove(t, p) ==
  \/ At("waiting") = {} /\ Move(t, p)
  \/ \E w \in At("waiting") :
       place' = [place EXCEPT ![w] = "woken", ![t] = p]

\* saturating_sub(1)
Decremented == IF active = 0 THEN 0 ELSE active - 1

-----------------------------------------------------------------------------
(* checkout, try_checkout, checkout_timeout.                               *)

Call(t, o) ==
  /\ place[t] = "idle"
  /\ op' = [op EXCEPT ![t] = o]
  /\ Move(t, "locking")
  /\ UNCHANGED <<poolVars, isle, guard, ans>>

\* The thread gets the mutex, from lock() or back from the condition variable.
Locks(t) ==
  /\ place[t] \in {"locking", "woken", "late"} /\ op[t] # "shutdown"
  /\ lock = NoThread

\* A checkout with a deadline no Instant can hold panics under the mutex.
Overflows(t) == op[t] = "checkout_overlong" /\ place[t] = "locking"

OverlongDeadline(t) ==
  /\ Locks(t) /\ ~poison /\ Overflows(t)
  /\ poison' = TRUE
  /\ Reply(t, "Panicked")
  /\ UNCHANGED <<idle, active, closed, lock, isle, op, guard>>

FindPoisoned(t) ==
  /\ Locks(t) /\ poison
  /\ Reply(t, "Panicked")
  /\ UNCHANGED <<poolVars, isle, op, guard>>

FindClosed(t) ==
  /\ Locks(t) /\ ~poison /\ ~Overflows(t) /\ closed
  /\ Reply(t, "Closed")
  /\ UNCHANGED <<poolVars, isle, op, guard>>

Acquires(t) == Locks(t) /\ ~poison /\ ~Overflows(t) /\ ~closed

\* take_alive_isle: the topmost live isle; dead ones above it are dropped.
TakeIdle(t) ==
  /\ Acquires(t)
  /\ \E k \in 1 .. Len(idle) :
       /\ IsAlive(idle[k])
       /\ \A m \in k + 1 .. Len(idle) : ~IsAlive(idle[m])
       /\ guard' = [guard EXCEPT ![t] = idle[k]]
       /\ idle' = SubSeq(idle, 1, k - 1)
  /\ active' = active + 1
  /\ Move(t, "holding") /\ ans' = [ans EXCEPT ![t] = "Isle"]
  /\ UNCHANGED <<closed, lock, poison, isle, op>>

\* Nothing idle is alive, so everything idle has been dropped.
NoneAlive == \A k \in 1 .. Len(idle) : ~IsAlive(idle[k])

\* The slot is counted before the mutex is released for the factory call.
StartFactoryUncounted(t) ==
  /\ Acquires(t) /\ NoneAlive
  /\ active < MaxSize
  /\ idle' = <<>>
  /\ Move(t, "factory")
  /\ UNCHANGED <<active, closed, lock, poison, isle, op, guard, ans>>
StartFactoryOneTooMany(t) ==
  /\ Acquires(t) /\ NoneAlive
  /\ active <= MaxSize
  /\ idle' = <<>> /\ active' = active + 1
  /\ Move(t, "factory")
  /\ UNCHANGED <<closed, lock, poison, isle, op, guard, ans>>
StartFactory(t) ==
  /\ Acquires(t) /\ NoneAlive
  /\ active < MaxSize
  /\ idle' = <<>> /\ active' = active + 1
  /\ Move(t, "factory")
  /\ UNCHANGED <<closed, lock, poison, isle, op, guard, ans>>

\* At capacity: wait, give up, or find the deadline passed.
AtCapacity(t) ==
  /\ Acquires(t) /\ NoneAlive
  /\ active >= MaxSize
  /\ idle' = <<>>
  /\ \/ op[t] \in {"checkout", "checkout_timeout"} /\ place[t] # "late"
        /\ Move(t, "waiting") /\ UNCHANGED ans
     \/ op[t] = "try_checkout" /\ Reply(t, "None")
     \/ op[t] = "checkout_timeout" /\ Reply(t, "Timeout")
  /\ UNCHANGED <<active, closed, lock, poison, isle, op, guard>>

\* The condition variable may wake anyone at any time, and does so at the
\* deadline of checkout_timeout.
WakeSpuriously(t) ==
  /\ place[t] = "waiting" /\ Move(t, "woken")
  /\ UNCHANGED <<poolVars, isle, op, guard, ans>>

LateGivesUp(t) ==
  /\ place[t] = "waiting" /\ op[t] = "checkout_timeout"
  /\ Reply(t, "Timeout")
  /\ UNCHANGED <<poolVars, isle, op, guard>>
WakeAtDeadline(t) ==
  /\ place[t] = "waiting" /\ op[t] = "checkout_timeout"
  /\ Move(t, "late")
  /\ UNCHANGED <<poolVars, isle, op, guard, ans>>

-----------------------------------------------------------------------------
(* The factory runs without the mutex.                                     *)

FactoryOk(t) ==
  /\ place[t] = "factory" /\ "ok" \in FactoryOutcomes
  /\ \E i \in Isles :
       /\ isle[i] = "none" \/ (isle[i] = "exited" /\ ~InPool(i))
       /\ isle' = [isle EXCEPT ![i] = "running"]
       /\ guard' = [guard EXCEPT ![t] = i]
  /\ Move(t, "holding") /\ ans' = [ans EXCEPT ![t] = "Isle"]
  /\ UNCHANGED <<poolVars, op>>

FactoryError(t) ==
  /\ place[t] = "factory" /\ "error" \in FactoryOutcomes
  /\ Move(t, "undo")
  /\ UNCHANGED <<poolVars, isle, op, guard, ans>>

\* Unwinding passes no code that would take the slot back.
FactoryPanic(t) ==
  /\ place[t] = "factory" /\ "panic" \in FactoryOutcomes
  /\ Reply(t, "FactoryPanic")
  /\ UNCHANGED <<poolVars, isle, op, guard>>

DecActiveSilently(t) ==
  /\ place[t] = "undo" /\ lock = NoThread
  /\ active' = Decremented
  /\ Move(t, "done")
  /\ ans' = [ans EXCEPT ![t] = "FactoryError"]
  /\ UNCHANGED <<idle, closed, lock, poison, isle, op, guard>>
DecActiveForgotten(t) ==
  /\ place[t] = "undo" /\ lock = NoThread
  /\ NotifyOneAndMove(t, "done")
  /\ ans' = [ans EXCEPT ![t] = "FactoryError"]
  /\ UNCHANGED <<idle, active, closed, lock, poison, isle, op, guard>>
DecActive(t) ==
  /\ place[t] = "undo" /\ lock = NoThread
  /\ active' = Decremented
  /\ NotifyOneAndMove(t, "done")
  /\ ans' = [ans EXCEPT ![t] = "FactoryError"]
  /\ UNCHANGED <<idle, closed, lock, poison, isle, op, guard>>

-----------------------------------------------------------------------------
(* return_isle, from the drop of the guard; poison is ignored.             *)

ReturnDeadSilently(t) ==
  /\ place[t] = "holding" /\ lock = NoThread /\ ~closed
  /\ active' = Decremented
  /\ guard' = [guard EXCEPT ![t] = NoIsle]
  /\ \/ /\ IsAlive(guard[t])
        /\ idle' = Append(idle, guard[t]) /\ NotifyOneAndMove(t, "done")
     \/ ~IsAlive(guard[t]) /\ UNCHANGED idle /\ Move(t, "done")
  /\ UNCHANGED <<closed, lock, poison, isle, op, ans>>
ReturnOpen(t) ==
  /\ place[t] = "holding" /\ lock = NoThread /\ ~closed
  /\ active' = Decremented
  /\ idle' = IF IsAlive(guard[t]) THEN Append(idle, guard[t]) ELSE idle
  /\ guard' = [guard EXCEPT ![t] = NoIsle]
  /\ NotifyOneAndMove(t, "done")
  /\ UNCHANGED <<closed, lock, poison, isle, op, ans>>

Told(i) == [isle EXCEPT ![i] = IF @ = "running" THEN "stopping" ELSE @]

\* On a closed pool the isle is shut down with the mutex held.
ReturnToClosedPool(t) ==
  /\ place[t] = "holding" /\ lock = NoThread /\ closed
  /\ active' = Decremented
  /\ idle' = Append(idle, guard[t])
  /\ guard' = [guard EXCEPT ![t] = NoIsle]
  /\ NotifyOneAndMove(t, "done")
  /\ UNCHANGED <<closed, lock, poison, isle, op, ans>>
ReturnClosed(t) ==
  /\ place[t] = "holding" /\ lock = NoThread /\ closed
  /\ active' = Decremented
  /\ isle' = Told(guard[t])
  /\ lock' = t /\ Move(t, "stopping")
  /\ UNCHANGED <<idle, closed, poison, op, guard, ans>>

ReturnJoined(t) ==
  /\ place[t] = "stopping" /\ isle[guard[t]] = "exited"
  /\ guard' = [guard EXCEPT ![t] = NoIsle]
  /\ lock' = NoThread
  /\ NotifyOneAndMove(t, "done")
  /\ UNCHANGED <<idle, active, closed, poison, isle, op, ans>>

-----------------------------------------------------------------------------
(* shutdown: idle isles are told to stop and joined one after another.     *)

ShutStart(t) ==
  /\ place[t] = "locking" /\ op[t] = "shutdown" /\ lock = NoThread
  /\ closed' = TRUE /\ lock' = t
  /\ Move(t, "draining")
  /\ UNCHANGED <<idle, active, poison, isle, op, guard, ans>>

ShutTell(t) ==
  /\ place[t] = "draining" /\ idle # <<>> /\ isle[Head(idle)] = "running"
  /\ isle' = Told(Head(idle))
  /\ UNCHANGED <<poolVars, userVars>>

ShutJoin(t) ==
  /\ place[t] = "draining" /\ idle # <<>> /\ isle[Head(idle)] = "exited"
  /\ idle' = Tail(idle)
  /\ UNCHANGED <<active, closed, lock, poison, isle, userVars>>

ShutEnd(t) ==
  /\ place[t] = "draining" /\ idle = <<>>
  /\ lock' = NoThread
  /\ place' = [u \in Threads |-> IF u = t THEN "done"
                                 ELSE IF place[u] = "waiting" THEN "woken"
                                 ELSE place[u]]
  /\ ans' = [ans EXCEPT ![t] = "unit"]
  /\ UNCHANGED <<idle, active, closed, poison, isle, op, guard>>

-----------------------------------------------------------------------------
(* The isles' threads.                                                     *)

\* A failed health check, or shutdown() through the guard: also long after
\* the guard is gone, since tasks outlive it.
IsleDies(i) ==
  /\ isle[i] = "running"
  /\ isle' = [isle EXCEPT ![i] = "exited"]
  /\ UNCHANGED <<poolVars, userVars>>

\* The queue of a stopping isle is drained.
IsleStops(i) ==
  /\ isle[i] = "stopping"
  /\ isle' = [isle EXCEPT ![i] = "exited"]
  /\ UNCHANGED <<poolVars, userVars>>

-----------------------------------------------------------------------------
CheckoutStep(t) ==
  \/ OverlongDeadline(t) \/ FindPoisoned(t) \/ FindClosed(t)
  \/ TakeIdle(t) \/ StartFactory(t) \/ AtCapacity(t)
  \/ FactoryOk(t) \/ FactoryError(t) \/ FactoryPanic(t) \/ DecActive(t)

ReturnStep(t) == ReturnOpen(t) \/ ReturnClosed(t) \/ ReturnJoined(t)
ShutStep(t) == ShutStart(t) \/ ShutTell(t) \/ ShutJoin(t) \/ ShutEnd(t)

Next ==
  \/ \E t \in Threads :
       \/ \E o \in Ops : Call(t, o)
       \/ CheckoutStep(t) \/ ReturnStep(t) \/ ShutStep(t)
       \/ WakeSpuriously(t) \/ WakeAtDeadline(t)
  \/ \E i \in Isles : IsleDies(i) \/ IsleStops(i)

Spec == Init /\ [][Next]_vars

\* Threads are scheduled and give back what they hold, a deadline passes, and
\* an isle told to stop drains its queue.  Nothing is asked of spurious
\* wake-ups, of isles dying, or of the mutex beyond its being given away.
Fairness ==
  /\ \A t \in Threads :
       /\ WF_vars(CheckoutStep(t)) /\ WF_vars(ReturnStep(t))
       /\ WF_vars(ShutStep(t)) /\ WF_vars(WakeAtDeadline(t))
  /\ \A i \in Isles : WF_vars(IsleStops(i))

FairSpec == Spec /\ Fairness

-----------------------------------------------------------------------------
(* The leases of the pool's users.                                         *)

Held == [t \in Threads |-> IF place[t] = "holding" THEN guard[t] ELSE NoIsle]
Spare == {idle[k] : k \in 1 .. Len(idle)}
Alive == {i \in Isles : isle[i] \in {"running", "stopping"}}
Making == At("factory") \cup At("undo")
Lost == {t \in Threads : ans[t] = "FactoryPanic"}

Leases == INSTANCE PoolLeases
  WITH open <- ~closed, making <- Making, lost <- Lost,
       held <- Held, spare <- Spare, alive <- Alive

-----------------------------------------------------------------------------
(* Properties.                                                             *)

PoolTypeOK ==
  /\ idle \in Seq(Isles) /\ active \in 0 .. MaxSize
  /\ closed \in BOOLEAN /\ poison \in BOOLEAN
  /\ lock \in Threads \cup {NoThread}
  /\ isle \in [Isles -> {"none", "running", "stopping", "exited"}]
  /\ op \in [Threads -> Ops \cup {"none"}]
  /\ place \in [Threads -> Places]
  /\ guard \in [Threads -> Isles \cup {NoIsle}]
  /\ ans \in [Threads -> Replies]

\* PoolConfig: at most max_size isles exist at once, counting every thread that
\* has not exited, whoever still holds it or waits for it to drain.
LiveBound ==
  Cardinality({i \in Isles : isle[i] \in {"running", "stopping"}}) <= MaxSize

\* PoolInner.active counts the isles checked out and the factory calls under
\* way, and for ever those that panicked: no other path, whatever errors and
\* shutdowns it meets, keeps a slot or gives one back twice.
Occupied == At("factory") \cup At("undo") \cup At("holding")
SlotsAccounted ==
  active = Cardinality(Occupied \cup {t \in Threads : ans[t] = "FactoryPanic"})

\* PoolInner.active's comment: the number of isles currently checked out, here
\* with those the factory is making.
ActiveIsExact == active = Cardinality(Occupied)

\* try_checkout says None, and checkout_timeout Timeout, only while no live isle
\* is idle and every slot is in use (or was lost to a factory that panicked):
\* whatever was given back, or died, while the deadline passed.
RefusedOnlyWhenFull ==
  [][\A t \in Threads :
       ans[t] = "none" /\ ans'[t] \in {"None", "Timeout"}
       => /\ Spare \cap Alive = {}
          /\ Cardinality(Occupied \cup Lost) = MaxSize]_vars

\* Whoever waits does so because all slots are taken, but for those that as
\* many woken threads are on their way to: no notification is lost to a
\* timeout, a barging thread, a dead isle or a factory error.  In a closed pool
\* threads wait only until the shutdown that holds the mutex wakes them all.
NoLostWakeup ==
  At("waiting") # {} =>
    /\ closed => lock \in At("draining")
    /\ ~closed /\ ~poison
         => MaxSize - active <= Cardinality(At("woken") \cup At("late"))

\* With its counter, its mutex released for the factory, and isles that die at
\* any time, the pool leases its isles as PoolLeases says.
ImplementsLeases == Leases!LeaseSpec

\* Every call returns: waiting threads are woken, by a returned isle, by a slot
\* given back or by shutdown, and joins under the mutex come to an end.
CallsReturn ==
  \A t \in Threads :
    place[t] \notin {"idle", "done", "holding"}
      ~> place[t] \in {"holding", "done"}

\* After shutdown every isle exits, those whose guards were out, and those the
\* factory was still making, as well.
ShutdownStopsAll ==
  closed ~> [](\A i \in Isles : isle[i] \in {"none", "exited"})

=============================================================================
