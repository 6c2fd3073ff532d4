--------------------------- MODULE IslePoolProofs ---------------------------
(***************************************************************************)
(* What TLAPS proves of the pool, for every number of threads, every size  *)
(* and every outcome of the factory: slots are accounted for exactly, no   *)
(* isle is in two places, at most MaxSize isles live, and no notification  *)
(* is lost.                                                                *)
(***************************************************************************)
EXTENDS IslePool, FiniteSetTheorems, TLAPS

-----------------------------------------------------------------------------
(* The inductive invariant.                                                *)

\* PoolTypeOK, but for the flags and the bound on active.
Types ==
  /\ idle \in Seq(Isles) /\ active \in Nat
  /\ lock \in Threads \cup {NoThread}
  /\ isle \in [Isles -> {"none", "running", "stopping", "exited"}]
  /\ op \in [Threads -> Ops \cup {"none"}]
  /\ place \in [Threads -> Places]
  /\ guard \in [Threads -> Isles \cup {NoIsle}]
  /\ ans \in [Threads -> Replies]

\* Who has an isle in hand, who keeps the mutex, whose factory panicked.
PlaceInv ==
  \A t \in Threads :
    /\ guard[t] # NoIsle <=> place[t] \in {"holding", "stopping"}
    /\ place[t] \in {"stopping", "draining"} => lock = t
    /\ ans[t] = "FactoryPanic" => place[t] = "done"

\* An isle whose thread has not exited is in the pool; an isle in the pool has
\* been made.
IsleInv ==
  \A i \in Isles :
    /\ isle[i] \in {"running", "stopping"} => InPool(i)
    /\ InPool(i) => isle[i] # "none"

\* Isles are moved, never copied: what the ownership of an Isle gives, and the
\* counting below needs.
Exclusive ==
  /\ \A t, u \in Threads : guard[t] = guard[u] /\ guard[t] # NoIsle => t = u
  /\ \A k \in 1 .. Len(idle) :
       /\ \A t \in Threads : guard[t] # idle[k]
       /\ \A m \in 1 .. Len(idle) : idle[m] = idle[k] => m = k

Flags == closed \in BOOLEAN /\ poison \in BOOLEAN

PoolInv == Types /\ Flags /\ PlaceInv /\ IsleInv /\ Exclusive

-----------------------------------------------------------------------------
(* notify_one.                                                             *)

\* notify_one moves one waiting thread to "woken" if there is one, and nobody
\* else but the notifier.
LEMMA NotifyMoves ==
  ASSUME place \in [Threads -> Places], NEW t \in Threads, NEW p \in Places,
         place[t] # "waiting", NotifyOneAndMove(t, p)
  PROVE  /\ place' \in [Threads -> Places]
         /\ place'[t] = p
         /\ \A u \in Threads \ {t} :
              \/ place'[u] = place[u]
              \/ place[u] = "waiting" /\ place'[u] = "woken"
         /\ \/ At("waiting") = {}
            \/ \E w \in At("waiting") :
                 place' = [place EXCEPT ![w] = "woken", ![t] = p]
<1>1. "woken" \in Places
  BY DEF Places
<1>q. QED
  BY <1>1 DEF NotifyOneAndMove, Move, At

-----------------------------------------------------------------------------
(* Types.                                                                  *)

LEMMA FlagsStep == Flags /\ [Next]_vars => Flags'
<1> SUFFICES ASSUME Flags, [Next]_vars
             PROVE  Flags'
  OBVIOUS
<1> USE DEF Flags
<1>1. ASSUME NEW t \in Threads, CheckoutStep(t)
      PROVE  Flags'
  BY <1>1, Zenon
     DEF CheckoutStep, OverlongDeadline, FindPoisoned, FindClosed, TakeIdle,
         StartFactory, AtCapacity, FactoryOk, FactoryError, FactoryPanic,
         DecActive, poolVars
<1>2. ASSUME NEW t \in Threads, ReturnStep(t)
      PROVE  Flags'
  BY <1>2, Zenon DEF ReturnStep, ReturnOpen, ReturnClosed, ReturnJoined
<1>3. ASSUME NEW t \in Threads, ShutStep(t)
      PROVE  Flags'
  BY <1>3, Zenon DEF ShutStep, ShutStart, ShutTell, ShutJoin, ShutEnd, poolVars
<1>4. ASSUME NEW t \in Threads,
             (\E o \in Ops : Call(t, o))
             \/ WakeSpuriously(t) \/ WakeAtDeadline(t)
      PROVE  Flags'
  BY <1>4, Zenon DEF Call, WakeSpuriously, WakeAtDeadline, poolVars
<1>5. ASSUME NEW i \in Isles, IsleDies(i) \/ IsleStops(i)
      PROVE  Flags'
  BY <1>5, Zenon DEF IsleDies, IsleStops, poolVars
<1>6. CASE UNCHANGED vars
  BY <1>6, Zenon DEF vars, poolVars
<1>q. QED
  BY <1>1, <1>2, <1>3, <1>4, <1>5, <1>6, Zenon DEF Next

LEMMA TypesStep == Types /\ PlaceInv /\ [Next]_vars => Types'
<1> SUFFICES ASSUME Types, PlaceInv, [Next]_vars
             PROVE  Types'
  OBVIOUS
<1> USE DEF Types
<1>1. ASSUME NEW t \in Threads, \E o \in Ops : Call(t, o)
      PROVE  Types'
  BY <1>1 DEF Call, Move, poolVars, Places
<1>2. ASSUME NEW t \in Threads,
             OverlongDeadline(t) \/ FindPoisoned(t) \/ FindClosed(t)
      PROVE  Types'
  BY <1>2 DEF OverlongDeadline, FindPoisoned, FindClosed, Reply, poolVars,
              Places, Replies
<1>3. ASSUME NEW t \in Threads, TakeIdle(t)
      PROVE  Types'
  BY <1>3 DEF TakeIdle, Move, Places, Replies
<1>4. ASSUME NEW t \in Threads, StartFactory(t)
      PROVE  Types'
  BY <1>4 DEF StartFactory, Move, Places
<1>5. ASSUME NEW t \in Threads, AtCapacity(t)
      PROVE  Types'
  BY <1>5 DEF AtCapacity, Move, Reply, Places, Replies
<1>6. ASSUME NEW t \in Threads,
             FactoryOk(t) \/ FactoryError(t) \/ FactoryPanic(t)
      PROVE  Types'
  <2>1. CASE FactoryOk(t)
    <3>1. /\ isle' \in [Isles -> {"none", "running", "stopping", "exited"}]
          /\ guard' \in [Threads -> Isles \cup {NoIsle}]
      BY <2>1 DEF FactoryOk
    <3>2. /\ place' \in [Threads -> Places]
          /\ ans' \in [Threads -> Replies]
      BY <2>1 DEF FactoryOk, Move, Places, Replies
    <3>q. QED
      BY <2>1, <3>1, <3>2 DEF FactoryOk, poolVars
  <2>2. CASE FactoryError(t)
    BY <2>2 DEF FactoryError, Move, Places, poolVars
  <2>3. CASE FactoryPanic(t)
    BY <2>3 DEF FactoryPanic, Reply, Places, Replies, poolVars
  <2>q. QED
    BY <1>6, <2>1, <2>2, <2>3
<1>7. ASSUME NEW t \in Threads,
             DecActive(t) \/ ReturnOpen(t) \/ ReturnJoined(t)
      PROVE  Types'
  <2>1. /\ place[t] # "waiting" /\ NotifyOneAndMove(t, "done")
        /\ "done" \in Places
    BY <1>7 DEF DecActive, ReturnOpen, ReturnJoined, Places
  <2>2. place' \in [Threads -> Places]
    BY <2>1, NotifyMoves
  <2>3. Decremented \in Nat
    BY DEF Decremented
  <2>4. CASE ReturnOpen(t)
    <3>1. guard[t] \in Isles
      BY <2>4 DEF ReturnOpen, PlaceInv
    <3>2. idle' \in Seq(Isles)
      BY <2>4, <3>1 DEF ReturnOpen
    <3>q. QED
      BY <2>2, <2>3, <2>4, <3>2 DEF ReturnOpen
  <2>5. CASE DecActive(t)
    BY <2>2, <2>3, <2>5 DEF DecActive, Replies
  <2>6. CASE ReturnJoined(t)
    BY <2>2, <2>6 DEF ReturnJoined
  <2>q. QED
    BY <1>7, <2>4, <2>5, <2>6
<1>8. ASSUME NEW t \in Threads, ReturnClosed(t)
      PROVE  Types'
  <2>1. Decremented \in Nat
    BY DEF Decremented
  <2>q. QED
    BY <1>8, <2>1 DEF ReturnClosed, Told, Move, Places
<1>9. ASSUME NEW t \in Threads,
             ShutStart(t) \/ ShutTell(t) \/ ShutJoin(t) \/ ShutEnd(t)
      PROVE  Types'
  <2>1. CASE ShutStart(t)
    BY <2>1 DEF ShutStart, Move, Places
  <2>2. CASE ShutTell(t)
    BY <2>2 DEF ShutTell, Told, poolVars, userVars
  <2>3. CASE ShutJoin(t)
    BY <2>3 DEF ShutJoin, userVars
  <2>4. CASE ShutEnd(t)
    BY <2>4 DEF ShutEnd, Places, Replies
  <2>q. QED
    BY <1>9, <2>1, <2>2, <2>3, <2>4
<1>10. ASSUME NEW t \in Threads, WakeSpuriously(t) \/ WakeAtDeadline(t)
      PROVE  Types'
  BY <1>10 DEF WakeSpuriously, WakeAtDeadline, Move, Places, poolVars
<1>11. ASSUME NEW i \in Isles, IsleDies(i) \/ IsleStops(i)
      PROVE  Types'
  BY <1>11 DEF IsleDies, IsleStops, poolVars, userVars
<1>12. CASE UNCHANGED vars
  BY <1>12 DEF vars, poolVars, userVars
<1>q. QED
  BY <1>1, <1>2, <1>3, <1>4, <1>5, <1>6, <1>7, <1>8, <1>9, <1>10, <1>11, <1>12
     DEF Next, CheckoutStep, ReturnStep, ShutStep

-----------------------------------------------------------------------------
(* Guards, mutex and isles.                                                *)

LEMMA PlaceInvStep == Types /\ PlaceInv /\ [Next]_vars => PlaceInv'
<1> SUFFICES ASSUME Types, PlaceInv, [Next]_vars
             PROVE  PlaceInv'
  OBVIOUS
<1> USE PoolAssumption DEF Types, PlaceInv
<1>1. ASSUME NEW t \in Threads, \E o \in Ops : Call(t, o)
      PROVE  PlaceInv'
  BY <1>1 DEF Call, Move, poolVars
<1>2. ASSUME NEW t \in Threads,
             OverlongDeadline(t) \/ FindPoisoned(t) \/ FindClosed(t)
      PROVE  PlaceInv'
  BY <1>2 DEF OverlongDeadline, FindPoisoned, FindClosed, Locks, Reply,
              poolVars
<1>3. ASSUME NEW t \in Threads, TakeIdle(t)
      PROVE  PlaceInv'
  <2>1. PICK k \in 1 .. Len(idle) : guard' = [guard EXCEPT ![t] = idle[k]]
    BY <1>3 DEF TakeIdle
  <2>q. QED
    BY <1>3, <2>1 DEF TakeIdle, Acquires, Locks, Move
<1>4. ASSUME NEW t \in Threads, StartFactory(t)
      PROVE  PlaceInv'
  BY <1>4 DEF StartFactory, Acquires, Locks, Move
<1>5. ASSUME NEW t \in Threads, AtCapacity(t)
      PROVE  PlaceInv'
  BY <1>5 DEF AtCapacity, Acquires, Locks, Move, Reply
<1>6. ASSUME NEW t \in Threads,
             FactoryOk(t) \/ FactoryError(t) \/ FactoryPanic(t)
      PROVE  PlaceInv'
  BY <1>6 DEF FactoryOk, FactoryError, FactoryPanic, Move, Reply, poolVars
<1>7. ASSUME NEW t \in Threads,
             DecActive(t) \/ ReturnOpen(t) \/ ReturnJoined(t)
      PROVE  PlaceInv'
  <2>1. /\ place[t] # "waiting" /\ NotifyOneAndMove(t, "done")
        /\ "done" \in Places
    BY <1>7 DEF DecActive, ReturnOpen, ReturnJoined, Places
  <2>2. /\ place'[t] = "done"
        /\ \A u \in Threads \ {t} :
             \/ place'[u] = place[u]
             \/ place[u] = "waiting" /\ place'[u] = "woken"
    BY <2>1, NotifyMoves
  <2>3. CASE DecActive(t)
    BY <2>2, <2>3 DEF DecActive
  <2>4. CASE ReturnOpen(t)
    BY <2>2, <2>4 DEF ReturnOpen
  <2>5. CASE ReturnJoined(t)
    BY <2>2, <2>5 DEF ReturnJoined
  <2>q. QED
    BY <1>7, <2>3, <2>4, <2>5
<1>8. ASSUME NEW t \in Threads, ReturnClosed(t)
      PROVE  PlaceInv'
  BY <1>8 DEF ReturnClosed, Move
<1>9. ASSUME NEW t \in Threads,
             ShutStart(t) \/ ShutTell(t) \/ ShutJoin(t) \/ ShutEnd(t)
      PROVE  PlaceInv'
  <2>1. CASE ShutStart(t)
    BY <2>1 DEF ShutStart, Move
  <2>2. CASE ShutTell(t) \/ ShutJoin(t)
    BY <2>2 DEF ShutTell, ShutJoin, poolVars, userVars
  <2>3. CASE ShutEnd(t)
    BY <2>3 DEF ShutEnd
  <2>q. QED
    BY <1>9, <2>1, <2>2, <2>3
<1>10. ASSUME NEW t \in Threads, WakeSpuriously(t) \/ WakeAtDeadline(t)
      PROVE  PlaceInv'
  BY <1>10 DEF WakeSpuriously, WakeAtDeadline, Move, poolVars
<1>11. ASSUME NEW i \in Isles, IsleDies(i) \/ IsleStops(i)
      PROVE  PlaceInv'
  BY <1>11 DEF IsleDies, IsleStops, poolVars, userVars
<1>12. CASE UNCHANGED vars
  BY <1>12 DEF vars, poolVars, userVars
<1>q. QED
  BY <1>1, <1>2, <1>3, <1>4, <1>5, <1>6, <1>7, <1>8, <1>9, <1>10, <1>11, <1>12
     DEF Next, CheckoutStep, ReturnStep, ShutStep

\* A step changes idle, guards or isles in one of few ways.
LEMMA IsleInvStep ==
  Types /\ PlaceInv /\ IsleInv /\ [Next]_vars => IsleInv'
<1> SUFFICES ASSUME Types, PlaceInv, IsleInv, [Next]_vars,
                    NEW i \in Isles
             PROVE  /\ isle'[i] \in {"running", "stopping"} => InPool(i)'
                    /\ InPool(i)' => isle'[i] # "none"
  BY DEF IsleInv
<1> USE PoolAssumption DEF Types, PlaceInv, IsleInv, InPool
<1> DEFINE Kept == UNCHANGED <<idle, guard, isle>>
           Goal == /\ isle'[i] \in {"running", "stopping"} => InPool(i)'
                   /\ InPool(i)' => isle'[i] # "none"
<1>1. CASE Kept
  BY <1>1
<1>2. ASSUME NEW t \in Threads,
             \/ \E o \in Ops : Call(t, o)
             \/ OverlongDeadline(t) \/ FindPoisoned(t) \/ FindClosed(t)
             \/ FactoryError(t) \/ FactoryPanic(t) \/ DecActive(t)
             \/ ShutStart(t) \/ ShutEnd(t)
             \/ WakeSpuriously(t) \/ WakeAtDeadline(t)
      PROVE  Kept
  BY <1>2 DEF Call, OverlongDeadline, FindPoisoned, FindClosed, FactoryError,
              FactoryPanic, DecActive, ShutStart, ShutEnd, WakeSpuriously,
              WakeAtDeadline, poolVars
<1>3. ASSUME NEW t \in Threads, TakeIdle(t)
      PROVE  Goal
  <2>1. PICK k \in 1 .. Len(idle) :
          /\ IsAlive(idle[k])
          /\ \A m \in k + 1 .. Len(idle) : ~IsAlive(idle[m])
          /\ guard' = [guard EXCEPT ![t] = idle[k]]
          /\ idle' = SubSeq(idle, 1, k - 1)
    BY <1>3 DEF TakeIdle
  <2>2. /\ Len(idle') = k - 1
        /\ \A m \in 1 .. k - 1 : idle'[m] = idle[m]
    BY <2>1
  <2>3. guard[t] = NoIsle /\ isle' = isle
    BY <1>3 DEF TakeIdle, Acquires, Locks
  <2>4. ASSUME isle[i] \in {"running", "stopping"}
        PROVE  InPool(i)'
    <3>1. CASE \E m \in 1 .. Len(idle) : idle[m] = i
      <4>1. PICK m \in 1 .. Len(idle) : idle[m] = i
        BY <3>1
      <4>2. m <= k
        BY <2>1, <2>4, <4>1 DEF IsAlive
      <4>q. QED
        BY <2>1, <2>2, <4>1, <4>2
    <3>2. CASE \E u \in Threads : guard[u] = i
      BY <2>1, <2>3, <3>2
    <3>q. QED
      BY <2>4, <3>1, <3>2
  <2>5. InPool(i)' => InPool(i)
    BY <2>1, <2>2
  <2>q. QED
    BY <2>3, <2>4, <2>5
<1>4. ASSUME NEW t \in Threads, StartFactory(t) \/ AtCapacity(t)
      PROVE  Goal
  <2>1. /\ idle' = <<>> /\ UNCHANGED <<guard, isle>>
        /\ \A k \in 1 .. Len(idle) : isle[idle[k]] = "exited"
    BY <1>4 DEF StartFactory, AtCapacity, NoneAlive, IsAlive
  <2>q. QED
    BY <2>1
<1>5. ASSUME NEW t \in Threads, FactoryOk(t)
      PROVE  Goal
  <2>1. PICK h \in Isles :
          /\ isle' = [isle EXCEPT ![h] = "running"]
          /\ guard' = [guard EXCEPT ![t] = h]
    BY <1>5 DEF FactoryOk
  <2>2. guard[t] = NoIsle /\ idle' = idle
    BY <1>5 DEF FactoryOk, poolVars
  <2>q. QED
    BY <2>1, <2>2
<1>6. ASSUME NEW t \in Threads, ReturnOpen(t)
      PROVE  Goal
  <2>1. /\ guard[t] \in Isles /\ isle' = isle
        /\ guard' = [guard EXCEPT ![t] = NoIsle]
    BY <1>6 DEF ReturnOpen
  <2>2. CASE IsAlive(guard[t])
    <3>1. /\ Len(idle') = Len(idle) + 1
          /\ \A k \in 1 .. Len(idle) : idle'[k] = idle[k]
          /\ idle'[Len(idle) + 1] = guard[t]
      BY <1>6, <2>1, <2>2 DEF ReturnOpen
    <3>2. InPool(i)' => InPool(i)
      <4>1. ASSUME NEW k \in 1 .. Len(idle'), idle'[k] = i
            PROVE  InPool(i)
        <5>1. CASE k \in 1 .. Len(idle)
          BY <3>1, <4>1, <5>1
        <5>2. CASE k = Len(idle) + 1
          BY <2>1, <3>1, <4>1, <5>2
        <5>q. QED
          BY <3>1, <4>1, <5>1, <5>2
      <4>2. ASSUME NEW u \in Threads, guard'[u] = i
            PROVE  InPool(i)
        BY <2>1, <4>2
      <4>q. QED
        BY <4>1, <4>2
    <3>3. InPool(i) => InPool(i)'
      BY <2>1, <3>1
    <3>q. QED
      BY <2>1, <3>2, <3>3
  <2>3. CASE ~IsAlive(guard[t])
    <3>1. idle' = idle /\ isle[guard[t]] = "exited"
      BY <1>6, <2>3 DEF ReturnOpen, IsAlive
    <3>q. QED
      BY <2>1, <3>1
  <2>q. QED
    BY <2>2, <2>3
<1>7. ASSUME NEW t \in Threads, ReturnClosed(t)
      PROVE  Goal
  BY <1>7 DEF ReturnClosed, Told
<1>8. ASSUME NEW t \in Threads, ReturnJoined(t)
      PROVE  Goal
  BY <1>8 DEF ReturnJoined
<1>9. ASSUME NEW t \in Threads, ShutTell(t)
      PROVE  Goal
  BY <1>9 DEF ShutTell, Told, poolVars, userVars
<1>10. ASSUME NEW t \in Threads, ShutJoin(t)
      PROVE  Goal
  <2>1. /\ idle # <<>> /\ isle[Head(idle)] = "exited" /\ idle' = Tail(idle)
        /\ UNCHANGED <<isle, guard>>
    BY <1>10 DEF ShutJoin, userVars
  <2>2. /\ Len(idle') = Len(idle) - 1
        /\ \A k \in 1 .. Len(idle) - 1 : idle'[k] = idle[k + 1]
        /\ Head(idle) = idle[1]
    BY <2>1
  <2>3. ASSUME NEW k \in 1 .. Len(idle), idle[k] = i, isle[i] # "exited"
        PROVE  InPool(i)'
    <3>1. k - 1 \in 1 .. Len(idle')
      BY <2>1, <2>2, <2>3
    <3>2. idle'[k - 1] = i
      BY <2>2, <2>3, <3>1
    <3>q. QED
      BY <3>1, <3>2
  <2>4. InPool(i)' => InPool(i)
    BY <2>1, <2>2
  <2>q. QED
    BY <2>1, <2>3, <2>4
<1>11. ASSUME NEW h \in Isles, IsleDies(h) \/ IsleStops(h)
      PROVE  Goal
  BY <1>11 DEF IsleDies, IsleStops, poolVars, userVars
<1>12. UNCHANGED vars => Kept
  BY DEF vars, poolVars, userVars
<1>q. QED
  BY <1>1, <1>2, <1>3, <1>4, <1>5, <1>6, <1>7, <1>8, <1>9, <1>10, <1>11, <1>12
     DEF Next, CheckoutStep, ReturnStep, ShutStep

\* What each step may do with the isles that idle and the guards name.
LEMMA ExclusiveStep ==
  Types /\ PlaceInv /\ IsleInv /\ Exclusive /\ [Next]_vars => Exclusive'
<1> SUFFICES ASSUME Types, PlaceInv, IsleInv, Exclusive, [Next]_vars
             PROVE  Exclusive'
  OBVIOUS
<1> USE PoolAssumption DEF Types, PlaceInv, Exclusive
<1> DEFINE Kept == UNCHANGED <<idle, guard>>
<1>1. CASE Kept
  BY <1>1
<1>2. ASSUME NEW t \in Threads,
             \/ \E o \in Ops : Call(t, o)
             \/ OverlongDeadline(t) \/ FindPoisoned(t) \/ FindClosed(t)
             \/ FactoryError(t) \/ FactoryPanic(t) \/ DecActive(t)
             \/ ReturnClosed(t)
             \/ ShutStart(t) \/ ShutTell(t) \/ ShutEnd(t)
             \/ WakeSpuriously(t) \/ WakeAtDeadline(t)
      PROVE  Kept
  BY <1>2 DEF Call, OverlongDeadline, FindPoisoned, FindClosed, FactoryError,
              FactoryPanic, DecActive, ReturnClosed, ShutStart, ShutTell,
              ShutEnd, WakeSpuriously, WakeAtDeadline, poolVars, userVars
<1>3. ASSUME NEW t \in Threads, TakeIdle(t)
      PROVE  Exclusive'
  <2>1. PICK k \in 1 .. Len(idle) :
          /\ guard' = [guard EXCEPT ![t] = idle[k]]
          /\ idle' = SubSeq(idle, 1, k - 1)
    BY <1>3 DEF TakeIdle
  <2>2. /\ Len(idle') = k - 1
        /\ \A m \in 1 .. k - 1 : idle'[m] = idle[m]
    BY <2>1
  <2>q. QED
    BY <2>1, <2>2
<1>4. ASSUME NEW t \in Threads, StartFactory(t) \/ AtCapacity(t)
      PROVE  Exclusive'
  BY <1>4 DEF StartFactory, AtCapacity
<1>5. ASSUME NEW t \in Threads, FactoryOk(t)
      PROVE  Exclusive'
  <2>1. PICK h \in Isles :
          /\ isle[h] = "none" \/ (isle[h] = "exited" /\ ~InPool(h))
          /\ guard' = [guard EXCEPT ![t] = h]
    BY <1>5 DEF FactoryOk
  <2>2. ~InPool(h)
    BY <2>1 DEF IsleInv
  <2>3. idle' = idle
    BY <1>5 DEF FactoryOk, poolVars
  <2>q. QED
    BY <2>1, <2>2, <2>3 DEF InPool
<1>6. ASSUME NEW t \in Threads, ReturnOpen(t)
      PROVE  Exclusive'
  <2>1. /\ guard[t] \in Isles
        /\ guard' = [guard EXCEPT ![t] = NoIsle]
    BY <1>6 DEF ReturnOpen
  <2>2. CASE IsAlive(guard[t])
    <3>1. /\ Len(idle') = Len(idle) + 1
          /\ \A k \in 1 .. Len(idle) : idle'[k] = idle[k]
          /\ idle'[Len(idle) + 1] = guard[t]
      BY <1>6, <2>1, <2>2 DEF ReturnOpen
    <3>2. \A u, v \in Threads :
            guard'[u] = guard'[v] /\ guard'[u] # NoIsle => u = v
      BY <2>1
    <3>3. ASSUME NEW k \in 1 .. Len(idle) + 1, NEW u \in Threads
          PROVE  guard'[u] # idle'[k]
      <4>1. CASE k \in 1 .. Len(idle)
        BY <2>1, <3>1, <4>1
      <4>2. CASE k = Len(idle) + 1
        BY <2>1, <3>1, <4>2
      <4>q. QED
        BY <4>1, <4>2
    <3>4. ASSUME NEW k \in 1 .. Len(idle) + 1, NEW m \in 1 .. Len(idle) + 1,
                 idle'[m] = idle'[k]
          PROVE  m = k
      <4>1. CASE k \in 1 .. Len(idle) /\ m \in 1 .. Len(idle)
        BY <3>1, <3>4, <4>1
      <4>2. CASE k = Len(idle) + 1 \/ m = Len(idle) + 1
        BY <3>1, <3>4, <4>2
      <4>q. QED
        BY <4>1, <4>2
    <3>q. QED
      BY <3>1, <3>2, <3>3, <3>4
  <2>3. CASE ~IsAlive(guard[t])
    <3>1. idle' = idle
      BY <1>6, <2>3 DEF ReturnOpen
    <3>q. QED
      BY <2>1, <3>1
  <2>q. QED
    BY <2>2, <2>3
<1>7. ASSUME NEW t \in Threads, ReturnJoined(t)
      PROVE  Exclusive'
  BY <1>7 DEF ReturnJoined
<1>8. ASSUME NEW t \in Threads, ShutJoin(t)
      PROVE  Exclusive'
  <2>1. idle # <<>> /\ idle' = Tail(idle) /\ guard' = guard
    BY <1>8 DEF ShutJoin, userVars
  <2>2. /\ Len(idle') = Len(idle) - 1
        /\ \A k \in 1 .. Len(idle) - 1 : idle'[k] = idle[k + 1]
    BY <2>1
  <2>3. \A k, m \in 1 .. Len(idle') : idle'[m] = idle'[k] => m = k
    <3> SUFFICES ASSUME NEW k \in 1 .. Len(idle'), NEW m \in 1 .. Len(idle'),
                        idle'[m] = idle'[k]
                 PROVE  m = k
      OBVIOUS
    <3>1. /\ k + 1 \in 1 .. Len(idle) /\ m + 1 \in 1 .. Len(idle)
          /\ idle[m + 1] = idle[k + 1]
      BY <2>1, <2>2
    <3>2. m + 1 = k + 1
      BY <3>1
    <3>q. QED
      BY <2>1, <3>2
  <2>4. \A k \in 1 .. Len(idle'), u \in Threads : guard'[u] # idle'[k]
    BY <2>1, <2>2
  <2>q. QED
    BY <2>1, <2>3, <2>4
<1>9. ASSUME NEW i \in Isles, IsleDies(i) \/ IsleStops(i)
      PROVE  Kept
  BY <1>9 DEF IsleDies, IsleStops, poolVars, userVars
<1>10. UNCHANGED vars => Kept
  BY DEF vars, poolVars, userVars
<1>q. QED
  BY <1>1, <1>2, <1>3, <1>4, <1>5, <1>6, <1>7, <1>8, <1>9, <1>10
     DEF Next, CheckoutStep, ReturnStep, ShutStep

LEMMA PoolInvariant == Spec => []PoolInv
<1>1. Init => PoolInv
  <2> SUFFICES ASSUME Init
               PROVE  PoolInv
    OBVIOUS
  <2>1. Flags
    BY Zenon DEF Init, Flags
  <2>2. Types /\ PlaceInv
    BY PoolAssumption DEF Init, Types, PlaceInv, Places, Replies
  <2>3. IsleInv /\ Exclusive
    BY PoolAssumption DEF Init, IsleInv, InPool, Exclusive
  <2>q. QED
    BY <2>1, <2>2, <2>3 DEF PoolInv
<1>2. PoolInv /\ [Next]_vars => PoolInv'
  BY FlagsStep, TypesStep, PlaceInvStep, IsleInvStep, ExclusiveStep DEF PoolInv
<1>q. QED
  BY <1>1, <1>2, PTL DEF Spec

-----------------------------------------------------------------------------
(* Slots.                                                                  *)

\* The threads that active counts.
Slots == Occupied \cup {t \in Threads : ans[t] = "FactoryPanic"}

LEMMA SlotsFinite == IsFiniteSet(Slots) /\ Cardinality(Slots) \in Nat
<1>1. Slots \in SUBSET Threads
  BY DEF Slots, Occupied, At
<1>q. QED
  BY <1>1, PoolAssumption, FS_Subset, FS_CardinalityType

\* Each step takes one slot, gives one back, or leaves the slots alone, and
\* active follows.
LEMMA SlotsStep ==
  Types /\ PlaceInv /\ SlotsAccounted /\ [Next]_vars => SlotsAccounted'
<1> SUFFICES ASSUME Types, PlaceInv, SlotsAccounted, [Next]_vars
             PROVE  active' = Cardinality(Slots')
  BY DEF SlotsAccounted, Slots
<1>0. active = Cardinality(Slots)
  BY DEF SlotsAccounted, Slots
<1> USE DEF Types, PlaceInv
<1> DEFINE Kept == Slots' = Slots /\ active' = active
           Taken(t) == t \notin Slots /\ Slots' = Slots \cup {t}
                       /\ active' = active + 1
           Given(t) == t \in Slots /\ Slots' = Slots \ {t}
                       /\ active' = Decremented
<1>1. CASE Kept
  BY <1>0, <1>1
<1>2. ASSUME NEW t \in Threads, Taken(t)
      PROVE  active' = Cardinality(Slots')
  BY <1>0, <1>2, SlotsFinite, FS_AddElement
<1>3. ASSUME NEW t \in Threads, Given(t)
      PROVE  active' = Cardinality(Slots')
  <2>1. Cardinality(Slots') = Cardinality(Slots) - 1
    BY <1>3, SlotsFinite, FS_RemoveElement
  <2>2. Slots # {}
    BY <1>3
  <2>3. Cardinality(Slots) # 0
    BY <2>2, SlotsFinite, FS_EmptySet
  <2>q. QED
    BY <1>0, <1>3, <2>1, <2>3, SlotsFinite DEF Decremented
<1> USE DEF Slots, Occupied, At
<1>4. ASSUME NEW t \in Threads,
             \/ \E o \in Ops : Call(t, o)
             \/ OverlongDeadline(t) \/ FindPoisoned(t) \/ FindClosed(t)
             \/ WakeSpuriously(t) \/ WakeAtDeadline(t)
      PROVE  Kept
  BY <1>4 DEF Call, OverlongDeadline, FindPoisoned, FindClosed, Locks, Move,
              Reply, WakeSpuriously, WakeAtDeadline, poolVars
<1>5. ASSUME NEW t \in Threads, TakeIdle(t) \/ StartFactory(t)
      PROVE  Taken(t)
  BY <1>5 DEF TakeIdle, StartFactory, Acquires, Locks, Move
<1>6. ASSUME NEW t \in Threads, AtCapacity(t)
      PROVE  Kept
  BY <1>6 DEF AtCapacity, Acquires, Locks, Move, Reply
<1>7. ASSUME NEW t \in Threads,
             FactoryOk(t) \/ FactoryError(t) \/ FactoryPanic(t)
      PROVE  Kept
  BY <1>7 DEF FactoryOk, FactoryError, FactoryPanic, Move, Reply, poolVars
<1>8. ASSUME NEW t \in Threads,
             DecActive(t) \/ ReturnOpen(t) \/ ReturnJoined(t)
      PROVE  Kept \/ Given(t)
  <2>1. /\ place[t] # "waiting" /\ NotifyOneAndMove(t, "done")
        /\ "done" \in Places
    BY <1>8 DEF DecActive, ReturnOpen, ReturnJoined, Places
  <2>2. /\ place'[t] = "done"
        /\ \A u \in Threads \ {t} :
             \/ place'[u] = place[u]
             \/ place[u] = "waiting" /\ place'[u] = "woken"
    BY <2>1, NotifyMoves
  <2>3. CASE DecActive(t)
    BY <2>2, <2>3 DEF DecActive
  <2>4. CASE ReturnOpen(t)
    BY <2>2, <2>4 DEF ReturnOpen
  <2>5. CASE ReturnJoined(t)
    BY <2>2, <2>5 DEF ReturnJoined
  <2>q. QED
    BY <1>8, <2>3, <2>4, <2>5
<1>9. ASSUME NEW t \in Threads, ReturnClosed(t)
      PROVE  Given(t)
  BY <1>9 DEF ReturnClosed, Move
<1>10. ASSUME NEW t \in Threads,
              ShutStart(t) \/ ShutTell(t) \/ ShutJoin(t) \/ ShutEnd(t)
       PROVE  Kept
  <2>1. CASE ShutStart(t)
    BY <2>1 DEF ShutStart, Move
  <2>2. CASE ShutTell(t) \/ ShutJoin(t)
    BY <2>2 DEF ShutTell, ShutJoin, poolVars, userVars
  <2>3. CASE ShutEnd(t)
    BY <2>3 DEF ShutEnd
  <2>q. QED
    BY <1>10, <2>1, <2>2, <2>3
<1>11. ASSUME NEW i \in Isles, IsleDies(i) \/ IsleStops(i)
       PROVE  Kept
  BY <1>11 DEF IsleDies, IsleStops, poolVars, userVars
<1>12. UNCHANGED vars => Kept
  BY DEF vars, poolVars, userVars
<1>q. QED
  BY <1>1, <1>2, <1>3, <1>4, <1>5, <1>6, <1>7, <1>8, <1>9, <1>10, <1>11, <1>12
     DEF Next, CheckoutStep, ReturnStep, ShutStep

\* active is exact whatever the factory, the isles and shutdown do: each
\* checkout gives its slot back once, and a panicking factory keeps its own.
THEOREM SlotsAreAccounted == Spec => []SlotsAccounted
<1>1. Init => SlotsAccounted
  <2>1. ASSUME Init
        PROVE  Slots = {} /\ active = 0
    BY <2>1 DEF Init, Slots, Occupied, At
  <2>q. QED
    BY <2>1, FS_EmptySet DEF SlotsAccounted, Slots
<1>2. PoolInv => Types /\ PlaceInv
  BY DEF PoolInv
<1>q. QED
  BY <1>1, <1>2, SlotsStep, PoolInvariant, PTL DEF Spec

-----------------------------------------------------------------------------
(* Size.                                                                   *)

\* The isle that is shut down under the mutex has no slot any more: there is
\* one at most.
Stopping == IF \E t \in Threads : place[t] = "stopping" THEN 1 ELSE 0
SizeInv == active + Len(idle) + Stopping <= MaxSize

LEMMA HoldersCount ==
  ASSUME Types, SlotsAccounted, NEW t \in Slots
  PROVE  active >= 1
<1>1. Cardinality(Slots) # 0
  BY SlotsFinite, FS_EmptySet
<1>q. QED
  BY <1>1, SlotsFinite DEF SlotsAccounted, Slots

LEMMA SizeStep ==
  Types /\ PlaceInv /\ SlotsAccounted /\ SizeInv /\ [Next]_vars => SizeInv'
<1> SUFFICES ASSUME Types, PlaceInv, SlotsAccounted, SizeInv, [Next]_vars
             PROVE  SizeInv'
  OBVIOUS
<1> USE PoolAssumption DEF Types, PlaceInv, SizeInv, Stopping
<1> DEFINE Kept == /\ Len(idle') <= Len(idle) /\ Len(idle') \in Nat
                   /\ active' <= active /\ active' \in Nat
                   /\ \A t \in Threads :
                        place'[t] = "stopping" => place[t] = "stopping"
<1>1. CASE Kept
  BY <1>1
<1>2. ASSUME NEW t \in Threads,
             \/ \E o \in Ops : Call(t, o)
             \/ OverlongDeadline(t) \/ FindPoisoned(t) \/ FindClosed(t)
             \/ FactoryOk(t) \/ FactoryError(t) \/ FactoryPanic(t)
             \/ WakeSpuriously(t) \/ WakeAtDeadline(t)
      PROVE  Kept
  BY <1>2 DEF Call, OverlongDeadline, FindPoisoned, FindClosed, FactoryOk,
              FactoryError, FactoryPanic, Move, Reply, WakeSpuriously,
              WakeAtDeadline, poolVars
<1>3. ASSUME NEW t \in Threads, TakeIdle(t)
      PROVE  SizeInv'
  <2>1. PICK k \in 1 .. Len(idle) : idle' = SubSeq(idle, 1, k - 1)
    BY <1>3 DEF TakeIdle
  <2>2. Len(idle') = k - 1
    BY <2>1
  <2>3. active' = active + 1 /\ place' = [place EXCEPT ![t] = "holding"]
    BY <1>3 DEF TakeIdle, Move
  <2>4. Stopping' <= Stopping
    BY <2>3
  <2>q. QED
    BY <2>2, <2>3, <2>4
<1>4. ASSUME NEW t \in Threads, StartFactory(t)
      PROVE  SizeInv'
  <2>1. \A u \in Threads : place[u] # "stopping"
    BY <1>4 DEF StartFactory, Acquires, Locks
  <2>2. /\ idle' = <<>> /\ active' = active + 1 /\ active < MaxSize
        /\ place' = [place EXCEPT ![t] = "factory"]
    BY <1>4 DEF StartFactory, Move
  <2>3. Stopping' = 0
    BY <2>1, <2>2
  <2>q. QED
    BY <2>2, <2>3
<1>5. ASSUME NEW t \in Threads, AtCapacity(t)
      PROVE  Kept
  BY <1>5 DEF AtCapacity, Move, Reply
<1>6. ASSUME NEW t \in Threads,
             DecActive(t) \/ ReturnOpen(t) \/ ReturnJoined(t)
      PROVE  SizeInv'
  <2>1. /\ place[t] # "waiting" /\ NotifyOneAndMove(t, "done")
        /\ "done" \in Places
    BY <1>6 DEF DecActive, ReturnOpen, ReturnJoined, Places
  <2>2. /\ place'[t] = "done"
        /\ \A u \in Threads \ {t} :
             \/ place'[u] = place[u]
             \/ place[u] = "waiting" /\ place'[u] = "woken"
    BY <2>1, NotifyMoves
  <2>3. Stopping' <= Stopping
    BY <2>2
  <2>4. CASE DecActive(t)
    <3>1. active' = Decremented /\ idle' = idle
      BY <2>4 DEF DecActive
    <3>2. active' <= active /\ active' \in Nat
      BY <3>1 DEF Decremented
    <3>3. Stopping \in {0, 1} /\ Stopping' \in {0, 1}
      OBVIOUS
    <3>q. QED
      BY <2>3, <3>1, <3>2, <3>3
  <2>5. CASE ReturnOpen(t)
    <3>1. t \in Slots /\ guard[t] \in Isles
      BY <2>5 DEF ReturnOpen, Slots, Occupied, At
    <3>2. active >= 1 /\ active' = active - 1
      BY <2>5, <3>1, HoldersCount DEF ReturnOpen, Decremented
    <3>3. Len(idle') <= Len(idle) + 1 /\ Len(idle') \in Nat
      BY <2>5, <3>1 DEF ReturnOpen
    <3>q. QED
      BY <2>3, <3>2, <3>3
  <2>6. CASE ReturnJoined(t)
    BY <2>3, <2>6 DEF ReturnJoined
  <2>q. QED
    BY <1>6, <2>4, <2>5, <2>6
<1>7. ASSUME NEW t \in Threads, ReturnClosed(t)
      PROVE  SizeInv'
  <2>1. t \in Slots /\ \A u \in Threads : place[u] # "stopping"
    BY <1>7 DEF ReturnClosed, Slots, Occupied, At
  <2>2. active >= 1 /\ active' = active - 1 /\ idle' = idle
    BY <1>7, <2>1, HoldersCount DEF ReturnClosed, Decremented
  <2>3. Stopping = 0 /\ Stopping' \in {0, 1}
    BY <2>1
  <2>q. QED
    BY <2>2, <2>3
<1>8. ASSUME NEW t \in Threads,
             ShutStart(t) \/ ShutTell(t) \/ ShutJoin(t) \/ ShutEnd(t)
      PROVE  Kept
  <2>1. CASE ShutStart(t)
    BY <2>1 DEF ShutStart, Move
  <2>2. CASE ShutTell(t) \/ ShutJoin(t)
    BY <2>2 DEF ShutTell, ShutJoin, poolVars, userVars
  <2>3. CASE ShutEnd(t)
    BY <2>3 DEF ShutEnd
  <2>q. QED
    BY <1>8, <2>1, <2>2, <2>3
<1>9. ASSUME NEW i \in Isles, IsleDies(i) \/ IsleStops(i)
      PROVE  Kept
  BY <1>9 DEF IsleDies, IsleStops, poolVars, userVars
<1>10. UNCHANGED vars => Kept
  BY DEF vars, poolVars, userVars
<1>q. QED
  BY <1>1, <1>2, <1>3, <1>4, <1>5, <1>6, <1>7, <1>8, <1>9, <1>10
     DEF Next, CheckoutStep, ReturnStep, ShutStep

LEMMA SizeInvariant == Spec => [](PoolInv /\ SlotsAccounted /\ SizeInv)
<1>1. Init => SizeInv
  BY PoolAssumption DEF Init, SizeInv, Stopping
<1>2. PoolInv => Types /\ PlaceInv
  BY DEF PoolInv
<1>q. QED
  BY <1>1, <1>2, SizeStep, PoolInvariant, SlotsAreAccounted, PTL DEF Spec

\* The state has its types; above all, no checkout counts past MaxSize and no
\* give-back counts below zero.
THEOREM PoolTypeCorrect == Spec => []PoolTypeOK
<1>1. Types /\ Flags /\ SizeInv => PoolTypeOK
  <2> SUFFICES ASSUME Types, Flags, SizeInv
               PROVE  PoolTypeOK
    OBVIOUS
  <2>1. active \in 0 .. MaxSize
    BY PoolAssumption DEF Types, SizeInv, Stopping
  <2>2. Types /\ Flags /\ active \in 0 .. MaxSize => PoolTypeOK
    BY Zenon DEF Types, Flags, PoolTypeOK
  <2>q. QED
    BY <2>1, <2>2
<1>2. PoolInv => Types /\ Flags
  BY DEF PoolInv
<1>q. QED
  BY <1>1, <1>2, SizeInvariant, PTL

-----------------------------------------------------------------------------
(* Refusals.                                                               *)

LEMMA RefusalStep ==
  ASSUME PoolInv, SlotsAccounted, active <= MaxSize, [Next]_vars,
         NEW t \in Threads, ans[t] = "none", ans'[t] \in {"None", "Timeout"}
  PROVE  /\ Spare \cap Alive = {}
         /\ Cardinality(Occupied \cup Lost) = MaxSize
<1> USE DEF PoolInv, Types
<1>1. ASSUME AtCapacity(t)
      PROVE  /\ Spare \cap Alive = {}
             /\ Cardinality(Occupied \cup Lost) = MaxSize
  <2>1. active = MaxSize
    BY <1>1, PoolAssumption DEF AtCapacity
  <2>2. \A k \in 1 .. Len(idle) : isle[idle[k]] = "exited"
    BY <1>1 DEF AtCapacity, NoneAlive, IsAlive
  <2>3. Spare \cap Alive = {}
    BY <2>2 DEF Spare, Alive
  <2>q. QED
    BY <2>1, <2>3 DEF SlotsAccounted, Lost
<1>2. ASSUME NEW u \in Threads, CheckoutStep(u)
      PROVE  AtCapacity(t)
  <2>1. CASE AtCapacity(u)
    BY <2>1 DEF AtCapacity, Reply
  <2>2. CASE OverlongDeadline(u) \/ FindPoisoned(u) \/ FindClosed(u)
             \/ FactoryPanic(u)
    BY <2>2 DEF OverlongDeadline, FindPoisoned, FindClosed, FactoryPanic, Reply
  <2>3. CASE TakeIdle(u) \/ FactoryOk(u) \/ DecActive(u)
    BY <2>3 DEF TakeIdle, FactoryOk, DecActive
  <2>4. CASE StartFactory(u) \/ FactoryError(u)
    BY <2>4 DEF StartFactory, FactoryError
  <2>q. QED
    BY <1>2, <2>1, <2>2, <2>3, <2>4 DEF CheckoutStep
<1>3. ASSUME NEW u \in Threads,
             \/ \E o \in Ops : Call(u, o)
             \/ ReturnStep(u) \/ WakeSpuriously(u) \/ WakeAtDeadline(u)
      PROVE  FALSE
  BY <1>3 DEF Call, ReturnStep, ReturnOpen, ReturnClosed, ReturnJoined,
              WakeSpuriously, WakeAtDeadline
<1>4. ASSUME NEW u \in Threads, ShutStep(u)
      PROVE  FALSE
  BY <1>4 DEF ShutStep, ShutStart, ShutTell, ShutJoin, ShutEnd, userVars
<1>5. ASSUME NEW i \in Isles, IsleDies(i) \/ IsleStops(i)
      PROVE  FALSE
  BY <1>5 DEF IsleDies, IsleStops, userVars
<1>6. CASE UNCHANGED vars
  BY <1>6 DEF vars, userVars
<1>q. QED
  BY <1>1, <1>2, <1>3, <1>4, <1>5, <1>6 DEF Next

\* try_checkout and checkout_timeout are refused only by a pool that is full at
\* the moment they look: one that has no live isle idle and no slot free.
THEOREM RefusalsAreJust == Spec => RefusedOnlyWhenFull
<1>1. PoolTypeOK => active <= MaxSize
  BY PoolAssumption DEF PoolTypeOK
<1>2. /\ PoolInv /\ SlotsAccounted /\ active <= MaxSize
      /\ [Next]_vars
      => [\A t \in Threads :
            ans[t] = "none" /\ ans'[t] \in {"None", "Timeout"}
            => /\ Spare \cap Alive = {}
               /\ Cardinality(Occupied \cup Lost) = MaxSize]_vars
  BY RefusalStep
<1>q. QED
  BY <1>1, <1>2, PoolInvariant, SlotsAreAccounted, PoolTypeCorrect, PTL
  DEF Spec, RefusedOnlyWhenFull

\* The isles of a set of threads' guards are no more than the threads.
LEMMA GuardedBound ==
  ASSUME NEW G \in SUBSET Threads
  PROVE  LET S == {guard[t] : t \in G}
         IN  IsFiniteSet(S) /\ Cardinality(S) <= Cardinality(G)
<1> DEFINE S == {guard[t] : t \in G}
           f == [t \in G |-> guard[t]]
<1>1. f \in Surjection(G, S)
  BY DEF Surjection
<1>2. IsFiniteSet(G)
  BY PoolAssumption, FS_Subset
<1>q. QED
  BY <1>1, <1>2, FS_Surjection

\* The isles of a sequence are no more than its length.
LEMMA SeqBound ==
  ASSUME NEW s \in Seq(Isles)
  PROVE  LET S == {s[k] : k \in 1 .. Len(s)}
         IN  IsFiniteSet(S) /\ Cardinality(S) <= Len(s)
<1> DEFINE S == {s[k] : k \in 1 .. Len(s)}
           f == [k \in 1 .. Len(s) |-> s[k]]
<1>1. f \in Surjection(1 .. Len(s), S)
  BY DEF Surjection
<1>2. Len(s) \in Nat
  OBVIOUS
<1>3. IsFiniteSet(1 .. Len(s)) /\ Cardinality(1 .. Len(s)) = Len(s)
  <2> DEFINE n == Len(s)
  <2> HIDE DEF n
  <2>1. n \in Nat
    BY <1>2 DEF n
  <2>2. IsFiniteSet(1 .. n) /\ Cardinality(1 .. n) = n
    BY <2>1, FS_Interval
  <2>q. QED
    BY <2>2 DEF n
<1>4. IsFiniteSet(S) /\ Cardinality(S) <= Len(s)
  <2> DEFINE D == 1 .. Len(s)
  <2>1. f \in Surjection(D, S) /\ IsFiniteSet(D) /\ Cardinality(D) = Len(s)
    BY <1>1, <1>3
  <2> HIDE DEF f, S, D
  <2>2. IsFiniteSet(S) /\ Cardinality(S) <= Cardinality(D)
    BY <2>1, FS_Surjection
  <2>q. QED
    BY <2>1, <2>2
<1>q. QED
  BY <1>4

\* Two sets together are no more than each counted alone.
LEMMA UnionBound ==
  ASSUME NEW S, NEW T, IsFiniteSet(S), IsFiniteSet(T)
  PROVE  /\ IsFiniteSet(S \cup T)
         /\ Cardinality(S \cup T) <= Cardinality(S) + Cardinality(T)
<1>1. IsFiniteSet(S \cap T)
  BY FS_Intersection
<1>2. /\ Cardinality(S) \in Nat /\ Cardinality(T) \in Nat
      /\ Cardinality(S \cap T) \in Nat
  BY <1>1, FS_CardinalityType
<1>3. /\ IsFiniteSet(S \cup T)
      /\ Cardinality(S \cup T)
           = Cardinality(S) + Cardinality(T) - Cardinality(S \cap T)
  BY FS_Union
<1>q. QED
  BY <1>2, <1>3

\* PoolConfig::max_size bounds the isles whose threads run, wherever they are:
\* idle, in a guard, or draining under the mutex.
THEOREM LiveIslesBounded == Spec => []LiveBound
<1>1. PoolInv /\ SlotsAccounted /\ SizeInv => LiveBound
  <2> SUFFICES ASSUME PoolInv, SlotsAccounted, SizeInv
               PROVE  LiveBound
    OBVIOUS
  <2> USE DEF PoolInv, Types, PlaceInv
  <2> DEFINE Live == {i \in Isles : isle[i] \in {"running", "stopping"}}
             I == {idle[k] : k \in 1 .. Len(idle)}
             H == {guard[t] : t \in At("holding")}
             P == {guard[t] : t \in At("stopping")}
  <2>1. Live \subseteq (I \cup H) \cup P
    BY PoolAssumption DEF IsleInv, InPool, At
  <2>2. IsFiniteSet(I) /\ Cardinality(I) <= Len(idle)
    BY SeqBound
  <2>3. IsFiniteSet(H) /\ Cardinality(H) <= active
    <3>1. At("holding") \in SUBSET Slots /\ At("holding") \in SUBSET Threads
      BY DEF Slots, Occupied, At
    <3>2. /\ Cardinality(At("holding")) <= Cardinality(Slots)
          /\ IsFiniteSet(At("holding"))
      BY <3>1, SlotsFinite, FS_Subset
    <3>3. IsFiniteSet(H) /\ Cardinality(H) <= Cardinality(At("holding"))
      BY <3>1, GuardedBound
    <3>4. Cardinality(Slots) = active
      BY DEF SlotsAccounted, Slots
    <3>q. QED
      BY <3>2, <3>3, <3>4, FS_CardinalityType
  <2>4. IsFiniteSet(P) /\ Cardinality(P) <= Stopping
    <3>1. CASE At("stopping") = {}
      <4>1. P = {} /\ Stopping = 0
        BY <3>1 DEF Stopping, At
      <4>2. IsFiniteSet({}) /\ Cardinality({}) = 0
        BY FS_EmptySet
      <4>3. IsFiniteSet(P) /\ Cardinality(P) = 0
        BY <4>1, <4>2, Zenon
      <4>q. QED
        BY <4>1, <4>3
    <3>2. CASE At("stopping") # {}
      <4>1. PICK t \in Threads : place[t] = "stopping"
        BY <3>2 DEF At
      <4>2. P = {guard[t]}
        BY <4>1, PoolAssumption DEF At
      <4>3. Stopping = 1
        BY <4>1 DEF Stopping
      <4>4. IsFiniteSet({guard[t]}) /\ Cardinality({guard[t]}) = 1
        BY FS_Singleton, Zenon
      <4>5. IsFiniteSet(P) /\ Cardinality(P) = 1
        BY <4>2, <4>4, Zenon
      <4>q. QED
        BY <4>3, <4>5
    <3>q. QED
      BY <3>1, <3>2
  <2>5. /\ IsFiniteSet(I \cup H)
        /\ Cardinality(I \cup H) <= Cardinality(I) + Cardinality(H)
    <3> HIDE DEF I, H
    <3>q. QED
      BY <2>2, <2>3, UnionBound
  <2>6. /\ IsFiniteSet((I \cup H) \cup P)
        /\ Cardinality((I \cup H) \cup P)
             <= Cardinality(I \cup H) + Cardinality(P)
    <3> HIDE DEF I, H, P
    <3>q. QED
      BY <2>4, <2>5, UnionBound
  <2>7. /\ Cardinality(Live) <= Cardinality((I \cup H) \cup P)
        /\ IsFiniteSet(Live)
    BY <2>1, <2>6, FS_Subset
  <2>8. /\ Cardinality(I) \in Nat /\ Cardinality(H) \in Nat
        /\ Cardinality(P) \in Nat /\ Cardinality(I \cup H) \in Nat
        /\ Cardinality((I \cup H) \cup P) \in Nat /\ Cardinality(Live) \in Nat
    BY <2>2, <2>3, <2>4, <2>5, <2>6, <2>7, FS_CardinalityType
  <2>9. Stopping \in {0, 1}
    BY DEF Stopping
  <2>10. Cardinality(Live) <= MaxSize
    <3> HIDE DEF Live, I, H, P
    <3>q. QED
      BY <2>2, <2>3, <2>4, <2>5, <2>6, <2>7, <2>8, <2>9, PoolAssumption
         DEF SizeInv
  <2>q. QED
    BY <2>10 DEF LiveBound
<1>q. QED
  BY <1>1, SizeInvariant, PTL

-----------------------------------------------------------------------------
(* Notifications.                                                          *)

\* Threads that have left the condition variable and not yet the mutex.
Wakers == At("woken") \cup At("late")

LEMMA WakersFinite == IsFiniteSet(Wakers) /\ Cardinality(Wakers) \in Nat
<1>1. Wakers \in SUBSET Threads
  BY DEF Wakers, At
<1>q. QED
  BY <1>1, PoolAssumption, FS_Subset, FS_CardinalityType

\* A free slot costs a waker: whoever takes it was one or barged in, and
\* whoever gives one back makes a waiting thread one.
OpenWakeups ==
  ~closed /\ ~poison /\ At("waiting") # {}
    => MaxSize - active <= Cardinality(Wakers)

LEMMA WakeupStep ==
  Types /\ OpenWakeups /\ [Next]_vars => OpenWakeups'
<1> SUFFICES ASSUME Types, OpenWakeups, [Next]_vars,
                    ~closed', ~poison', At("waiting")' # {}
             PROVE  MaxSize - active' <= Cardinality(Wakers')
  BY Zenon DEF OpenWakeups
<1>0. /\ ~closed /\ ~poison /\ At("waiting") # {}
           => MaxSize - active <= Cardinality(Wakers)
  BY DEF OpenWakeups
<1>1. /\ IsFiniteSet(Wakers') /\ Cardinality(Wakers') \in Nat
      /\ IsFiniteSet(Wakers) /\ Cardinality(Wakers) \in Nat
      /\ MaxSize \in Nat /\ active \in Nat
  <2>1. Wakers' \in SUBSET Threads
    BY DEF Wakers, At
  <2>q. QED
    BY <2>1, WakersFinite, PoolAssumption, FS_Subset, FS_CardinalityType
       DEF Types
<1> DEFINE Waited == ~closed /\ ~poison /\ At("waiting") # {}
           Kept == Waited /\ active' = active /\ Wakers \subseteq Wakers'
           Taken(t) == Waited /\ active' = active + 1
                       /\ Wakers' = Wakers \ {t}
           Given(w) == Waited /\ active' \in {active, Decremented}
                       /\ w \notin Wakers /\ Wakers' = Wakers \cup {w}
<1> HIDE DEF Waited
<1>w. Waited => MaxSize - active <= Cardinality(Wakers)
  BY <1>0 DEF Waited
<1>2. CASE Kept
  <2>1. Cardinality(Wakers) <= Cardinality(Wakers')
    BY <1>1, <1>2, FS_Subset
  <2>q. QED
    BY <1>1, <1>2, <1>w, <2>1
<1>3. ASSUME NEW t \in Threads, Taken(t)
      PROVE  MaxSize - active' <= Cardinality(Wakers')
  <2>1. Cardinality(Wakers') >= Cardinality(Wakers) - 1
    BY <1>1, <1>3, FS_RemoveElement
  <2>q. QED
    BY <1>1, <1>3, <1>w, <2>1
<1>4. ASSUME NEW w \in Threads, Given(w)
      PROVE  MaxSize - active' <= Cardinality(Wakers')
  <2>1. Cardinality(Wakers') = Cardinality(Wakers) + 1
    BY <1>1, <1>4, FS_AddElement
  <2>2. active' \in Nat /\ active' >= active - 1
    BY <1>1, <1>4 DEF Decremented
  <2>q. QED
    BY <1>1, <1>4, <1>w, <2>1, <2>2
<1> USE DEF Types, At
<1>5. ASSUME NEW t \in Threads,
             \/ \E o \in Ops : Call(t, o)
             \/ FactoryOk(t) \/ FactoryError(t) \/ FactoryPanic(t)
             \/ WakeSpuriously(t) \/ WakeAtDeadline(t)
      PROVE  Kept
  BY <1>5 DEF Call, FactoryOk, FactoryError, FactoryPanic, Move, Reply,
              WakeSpuriously, WakeAtDeadline, poolVars, Waited, Wakers
<1>6. ASSUME NEW t \in Threads
      PROVE  /\ ~OverlongDeadline(t) /\ ~FindPoisoned(t) /\ ~FindClosed(t)
             /\ ~ShutStart(t) /\ ~ShutEnd(t) /\ ~ReturnClosed(t)
  BY DEF OverlongDeadline, FindPoisoned, FindClosed, ShutStart, ShutEnd,
         ReturnClosed, poolVars
<1>7. ASSUME NEW t \in Threads, TakeIdle(t) \/ StartFactory(t)
      PROVE  Taken(t)
  BY <1>7 DEF TakeIdle, StartFactory, Acquires, Locks, Move, Waited, Wakers
<1>8. ASSUME NEW t \in Threads, AtCapacity(t)
      PROVE  MaxSize - active' <= Cardinality(Wakers')
  BY <1>1, <1>8 DEF AtCapacity
<1>9. ASSUME NEW t \in Threads,
             DecActive(t) \/ ReturnOpen(t) \/ ReturnJoined(t)
      PROVE  \E w \in Threads : Given(w)
  <2>1. /\ place[t] \notin {"waiting", "woken", "late"}
        /\ NotifyOneAndMove(t, "done")
        /\ "done" \in Places
    BY <1>9 DEF DecActive, ReturnOpen, ReturnJoined, Places
  <2>2. /\ place'[t] = "done"
        /\ \A u \in Threads \ {t} :
             \/ place'[u] = place[u]
             \/ place[u] = "waiting" /\ place'[u] = "woken"
        /\ \/ At("waiting") = {}
           \/ \E w \in At("waiting") :
                place' = [place EXCEPT ![w] = "woken", ![t] = "done"]
    BY <2>1, NotifyMoves
  <2>3. At("waiting") # {}
    BY <2>2
  <2>4. PICK w \in At("waiting") :
          place' = [place EXCEPT ![w] = "woken", ![t] = "done"]
    BY <2>2, <2>3
  <2>5. w \notin Wakers /\ Wakers' = Wakers \cup {w}
    BY <2>1, <2>4 DEF Wakers
  <2>6. closed' = closed /\ poison' = poison
        /\ active' \in {active, Decremented}
    BY <1>9 DEF DecActive, ReturnOpen, ReturnJoined
  <2>q. QED
    BY <2>3, <2>4, <2>5, <2>6 DEF Waited
<1>10. ASSUME NEW t \in Threads, ShutTell(t) \/ ShutJoin(t)
       PROVE  Kept
  BY <1>10 DEF ShutTell, ShutJoin, poolVars, userVars, Waited, Wakers
<1>11. ASSUME NEW i \in Isles, IsleDies(i) \/ IsleStops(i)
       PROVE  Kept
  BY <1>11 DEF IsleDies, IsleStops, poolVars, userVars, Waited, Wakers
<1>12. UNCHANGED vars => Kept
  BY DEF vars, poolVars, userVars, Waited, Wakers
<1>q. QED
  BY <1>2, <1>3, <1>4, <1>5, <1>6, <1>7, <1>8, <1>9, <1>10, <1>11, <1>12
     DEF Next, CheckoutStep, ReturnStep, ShutStep

\* Who keeps the mutex over several steps joins an isle of a closed pool that
\* was told to stop; and while nobody drains it, a closed pool is empty.
ClosedInv ==
  /\ lock # NoThread => place[lock] \in {"stopping", "draining"}
  /\ \A t \in Threads :
       /\ place[t] \in {"stopping", "draining"} => closed
       /\ place[t] = "stopping" => isle[guard[t]] \in {"stopping", "exited"}
  /\ closed /\ (idle # <<>> \/ At("waiting") # {}) => lock \in At("draining")

LEMMA ClosedInvStep == PoolInv /\ ClosedInv /\ [Next]_vars => ClosedInv'
<1> SUFFICES ASSUME PoolInv, ClosedInv, [Next]_vars
             PROVE  ClosedInv'
  OBVIOUS
<1> USE PoolAssumption DEF PoolInv, Types, PlaceInv, ClosedInv, At
<1>1. ASSUME NEW t \in Threads,
             \/ \E o \in Ops : Call(t, o)
             \/ FactoryError(t) \/ WakeSpuriously(t) \/ WakeAtDeadline(t)
      PROVE  ClosedInv'
  BY <1>1 DEF Call, FactoryError, WakeSpuriously, WakeAtDeadline, Move, poolVars
<1>2. ASSUME NEW t \in Threads,
             OverlongDeadline(t) \/ FindPoisoned(t) \/ FindClosed(t)
             \/ FactoryPanic(t)
      PROVE  ClosedInv'
  BY <1>2 DEF OverlongDeadline, FindPoisoned, FindClosed, FactoryPanic, Locks,
              Reply, poolVars
<1>3. ASSUME NEW t \in Threads, TakeIdle(t) \/ StartFactory(t) \/ AtCapacity(t)
      PROVE  ClosedInv'
  <2>1. ~closed /\ closed' = closed /\ lock = NoThread /\ lock' = lock
    BY <1>3 DEF TakeIdle, StartFactory, AtCapacity, Acquires, Locks
  <2>2. \A u \in Threads : place[u] \notin {"stopping", "draining"}
    BY <2>1
  <2>3. \A u \in Threads : place'[u] \notin {"stopping", "draining"}
    BY <1>3, <2>2 DEF TakeIdle, StartFactory, AtCapacity, Move, Reply
  <2>4. ~closed' /\ lock' = NoThread
    BY <2>1
  <2>q. QED
    BY <2>3, <2>4
<1>4. ASSUME NEW t \in Threads, FactoryOk(t)
      PROVE  ClosedInv'
  <2>1. PICK i \in Isles :
          /\ isle[i] = "none" \/ (isle[i] = "exited" /\ ~InPool(i))
          /\ isle' = [isle EXCEPT ![i] = "running"]
          /\ guard' = [guard EXCEPT ![t] = i]
    BY <1>4 DEF FactoryOk
  <2>2. \A u \in Threads : guard[u] # i
    BY <2>1 DEF IsleInv, InPool
  <2>3. /\ UNCHANGED poolVars /\ place[t] = "factory"
        /\ place' = [place EXCEPT ![t] = "holding"]
    BY <1>4 DEF FactoryOk, Move
  <2>4. \A u \in Threads : place[u] = "stopping" =>
          guard'[u] = guard[u] /\ isle'[guard[u]] = isle[guard[u]]
    BY <2>1, <2>2, <2>3
  <2>q. QED
    BY <2>3, <2>4 DEF poolVars
<1>5. ASSUME NEW t \in Threads,
             DecActive(t) \/ ReturnOpen(t) \/ ReturnJoined(t)
      PROVE  ClosedInv'
  <2>1. /\ place[t] # "waiting" /\ NotifyOneAndMove(t, "done")
        /\ "done" \in Places
    BY <1>5 DEF DecActive, ReturnOpen, ReturnJoined, Places
  <2>2. /\ place'[t] = "done"
        /\ \A u \in Threads \ {t} :
             \/ place'[u] = place[u]
             \/ place[u] = "waiting" /\ place'[u] = "woken"
    BY <2>1, NotifyMoves
  <2>3. CASE DecActive(t)
    BY <2>2, <2>3 DEF DecActive
  <2>4. CASE ReturnOpen(t)
    BY <2>2, <2>4 DEF ReturnOpen
  <2>5. CASE ReturnJoined(t)
    BY <2>2, <2>5 DEF ReturnJoined
  <2>q. QED
    BY <1>5, <2>3, <2>4, <2>5
<1>6. ASSUME NEW t \in Threads, ReturnClosed(t)
      PROVE  ClosedInv'
  <2>1. guard[t] \in Isles /\ isle[guard[t]] # "none"
    BY <1>6 DEF ReturnClosed, IsleInv, InPool
  <2>q. QED
    BY <1>6, <2>1 DEF ReturnClosed, Told, Move
<1>7. ASSUME NEW t \in Threads,
             ShutStart(t) \/ ShutTell(t) \/ ShutJoin(t) \/ ShutEnd(t)
      PROVE  ClosedInv'
  <2>1. CASE ShutStart(t)
    BY <2>1 DEF ShutStart, Move
  <2>2. CASE ShutTell(t) \/ ShutJoin(t)
    BY <2>2 DEF ShutTell, ShutJoin, Told, poolVars, userVars
  <2>3. CASE ShutEnd(t)
    BY <2>3 DEF ShutEnd
  <2>q. QED
    BY <1>7, <2>1, <2>2, <2>3
<1>8. ASSUME NEW i \in Isles, IsleDies(i) \/ IsleStops(i)
      PROVE  ClosedInv'
  BY <1>8 DEF IsleDies, IsleStops, poolVars, userVars
<1>9. CASE UNCHANGED vars
  BY <1>9 DEF vars, poolVars, userVars
<1> HIDE DEF ClosedInv, PoolInv
<1>q. QED
  BY <1>1, <1>2, <1>3, <1>4, <1>5, <1>6, <1>7, <1>8, <1>9
     DEF Next, CheckoutStep, ReturnStep, ShutStep

LEMMA ClosedInvariant == Spec => []ClosedInv
<1>1. Init => ClosedInv
  BY DEF Init, ClosedInv, At
<1>q. QED
  BY <1>1, ClosedInvStep, PoolInvariant, PTL DEF Spec

LEMMA OpenWakeupsInvariant == Spec => []OpenWakeups
<1>1. Init => OpenWakeups
  BY DEF Init, OpenWakeups, At
<1>2. PoolInv => Types
  BY DEF PoolInv
<1>q. QED
  BY <1>1, <1>2, WakeupStep, PoolInvariant, PTL DEF Spec

\* No thread waits while slots are free and nobody is on the way to them: a
\* dead isle, a factory error, a deadline or a barging thread loses no wake-up;
\* and none waits in a closed pool but for the shutdown that will wake it.
THEOREM WakeupsAreKept == Spec => []NoLostWakeup
<1>1. OpenWakeups /\ ClosedInv => NoLostWakeup
  BY DEF OpenWakeups, ClosedInv, NoLostWakeup, Wakers
<1>q. QED
  BY <1>1, OpenWakeupsInvariant, ClosedInvariant, PTL

\* Not everybody waits: as long as no panic has poisoned the mutex, somebody
\* has left the condition variable, has a slot to give back or drains the pool,
\* unless every slot was lost to a panicking factory.
NotEverybodyWaits ==
  At("waiting") # {} /\ ~poison =>
    \/ \E t \in Threads :
         place[t] \in {"woken", "late", "factory", "undo", "holding", "draining"}
    \/ Cardinality({t \in Threads : ans[t] = "FactoryPanic"}) = MaxSize

\* A thread that waits in the condition variable is never left without another
\* one on its way to the mutex, with any number of threads and any max_size,
\* but for the slots that panics leaked.
THEOREM SomebodyMoves == Spec => []NotEverybodyWaits
<1>1. PoolInv /\ SlotsAccounted /\ SizeInv /\ OpenWakeups /\ ClosedInv
      => NotEverybodyWaits
  <2> SUFFICES ASSUME PoolInv, SlotsAccounted, SizeInv, OpenWakeups, ClosedInv,
                      At("waiting") # {}, ~poison
               PROVE  \/ \E t \in Threads :
                           place[t] \in {"woken", "late", "factory", "undo",
                                        "holding", "draining"}
                      \/ Cardinality({t \in Threads : ans[t] = "FactoryPanic"})
                           = MaxSize
    BY DEF NotEverybodyWaits
  <2>1. CASE closed
    BY <2>1 DEF ClosedInv, At
  <2>2. CASE ~closed /\ Wakers # {}
    BY <2>2 DEF Wakers, At
  <2>3. CASE ~closed /\ Wakers = {}
    <3>1. Cardinality(Wakers) = 0
      BY <2>3, FS_EmptySet
    <3>2. active = MaxSize /\ active = Cardinality(Slots)
      <4>1. MaxSize \in Nat /\ active \in Nat /\ Len(idle) \in Nat
        BY PoolAssumption DEF PoolInv, Types
      <4>2. active <= MaxSize
        BY <4>1 DEF SizeInv, Stopping
      <4>3. active >= MaxSize
        BY <2>3, <3>1, <4>1 DEF OpenWakeups
      <4>q. QED
        BY <4>1, <4>2, <4>3 DEF SlotsAccounted, Slots
    <3>3. CASE Occupied = {}
      <4>1. Slots = {t \in Threads : ans[t] = "FactoryPanic"}
        BY <3>3 DEF Slots
      <4>q. QED
        BY <3>2, <4>1
    <3>4. CASE Occupied # {}
      BY <3>4 DEF Occupied, At
    <3>q. QED
      BY <3>3, <3>4
  <2>q. QED
    BY <2>1, <2>2, <2>3
<1>q. QED
  BY <1>1, SizeInvariant, OpenWakeupsInvariant, ClosedInvariant, PTL

\* Whoever keeps the mutex while it joins waits for an isle that was told to
\* stop or is told next.
MutexAwaitsIsles ==
  lock # NoThread =>
    /\ lock \in Threads /\ closed
    /\ \/ place[lock] = "stopping" /\ isle[guard[lock]] \in {"stopping", "exited"}
       \/ place[lock] = "draining" /\ (idle # <<>> => isle[Head(idle)] # "none")

\* The mutex is kept over a join only while the pool is closed, and the join is
\* for an isle's thread, never for a user of the pool who needs the mutex.
THEOREM MutexHolderJoins == Spec => []MutexAwaitsIsles
<1>1. PoolInv /\ ClosedInv => MutexAwaitsIsles
  BY DEF PoolInv, Types, ClosedInv, IsleInv, InPool, MutexAwaitsIsles
<1>q. QED
  BY <1>1, PoolInvariant, ClosedInvariant, PTL

\* A pool that was drained keeps nothing and nobody.
ClosedKeepsNothing ==
  closed /\ lock \notin At("draining") =>
    /\ idle = <<>> /\ At("waiting") = {}
    /\ \A i \in Isles : isle[i] \in {"running", "stopping"} =>
         \E t \in Threads :
           guard[t] = i /\ place[t] \in {"holding", "stopping"}

\* When shutdown has drained the pool nothing idles and nobody waits in it, and
\* an isle that still runs is in the guard of somebody who will stop it.
THEOREM ClosedPoolIsEmpty == Spec => []ClosedKeepsNothing
<1>1. PoolInv /\ ClosedInv => ClosedKeepsNothing
  BY PoolAssumption
  DEF PoolInv, PlaceInv, IsleInv, InPool, ClosedInv, ClosedKeepsNothing
<1>q. QED
  BY <1>1, PoolInvariant, ClosedInvariant, PTL
=============================================================================
