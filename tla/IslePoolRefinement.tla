------------------------- MODULE IslePoolRefinement -------------------------
(***************************************************************************)
(* The pool implements PoolLeases, for every number of threads and every   *)
(* size: each of its steps is a step of the leases under the mapping of    *)
(* IslePool, or leaves them alone.                                         *)
(***************************************************************************)
EXTENDS IslePoolProofs

\* What the abstract variables become.
Same == UNCHANGED <<closed, Making, Lost, Held, Spare, Alive>>
LeaseStep == Leases!LeaseNext \/ Same

\* The slots that active counts are the leases taken.
LEMMA TakenIsSlots ==
  ASSUME PoolInv
  PROVE  Leases!Taken = Slots
  BY PoolAssumption DEF PoolInv, PlaceInv, Types, Leases!Taken, Slots, Occupied,
     Making, Lost, Held, At

\* PoolLeases counts with a Cardinality of its own instance of FiniteSets.
LEMMA SameCardinality ==
  ASSUME NEW S
  PROVE  Leases!Cardinality(S) = Cardinality(S)
  BY Zenon DEF Cardinality, Leases!Cardinality

\* Steps that touch no isle and no lease, whatever they do to the mutex, the
\* condition variable and the calls' answers.
LEMMA QuietSteps ==
  ASSUME PoolInv, NEW t \in Threads,
         \/ \E o \in Ops : Call(t, o)
         \/ OverlongDeadline(t) \/ FindPoisoned(t) \/ FindClosed(t)
         \/ FactoryError(t) \/ ShutEnd(t)
         \/ WakeSpuriously(t) \/ WakeAtDeadline(t)
  PROVE  Same
<1> USE DEF PoolInv, Types, PlaceInv
<1>1. UNCHANGED <<closed, idle, isle, guard>>
  BY DEF Call, OverlongDeadline, FindPoisoned, FindClosed, FactoryError,
         ShutEnd, WakeSpuriously, WakeAtDeadline, poolVars
<1>2. UNCHANGED <<Making, Lost, Held>>
  BY DEF Call, OverlongDeadline, FindPoisoned, FindClosed, FactoryError, Locks,
         ShutEnd, WakeSpuriously, WakeAtDeadline, Move, Reply, poolVars,
         Making, Lost, Held, At
<1>q. QED
  BY <1>1, <1>2 DEF Same, Spare, Alive

\* The checkouts.
LEMMA TakeIdleMaps ==
  ASSUME PoolInv, SlotsAccounted, SizeInv, NEW t \in Threads, TakeIdle(t)
  PROVE  LeaseStep
<1> USE PoolAssumption DEF PoolInv, Types, PlaceInv
<1>1. PICK k \in 1 .. Len(idle) :
        /\ IsAlive(idle[k])
        /\ \A m \in k + 1 .. Len(idle) : ~IsAlive(idle[m])
        /\ guard' = [guard EXCEPT ![t] = idle[k]]
        /\ idle' = SubSeq(idle, 1, k - 1)
  BY DEF TakeIdle
<1> DEFINE i == idle[k]
<1>2. /\ Len(idle') = k - 1
      /\ \A m \in 1 .. k - 1 : idle'[m] = idle[m]
  BY <1>1
<1>3. i \in Isles /\ i \in Spare \cap Alive
  <2>1. i \in Isles /\ i \in Spare
    BY <1>1 DEF Spare
  <2>2. isle[i] # "none" /\ isle[i] # "exited"
    BY <1>1, <2>1 DEF IsleInv, InPool, Spare, IsAlive
  <2>q. QED
    BY <2>1, <2>2 DEF Alive
<1>4. t \notin Leases!Taken /\ Leases!Cardinality(Leases!Taken) < MaxSize
  <2>1. t \notin Slots
    BY DEF TakeIdle, Acquires, Locks, Slots, Occupied, At
  <2>2. active < MaxSize
    BY <1>1 DEF SizeInv, Stopping
  <2>3. Cardinality(Leases!Taken) < MaxSize
    BY <2>2, TakenIsSlots DEF SlotsAccounted, Slots
  <2>q. QED
    BY <2>1, <2>3, TakenIsSlots, SameCardinality
<1>5. Held' = [Held EXCEPT ![t] = i]
  BY <1>1, <1>3 DEF TakeIdle, Move, Held
<1>6. Spare' \subseteq Spare \ {i}
  <2> SUFFICES ASSUME NEW m \in 1 .. Len(idle')
               PROVE  idle'[m] \in Spare \ {i}
    BY DEF Spare
  <2>1. m \in 1 .. Len(idle) /\ idle'[m] = idle[m] /\ m # k
    BY <1>1, <1>2
  <2>2. idle[m] # idle[k]
    BY <1>1, <2>1 DEF Exclusive
  <2>q. QED
    BY <2>1, <2>2 DEF Spare
<1>7. (Spare \cap Alive) \ {i} \subseteq Spare'
  <2> SUFFICES ASSUME NEW m \in 1 .. Len(idle), idle[m] \in Alive, idle[m] # i
               PROVE  idle[m] \in Spare'
    BY DEF Spare
  <2>1. m < k
    BY <1>1 DEF Alive, IsAlive
  <2>q. QED
    BY <1>1, <1>2, <2>1 DEF Spare
<1>8. UNCHANGED <<closed, Making, Lost, Alive>>
  BY DEF TakeIdle, Acquires, Locks, Move, Making, Lost, Alive, At
<1>9. ~closed
  BY DEF TakeIdle, Acquires
<1>10. Leases!Lease(t, i)
  BY <1>3, <1>4, <1>5, <1>6, <1>7, <1>8, <1>9, Zenon
     DEF Leases!Lease, Leases!KeepsLive
<1>q. QED
  BY <1>3, <1>10, Zenon DEF LeaseStep, Leases!LeaseNext

LEMMA StartFactoryMaps ==
  ASSUME PoolInv, SlotsAccounted, NEW t \in Threads, StartFactory(t)
  PROVE  LeaseStep
<1> USE PoolAssumption DEF PoolInv, Types, PlaceInv
<1>1. t \notin Leases!Taken /\ Leases!Cardinality(Leases!Taken) < MaxSize
  <2>1. t \notin Slots /\ active < MaxSize
    BY DEF StartFactory, Acquires, Locks, Slots, Occupied, At
  <2>2. Cardinality(Leases!Taken) < MaxSize
    BY <2>1, TakenIsSlots DEF SlotsAccounted, Slots
  <2>q. QED
    BY <2>1, <2>2, TakenIsSlots, SameCardinality
<1>2. Spare \cap Alive = {} /\ Spare' = {}
  BY DEF StartFactory, NoneAlive, IsAlive, Spare, Alive
<1>3. Making' = Making \cup {t}
  BY DEF StartFactory, Move, Making, At
<1>4. UNCHANGED <<closed, Lost, Held, Alive>> /\ ~closed
  BY DEF StartFactory, Acquires, Locks, Move, Lost, Held, Alive
<1>5. Leases!Grow(t)
  BY <1>1, <1>2, <1>3, <1>4, Zenon DEF Leases!Grow
<1>q. QED
  BY <1>5, Zenon DEF LeaseStep, Leases!LeaseNext

LEMMA AtCapacityMaps ==
  ASSUME PoolInv, NEW t \in Threads, AtCapacity(t)
  PROVE  LeaseStep
<1> USE DEF PoolInv, Types, PlaceInv
<1>1. Spare \cap Alive = {} /\ Spare' = {}
  BY DEF AtCapacity, NoneAlive, IsAlive, Spare, Alive
<1>2. UNCHANGED <<closed, Making, Lost, Held, Alive>>
  BY DEF AtCapacity, Acquires, Locks, Move, Reply, Making, Lost, Held, Alive, At
<1>q. QED
  BY <1>1, <1>2 DEF LeaseStep, Leases!LeaseNext, Leases!Clear, Leases!KeepsLive

\* The factory.
LEMMA FactoryMaps ==
  ASSUME PoolInv, NEW t \in Threads, FactoryOk(t) \/ FactoryPanic(t)
  PROVE  LeaseStep
<1> USE PoolAssumption DEF PoolInv, Types, PlaceInv
<1>1. CASE FactoryOk(t)
  <2>1. PICK i \in Isles :
          /\ isle[i] = "none" \/ (isle[i] = "exited" /\ ~InPool(i))
          /\ isle' = [isle EXCEPT ![i] = "running"]
          /\ guard' = [guard EXCEPT ![t] = i]
    BY <1>1 DEF FactoryOk
  <2>2. ~InPool(i) /\ i \notin Alive
    BY <2>1 DEF IsleInv, Alive
  <2>3. i \notin Alive \cup Spare /\ \A u \in Threads : Held[u] # i
    BY <2>2 DEF InPool, Spare, Held
  <2>4. t \in Making /\ Making' = Making \ {t}
    BY <1>1 DEF FactoryOk, Move, Making, At
  <2>5. Held' = [Held EXCEPT ![t] = i]
    BY <1>1, <2>1 DEF FactoryOk, Move, Held
  <2>6. Alive' = Alive \cup {i}
    BY <2>1 DEF Alive
  <2>7. UNCHANGED <<closed, Lost, Spare>>
    BY <1>1 DEF FactoryOk, poolVars, Lost, Spare
  <2>q. QED
    BY <2>3, <2>4, <2>5, <2>6, <2>7 DEF LeaseStep, Leases!LeaseNext, Leases!Made
<1>2. CASE FactoryPanic(t)
  <2>1. t \in Making /\ Making' = Making \ {t} /\ Lost' = Lost \cup {t}
    BY <1>2 DEF FactoryPanic, Reply, Making, Lost, Replies, At
  <2>2. UNCHANGED <<closed, Held, Spare, Alive>>
    BY <1>2 DEF FactoryPanic, Reply, poolVars, Held, Spare, Alive
  <2>q. QED
    BY <2>1, <2>2 DEF LeaseStep, Leases!LeaseNext, Leases!Lose
<1>q. QED
  BY <1>1, <1>2

\* Slots and isles given back, with the notification that goes with them.
LEMMA NotifyingMaps ==
  ASSUME PoolInv, NEW t \in Threads,
         DecActive(t) \/ ReturnOpen(t) \/ ReturnJoined(t)
  PROVE  LeaseStep
<1> USE PoolAssumption DEF PoolInv, Types, PlaceInv
<1>1. /\ place[t] # "waiting" /\ NotifyOneAndMove(t, "done")
      /\ "done" \in Places
  BY DEF DecActive, ReturnOpen, ReturnJoined, Places
<1>2. /\ place'[t] = "done"
      /\ \A u \in Threads \ {t} :
           \/ place'[u] = place[u]
           \/ place[u] = "waiting" /\ place'[u] = "woken"
  BY <1>1, NotifyMoves
<1>3. CASE DecActive(t)
  <2>1. t \in Making /\ Making' = Making \ {t}
    BY <1>2, <1>3 DEF DecActive, Making, At
  <2>2. UNCHANGED <<closed, Lost, Spare, Alive>>
    BY <1>3 DEF DecActive, Lost, Spare, Alive
  <2>3. UNCHANGED Held
    BY <1>2, <1>3 DEF DecActive, Held
  <2>q. QED
    BY <2>1, <2>2, <2>3 DEF LeaseStep, Leases!LeaseNext, Leases!NotMade
<1>4. CASE ReturnOpen(t)
  <2>1. /\ guard[t] \in Isles /\ ~closed /\ Held[t] = guard[t]
        /\ UNCHANGED <<closed, isle, ans>>
        /\ guard' = [guard EXCEPT ![t] = NoIsle]
    BY <1>4 DEF ReturnOpen, Held
  <2>2. Held' = [Held EXCEPT ![t] = NoIsle]
    BY <1>2, <2>1 DEF Held
  <2>3. Making' = Making
    BY <1>2, <1>4 DEF ReturnOpen, Making, At
  <2>4. UNCHANGED <<Lost, Alive>>
    BY <2>1 DEF Lost, Alive
  <2>5. guard[t] \in Alive <=> IsAlive(guard[t])
    BY <2>1 DEF Alive, IsAlive, IsleInv, InPool
  <2>6. Spare' = IF guard[t] \in Alive THEN Spare \cup {guard[t]} ELSE Spare
    <3>1. CASE IsAlive(guard[t])
      <4>1. /\ Len(idle') = Len(idle) + 1
            /\ \A k \in 1 .. Len(idle) : idle'[k] = idle[k]
            /\ idle'[Len(idle) + 1] = guard[t]
        BY <1>4, <2>1, <3>1 DEF ReturnOpen
      <4>2. Spare' \subseteq Spare \cup {guard[t]}
        BY <4>1 DEF Spare
      <4>3. Spare \cup {guard[t]} \subseteq Spare'
        BY <4>1 DEF Spare
      <4>q. QED
        BY <2>5, <3>1, <4>2, <4>3
    <3>2. CASE ~IsAlive(guard[t])
      BY <1>4, <2>5, <3>2 DEF ReturnOpen, Spare
    <3>q. QED
      BY <3>1, <3>2
  <2>q. QED
    BY <2>1, <2>2, <2>3, <2>4, <2>6
       DEF LeaseStep, Leases!LeaseNext, Leases!GiveBack
<1>5. CASE ReturnJoined(t)
  <2>1. UNCHANGED <<closed, Lost, Spare, Alive>>
    BY <1>5 DEF ReturnJoined, Lost, Spare, Alive
  <2>2. UNCHANGED <<Making, Held>>
    BY <1>2, <1>5 DEF ReturnJoined, Making, Held, At
  <2>q. QED
    BY <2>1, <2>2 DEF LeaseStep, Same
<1>q. QED
  BY <1>3, <1>4, <1>5

\* A closed pool takes an isle back only to stop it.
LEMMA ReturnClosedMaps ==
  ASSUME PoolInv, NEW t \in Threads, ReturnClosed(t)
  PROVE  LeaseStep
<1> USE PoolAssumption DEF PoolInv, Types, PlaceInv
<1>1. /\ closed /\ guard[t] \in Isles /\ Held[t] = guard[t]
      /\ UNCHANGED <<closed, idle, guard, ans>>
  BY DEF ReturnClosed, Held
<1>2. Held' = [Held EXCEPT ![t] = NoIsle]
  BY <1>1 DEF ReturnClosed, Move, Held
<1>3. UNCHANGED <<Making, Lost, Spare>>
  BY <1>1 DEF ReturnClosed, Move, Making, Lost, Spare, At
<1>4. Alive' = Alive
  BY <1>1 DEF ReturnClosed, Told, Alive
<1>q. QED
  BY <1>1, <1>2, <1>3, <1>4 DEF LeaseStep, Leases!LeaseNext, Leases!GiveBack

\* shutdown, and isles that end.
LEMMA ShutMaps ==
  ASSUME PoolInv, NEW t \in Threads, ShutStart(t) \/ ShutTell(t) \/ ShutJoin(t)
  PROVE  LeaseStep
<1> USE PoolAssumption DEF PoolInv, Types, PlaceInv
<1>1. CASE ShutStart(t)
  <2>1. UNCHANGED <<Making, Lost, Held, Spare, Alive>> /\ closed' = TRUE
    BY <1>1 DEF ShutStart, Move, Making, Lost, Held, Spare, Alive, At
  <2>q. QED
    BY <2>1 DEF LeaseStep, Leases!LeaseNext, Leases!Close
<1>2. CASE ShutTell(t)
  <2>1. UNCHANGED <<closed, Making, Lost, Held, Spare>>
    BY <1>2 DEF ShutTell, poolVars, userVars, Making, Lost, Held, Spare, At
  <2>2. Alive' = Alive
    BY <1>2 DEF ShutTell, Told, Alive
  <2>q. QED
    BY <2>1, <2>2 DEF LeaseStep, Same
<1>3. CASE ShutJoin(t)
  <2>1. UNCHANGED <<closed, Making, Lost, Held, Alive>>
    BY <1>3 DEF ShutJoin, userVars, Making, Lost, Held, Alive, At
  <2>2. idle # <<>> /\ isle[Head(idle)] = "exited" /\ idle' = Tail(idle)
    BY <1>3 DEF ShutJoin
  <2>3. /\ Len(idle') = Len(idle) - 1
        /\ \A k \in 1 .. Len(idle) - 1 : idle'[k] = idle[k + 1]
        /\ Head(idle) = idle[1]
    BY <2>2
  <2>4. Spare' \subseteq Spare
    BY <2>2, <2>3 DEF Spare
  <2>5. Spare \cap Alive \subseteq Spare'
    <3> SUFFICES ASSUME NEW k \in 1 .. Len(idle), idle[k] \in Alive
                 PROVE  idle[k] \in Spare'
      BY DEF Spare
    <3>1. k # 1
      BY <2>2, <2>3 DEF Alive
    <3>2. k - 1 \in 1 .. Len(idle') /\ idle'[k - 1] = idle[k]
      BY <2>2, <2>3, <3>1
    <3>q. QED
      BY <3>2 DEF Spare
  <2>q. QED
    BY <2>1, <2>4, <2>5
       DEF LeaseStep, Leases!LeaseNext, Leases!Clear, Leases!KeepsLive
<1>q. QED
  BY <1>1, <1>2, <1>3

LEMMA EndMaps ==
  ASSUME PoolInv, NEW i \in Isles, IsleDies(i) \/ IsleStops(i)
  PROVE  LeaseStep
<1>1. UNCHANGED <<closed, Making, Lost, Held, Spare>>
  BY DEF IsleDies, IsleStops, poolVars, userVars, Making, Lost, Held, Spare, At
<1>2. Alive' = Alive \ {i}
  BY DEF PoolInv, Types, IsleDies, IsleStops, Alive
<1>q. QED
  BY <1>1, <1>2 DEF LeaseStep, Leases!LeaseNext, Leases!Die

LEMMA PoolStepMaps ==
  PoolInv /\ SlotsAccounted /\ SizeInv /\ [Next]_vars
    => [Leases!LeaseNext]_(Leases!leaseVars)
<1> SUFFICES ASSUME PoolInv, SlotsAccounted, SizeInv, [Next]_vars
             PROVE  LeaseStep
  BY DEF LeaseStep, Same, Leases!leaseVars
<1>1. CASE UNCHANGED vars
  BY <1>1 DEF vars, poolVars, userVars, LeaseStep, Same, Making, Lost, Held,
              Spare, Alive, At
<1>q. QED
  BY <1>1, QuietSteps, TakeIdleMaps, StartFactoryMaps, AtCapacityMaps,
     FactoryMaps, NotifyingMaps, ReturnClosedMaps, ShutMaps, EndMaps
     DEF Next, CheckoutStep, ReturnStep, ShutStep, LeaseStep

\* The pool's counter, mutex and condition variable, the factory calls outside
\* the mutex, deaths, errors, panics and shutdown implement the leases.
THEOREM PoolImplementsLeases == Spec => ImplementsLeases
<1>1. Init => Leases!LeaseInit
  BY DEF Init, Leases!LeaseInit, Making, Lost, Held, Spare, Alive, At
<1>q. QED
  BY <1>1, PoolStepMaps, SizeInvariant, PTL
  DEF Spec, ImplementsLeases, Leases!LeaseSpec
=============================================================================
