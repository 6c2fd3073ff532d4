-------------------------- MODULE PoolLeasesProofs --------------------------
(***************************************************************************)
(* That PoolLeases promises what a pool's users count on: its guards say   *)
(* when a lease may be given, and these proofs what follows of any history *)
(* of leases, deaths and closing.  IslePool implements PoolLeases, so all  *)
(* of it holds of the pool, under the mapping that IslePool gives.         *)
(***************************************************************************)
EXTENDS PoolLeases, FiniteSetTheorems, TLAPS

\* What IslePool assumes of its constants.
LeaseConstants ==
  IsFiniteSet(Threads) /\ MaxSize \in Nat /\ NoIsle \notin Isles

\* Isles whose threads run and that nobody has leased.
Loose == {i \in alive : \A t \in Threads : held[t] # i}

LeaseTypes ==
  /\ making \subseteq Threads /\ lost \subseteq Threads
  /\ held \in [Threads -> Isles \cup {NoIsle}]
  /\ spare \subseteq Isles /\ alive \subseteq Isles
  /\ IsFiniteSet(alive)

\* A thread takes one slot at a time.
OneSlotEach ==
  /\ making \cap lost = {}
  /\ \A t \in Threads : held[t] # NoIsle => t \notin making \cup lost

\* No isle is leased twice, nor kept for a next lease while it is leased.
LeasesAreExclusive ==
  \A t \in Threads :
    held[t] # NoIsle => /\ held[t] \notin spare
                        /\ \A u \in Threads : held[u] = held[t] => u = t

\* While the pool is open it loses no live isle: what nobody has leased is
\* there for the next lease.
NothingLeaks == open => Loose \subseteq spare

\* Slots that are taken, and live isles nobody holds, share max_size.
SlotsShared == Cardinality(Taken) + Cardinality(Loose) <= MaxSize

LeaseInv ==
  LeaseTypes /\ OneSlotEach /\ LeasesAreExclusive /\ NothingLeaks /\ SlotsShared

-----------------------------------------------------------------------------
LEMMA TakenFinite ==
  ASSUME LeaseConstants, LeaseTypes
  PROVE  /\ IsFiniteSet(Taken) /\ Cardinality(Taken) \in Nat
         /\ IsFiniteSet(Loose) /\ Cardinality(Loose) \in Nat
<1>1. Taken \subseteq Threads /\ Loose \subseteq alive
  BY DEF Taken, Loose, LeaseTypes
<1>2. IsFiniteSet(Taken) /\ IsFiniteSet(Loose)
  BY <1>1, FS_Subset DEF LeaseConstants, LeaseTypes
<1>q. QED
  BY <1>2, FS_CardinalityType

\* Taking a slot, and giving one back, with the isle or without it.
LEMMA SharesKept ==
  ASSUME LeaseConstants, LeaseInv, LeaseTypes',
         \/ Taken' = Taken /\ Loose' \subseteq Loose
         \/ \E i \in Loose, t \in Threads \ Taken :
              Taken' = Taken \cup {t} /\ Loose' = Loose \ {i}
         \/ Loose = {} /\ Loose' = {} /\ Cardinality(Taken) < MaxSize
            /\ \E t \in Threads \ Taken : Taken' = Taken \cup {t}
         \/ \E t \in Taken, i \in Isles \cup {NoIsle} :
              Taken' = Taken \ {t} /\ Loose' \subseteq Loose \cup {i}
  PROVE  SlotsShared'
<1>1. /\ IsFiniteSet(Taken) /\ Cardinality(Taken) \in Nat
      /\ IsFiniteSet(Loose) /\ Cardinality(Loose) \in Nat
      /\ MaxSize \in Nat
      /\ Cardinality(Taken) + Cardinality(Loose) <= MaxSize
  BY TakenFinite DEF LeaseInv, SlotsShared, LeaseConstants
<1>2. ASSUME Taken' = Taken, Loose' \subseteq Loose
      PROVE  SlotsShared'
  <2>1. Cardinality(Loose') <= Cardinality(Loose) /\ IsFiniteSet(Loose')
    BY <1>1, <1>2, FS_Subset
  <2>2. Cardinality(Loose') \in Nat
    BY <2>1, FS_CardinalityType
  <2>3. Cardinality(Taken') = Cardinality(Taken)
    BY <1>2
  <2>q. QED
    BY <1>1, <2>1, <2>2, <2>3 DEF SlotsShared
<1>3. ASSUME NEW i \in Loose, NEW t \in Threads \ Taken,
             Taken' = Taken \cup {t}, Loose' = Loose \ {i}
      PROVE  SlotsShared'
  <2>1. Cardinality(Taken') = Cardinality(Taken) + 1
    BY <1>1, <1>3, FS_AddElement
  <2>2. Cardinality(Loose') = Cardinality(Loose) - 1
    BY <1>1, <1>3, FS_RemoveElement
  <2>q. QED
    BY <1>1, <2>1, <2>2 DEF SlotsShared
<1>4. ASSUME Loose' = {}, Cardinality(Taken) < MaxSize,
             NEW t \in Threads \ Taken, Taken' = Taken \cup {t}
      PROVE  SlotsShared'
  <2>1. Cardinality(Taken') = Cardinality(Taken) + 1
    BY <1>1, <1>4, FS_AddElement
  <2>2. Cardinality(Loose') = 0
    BY <1>4, FS_EmptySet
  <2>q. QED
    BY <1>1, <1>4, <2>1, <2>2 DEF SlotsShared
<1>5. ASSUME NEW t \in Taken, NEW i \in Isles \cup {NoIsle},
             Taken' = Taken \ {t}, Loose' \subseteq Loose \cup {i}
      PROVE  SlotsShared'
  <2>1. Cardinality(Taken') = Cardinality(Taken) - 1
    BY <1>1, <1>5, FS_RemoveElement
  <2>2. /\ IsFiniteSet(Loose \cup {i})
        /\ Cardinality(Loose \cup {i}) <= Cardinality(Loose) + 1
    <3>1. /\ IsFiniteSet(Loose \cup {i})
          /\ Cardinality(Loose \cup {i})
               = IF i \in Loose THEN Cardinality(Loose) ELSE Cardinality(Loose) + 1
      BY <1>1, FS_AddElement, Zenon
    <3>q. QED
      BY <1>1, <3>1
  <2>3. Cardinality(Loose') <= Cardinality(Loose \cup {i}) /\ IsFiniteSet(Loose')
    BY <1>5, <2>2, FS_Subset
  <2>4. Cardinality(Loose') \in Nat /\ Cardinality(Loose \cup {i}) \in Nat
    BY <2>2, <2>3, FS_CardinalityType
  <2>q. QED
    BY <1>1, <2>1, <2>2, <2>3, <2>4 DEF SlotsShared
<1>q. QED
  BY <1>2, <1>3, <1>4, <1>5

LEMMA LeaseInvInit == LeaseConstants /\ LeaseInit => LeaseInv
<1> SUFFICES ASSUME LeaseConstants, LeaseInit
             PROVE  LeaseInv
  OBVIOUS
<1>1. Taken = {} /\ Loose = {}
  BY DEF LeaseInit, Taken, Loose
<1>2. IsFiniteSet({}) /\ Cardinality({}) = 0
  BY FS_EmptySet
<1>3. LeaseTypes
  BY <1>2 DEF LeaseInit, LeaseTypes
<1>4. SlotsShared
  BY <1>1, <1>2 DEF SlotsShared, LeaseConstants
<1>q. QED
  BY <1>1, <1>3, <1>4
     DEF LeaseInit, LeaseInv, OneSlotEach, LeasesAreExclusive, NothingLeaks

LEMMA LeaseInvStep ==
  LeaseConstants /\ LeaseInv /\ [LeaseNext]_leaseVars => LeaseInv'
<1> SUFFICES ASSUME LeaseConstants, LeaseInv, [LeaseNext]_leaseVars
             PROVE  LeaseInv'
  OBVIOUS
<1>c. NoIsle \notin Isles
  BY DEF LeaseConstants
<1>1. ASSUME NEW t \in Threads, NEW i \in Isles, Lease(t, i)
      PROVE  LeaseInv'
  <2> USE <1>1, <1>c DEF LeaseInv, LeaseTypes, OneSlotEach, LeasesAreExclusive,
          NothingLeaks, Lease, KeepsLive
  <2>1. i \in Loose
    BY DEF Loose
  <2>2. t \in Threads \ Taken /\ Taken' = Taken \cup {t}
    BY DEF Taken
  <2>3. Loose' = Loose \ {i}
    BY DEF Loose, Taken
  <2>4. LeaseTypes' /\ OneSlotEach' /\ LeasesAreExclusive'
    BY DEF Taken
  <2>5. NothingLeaks'
    BY <2>3 DEF Loose
  <2>6. SlotsShared'
    BY <2>1, <2>2, <2>3, <2>4, SharesKept
  <2>q. QED
    BY <2>4, <2>5, <2>6
<1>2. ASSUME NEW t \in Threads, Grow(t)
      PROVE  LeaseInv'
  <2> USE <1>2, <1>c DEF LeaseInv, LeaseTypes, OneSlotEach, LeasesAreExclusive,
          NothingLeaks, Grow
  <2>1. Loose = {} /\ Loose' = {}
    BY DEF Loose
  <2>2. t \in Threads \ Taken /\ Taken' = Taken \cup {t}
    BY DEF Taken
  <2>3. LeaseTypes' /\ OneSlotEach' /\ LeasesAreExclusive' /\ NothingLeaks'
    BY <2>1 DEF Taken
  <2>4. SlotsShared'
    BY <2>1, <2>2, <2>3, SharesKept
  <2>q. QED
    BY <2>3, <2>4
<1>3. ASSUME NEW t \in Threads, NEW i \in Isles, Made(t, i)
      PROVE  LeaseInv'
  <2> USE <1>3, <1>c DEF LeaseInv, LeaseTypes, OneSlotEach, LeasesAreExclusive,
          NothingLeaks, Made
  <2>1. held[t] = NoIsle
    OBVIOUS
  <2>2. Taken' = Taken
    BY <2>1 DEF Taken
  <2>3. Loose' = Loose
    BY <2>1 DEF Loose
  <2>4. IsFiniteSet(alive')
    BY FS_AddElement
  <2>5. LeaseTypes' /\ OneSlotEach' /\ LeasesAreExclusive' /\ NothingLeaks'
    BY <2>1, <2>3, <2>4
  <2>6. SlotsShared'
    BY <2>2, <2>3, <2>5, SharesKept
  <2>q. QED
    BY <2>5, <2>6
<1>4. ASSUME NEW t \in Threads, NotMade(t)
      PROVE  LeaseInv'
  <2> USE <1>4, <1>c DEF LeaseInv, LeaseTypes, OneSlotEach, LeasesAreExclusive,
          NothingLeaks, NotMade
  <2>1. Loose' = Loose
    BY DEF Loose
  <2>2. t \in Taken /\ Taken' = Taken \ {t}
    BY DEF Taken
  <2>3. LeaseTypes' /\ OneSlotEach' /\ LeasesAreExclusive' /\ NothingLeaks'
    BY <2>1
  <2>4. SlotsShared'
    BY <2>1, <2>2, <2>3, SharesKept
  <2>q. QED
    BY <2>3, <2>4
<1>5. ASSUME NEW t \in Threads, Lose(t)
      PROVE  LeaseInv'
  <2> USE <1>5, <1>c DEF LeaseInv, LeaseTypes, OneSlotEach, LeasesAreExclusive,
          NothingLeaks, Lose
  <2>1. Loose' = Loose /\ Taken' = Taken
    BY DEF Loose, Taken
  <2>2. LeaseTypes' /\ OneSlotEach' /\ LeasesAreExclusive' /\ NothingLeaks'
    BY <2>1
  <2>3. SlotsShared'
    BY <2>1, <2>2, SharesKept
  <2>q. QED
    BY <2>2, <2>3
<1>6. ASSUME NEW t \in Threads, GiveBack(t)
      PROVE  LeaseInv'
  <2> USE <1>6, <1>c DEF LeaseInv, LeaseTypes, OneSlotEach, LeasesAreExclusive,
          NothingLeaks, GiveBack
  <2>1. t \in Taken /\ Taken' = Taken \ {t}
    BY DEF Taken
  <2>2. held[t] \in Isles
    OBVIOUS
  <2>3. /\ Loose' \subseteq Loose \cup {held[t]}
        /\ open /\ Loose' # Loose => held[t] \in spare'
    BY DEF Loose
  <2>4. LeaseTypes' /\ OneSlotEach' /\ LeasesAreExclusive'
    BY <2>2
  <2>5. NothingLeaks'
    BY <2>2, <2>3 DEF Loose
  <2>6. SlotsShared'
    BY <2>1, <2>2, <2>3, <2>4, SharesKept
  <2>q. QED
    BY <2>4, <2>5, <2>6
<1>7. ASSUME NEW i \in Isles, Die(i)
      PROVE  LeaseInv'
  <2> USE <1>7, <1>c DEF LeaseInv, LeaseTypes, OneSlotEach, LeasesAreExclusive,
          NothingLeaks, Die
  <2>1. Taken' = Taken /\ Loose' \subseteq Loose
    BY DEF Taken, Loose
  <2>2. IsFiniteSet(alive')
    BY FS_RemoveElement
  <2>3. LeaseTypes' /\ OneSlotEach' /\ LeasesAreExclusive' /\ NothingLeaks'
    BY <2>1, <2>2
  <2>4. SlotsShared'
    BY <2>1, <2>3, SharesKept
  <2>q. QED
    BY <2>3, <2>4
<1>8. CASE Clear \/ Close \/ UNCHANGED leaseVars
  <2> USE <1>8, <1>c DEF LeaseInv, LeaseTypes, OneSlotEach, LeasesAreExclusive,
          NothingLeaks, Clear, KeepsLive, Close, leaseVars
  <2>1. Taken' = Taken /\ Loose' = Loose
    BY DEF Taken, Loose
  <2>2. LeaseTypes' /\ OneSlotEach' /\ LeasesAreExclusive'
    OBVIOUS
  <2>3. NothingLeaks'
    BY <2>1 DEF Loose
  <2>4. SlotsShared'
    BY <2>1, <2>2, SharesKept
  <2>q. QED
    BY <2>2, <2>3, <2>4
<1>q. QED
  BY <1>1, <1>2, <1>3, <1>4, <1>5, <1>6, <1>7, <1>8 DEF LeaseNext

LEMMA LeaseInvariant ==
  ASSUME LeaseConstants
  PROVE  LeaseSpec => []LeaseInv
<1>1. LeaseInit => LeaseInv
  BY LeaseInvInit
<1>2. LeaseInv /\ [LeaseNext]_leaseVars => LeaseInv'
  BY LeaseInvStep
<1>q. QED
  BY <1>1, <1>2, PTL DEF LeaseSpec

\* pool.rs's promise to its users: two guards never hold one isle, and none
\* holds an isle that the next checkout may get.
THEOREM LeasedToOne ==
  ASSUME LeaseConstants
  PROVE  LeaseSpec => []LeasesAreExclusive
<1>1. LeaseInv => LeasesAreExclusive
  BY DEF LeaseInv
<1>q. QED
  BY <1>1, LeaseInvariant, PTL

\* No history of errors, panics and deaths makes an open pool lose an isle
\* that still works: whoever needs one grows the pool only when it is empty.
THEOREM LiveIslesAreKept ==
  ASSUME LeaseConstants
  PROVE  LeaseSpec => []NothingLeaks
<1>1. LeaseInv => NothingLeaks
  BY DEF LeaseInv
<1>q. QED
  BY <1>1, LeaseInvariant, PTL

\* PoolConfig::max_size, of leases and of isles: no more are leased, being made
\* or lost than it says, and no more threads of isles run.
MaxSizeKept == Cardinality(Taken) <= MaxSize /\ Cardinality(alive) <= MaxSize

\* The bound on leases is one on isles: each is leased once or loose, and the
\* loose ones were counted with the slots.
THEOREM MaxSizeHolds ==
  ASSUME LeaseConstants
  PROVE  LeaseSpec => []MaxSizeKept
<1>1. ASSUME LeaseInv
      PROVE  MaxSizeKept
  <2> DEFINE Holders == {t \in Threads : held[t] # NoIsle}
             H == {held[t] : t \in Holders}
             f == [t \in Holders |-> held[t]]
  <2>1. /\ IsFiniteSet(Taken) /\ Cardinality(Taken) \in Nat
        /\ IsFiniteSet(Loose) /\ Cardinality(Loose) \in Nat
        /\ MaxSize \in Nat
        /\ Cardinality(Taken) + Cardinality(Loose) <= MaxSize
    BY <1>1, TakenFinite DEF LeaseInv, SlotsShared, LeaseConstants
  <2>2. Holders \subseteq Taken
    BY DEF Taken
  <2>3. IsFiniteSet(Holders) /\ Cardinality(Holders) <= Cardinality(Taken)
    BY <2>1, <2>2, FS_Subset
  <2>4. f \in Surjection(Holders, H)
    BY DEF Surjection
  <2>5. IsFiniteSet(H) /\ Cardinality(H) <= Cardinality(Holders)
    BY <2>3, <2>4, FS_Surjection
  <2>6. IsFiniteSet(H \cap Loose)
    BY <2>5, FS_Intersection
  <2>7. /\ Cardinality(Holders) \in Nat /\ Cardinality(H) \in Nat
        /\ Cardinality(H \cap Loose) \in Nat
    BY <2>3, <2>5, <2>6, FS_CardinalityType
  <2>8. /\ IsFiniteSet(H \cup Loose)
        /\ Cardinality(H \cup Loose)
             = Cardinality(H) + Cardinality(Loose) - Cardinality(H \cap Loose)
    BY <2>1, <2>5, FS_Union
  <2>9. alive \subseteq H \cup Loose
    <3> SUFFICES ASSUME NEW i \in alive, i \notin Loose
                 PROVE  i \in H
      OBVIOUS
    <3>1. PICK t \in Threads : held[t] = i
      BY DEF Loose
    <3>2. i # NoIsle
      BY <1>1 DEF LeaseInv, LeaseTypes, LeaseConstants
    <3>q. QED
      BY <3>1, <3>2
  <2>10. IsFiniteSet(alive) /\ Cardinality(alive) <= Cardinality(H \cup Loose)
    BY <2>8, <2>9, FS_Subset
  <2>11. Cardinality(alive) \in Nat
    BY <2>10, FS_CardinalityType
  <2> HIDE DEF Holders, H, f
  <2>q. QED
    BY <2>1, <2>3, <2>5, <2>7, <2>8, <2>10, <2>11 DEF MaxSizeKept
<1>q. QED
  BY <1>1, LeaseInvariant, PTL
=============================================================================
