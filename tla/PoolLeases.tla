----------------------------- MODULE PoolLeases -----------------------------
(***************************************************************************)
(* What a pool promises its users, without mutex, counter or condition     *)
(* variable: threads lease isles, at most MaxSize leases at once counting  *)
(* those whose isle is still being made, and each isle to one thread.  A   *)
(* leased isle was alive when it was handed out, a live spare isle is      *)
(* never thrown away, and a closed pool leases and keeps nothing more.     *)
(* The docs of PoolConfig, checkout and shutdown promise this much, and    *)
(* IslePool is shown to implement it.                                      *)
(***************************************************************************)
EXTENDS Integers, FiniteSets

CONSTANTS Threads, Isles, NoIsle, MaxSize

VARIABLES
  open,    \* the pool has not been shut down
  making,  \* threads whose isle the factory is making
  lost,    \* threads whose factory call panicked: their slots are gone
  held,    \* the isle each thread has leased, NoIsle if none
  spare,   \* isles kept for the next lease
  alive    \* isles whose threads run

leaseVars == <<open, making, lost, held, spare, alive>>

LeaseInit ==
  /\ open = TRUE /\ making = {} /\ lost = {}
  /\ held = [t \in Threads |-> NoIsle]
  /\ spare = {} /\ alive = {}

Taken == making \cup lost \cup {t \in Threads : held[t] # NoIsle}

\* Only dead isles are thrown away.
KeepsLive(gone) ==
  spare' \subseteq spare \ gone /\ (spare \cap alive) \ gone \subseteq spare'

Lease(t, i) ==
  /\ open /\ t \notin Taken /\ Cardinality(Taken) < MaxSize
  /\ i \in spare \cap alive
  /\ held' = [held EXCEPT ![t] = i]
  /\ KeepsLive({i})
  /\ UNCHANGED <<open, making, lost, alive>>

\* The pool grows only if no spare isle is alive.
Grow(t) ==
  /\ open /\ t \notin Taken /\ Cardinality(Taken) < MaxSize
  /\ spare \cap alive = {} /\ spare' = {}
  /\ making' = making \cup {t}
  /\ UNCHANGED <<open, lost, held, alive>>

Made(t, i) ==
  /\ t \in making /\ making' = making \ {t}
  /\ i \notin alive \cup spare /\ \A u \in Threads : held[u] # i
  /\ held' = [held EXCEPT ![t] = i]
  /\ alive' = alive \cup {i}
  /\ UNCHANGED <<open, lost, spare>>

NotMade(t) ==
  /\ t \in making /\ making' = making \ {t}
  /\ UNCHANGED <<open, lost, held, spare, alive>>

Lose(t) ==
  /\ t \in making /\ making' = making \ {t}
  /\ lost' = lost \cup {t}
  /\ UNCHANGED <<open, held, spare, alive>>

GiveBack(t) ==
  /\ held[t] # NoIsle /\ held' = [held EXCEPT ![t] = NoIsle]
  /\ spare' = IF open /\ held[t] \in alive THEN spare \cup {held[t]} ELSE spare
  /\ UNCHANGED <<open, making, lost, alive>>

Clear == KeepsLive({}) /\ UNCHANGED <<open, making, lost, held, alive>>

Die(i) == alive' = alive \ {i} /\ UNCHANGED <<open, making, lost, held, spare>>

Close == open' = FALSE /\ UNCHANGED <<making, lost, held, spare, alive>>

LeaseNext ==
  \/ \E t \in Threads :
       \/ \E i \in Isles : Lease(t, i) \/ Made(t, i)
       \/ Grow(t) \/ NotMade(t) \/ Lose(t) \/ GiveBack(t)
  \/ \E i \in Isles : Die(i)
  \/ Clear \/ Close

LeaseSpec == LeaseInit /\ [][LeaseNext]_leaseVars
=============================================================================
