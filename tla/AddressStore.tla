---------------------------- MODULE AddressStore ----------------------------
(***************************************************************************)
(* The addresses the manager knows of one peer, with their scores          *)
(* (transport/manager/address.rs).  The manager inserts an address when it *)
(* is told of it, when a dial succeeds and when a dial fails; it dials the *)
(* addresses with the best scores.                                         *)
(***************************************************************************)
EXTENDS Integers, FiniteSets

CONSTANTS
  Address,
  Public,          \* addresses for which is_global_multiaddr holds
  max_capacity     \* MAX_ADDRESSES

ASSUME CapacityAssumption == max_capacity \in Nat \ {0}

CONNECTION_ESTABLISHED == 100
CONNECTION_FAILURE == -100
ADDRESS_FAILURE == -2147483647 - 1
PUBLIC_ADDRESS_BONUS == 1

(* What the manager has learnt of an address, and the score it inserts.    *)
Outcome == {"untested", "established", "failed", "invalid"}

Score(outcome) ==
  CASE outcome = "established" -> CONNECTION_ESTABLISHED
    [] outcome = "failed" -> CONNECTION_FAILURE
    [] outcome = "invalid" -> ADDRESS_FAILURE
    [] OTHER -> 0

VARIABLES
  addresses,       \* keys of AddressStore.addresses
  score,           \* address -> its score, if it is in the store
  outcome          \* history: address -> what was learnt last while it was there

vars == <<addresses, score, outcome>>

Init ==
  /\ addresses = {}
  /\ score = [a \in Address |-> 0]
  /\ outcome = [a \in Address |-> "untested"]

-----------------------------------------------------------------------------

(* A score of zero does not overwrite the history of an address. *)
Updates(o) == Score(o) # 0

(* insert of an address that is in the store *)
InsertKnown(a, o) ==
  /\ a \in addresses
  /\ Updates(o)
  /\ score' = [score EXCEPT ![a] = Score(o)]
  /\ outcome' = [outcome EXCEPT ![a] = IF o = "untested" THEN @ ELSE o]
  /\ UNCHANGED addresses

WithBonus(a, s) == IF a \in Public THEN s + PUBLIC_ADDRESS_BONUS ELSE s

(* Mutant: the new address is judged with its bonus, ties in its favour. *)
Beats_bonus(a, o, min) == WithBonus(a, Score(o)) >= score[min]

(* The new address evicts only a strictly worse one, and is judged without *)
(* its bonus.                                                              *)
Beats(a, o, min) == Score(o) > score[min]

Worst(a) == a \in addresses /\ \A b \in addresses : score[a] <= score[b]

HasRoom == Cardinality(addresses) < max_capacity

Enters(a, o) ==
  /\ score' = [score EXCEPT ![a] = WithBonus(a, Score(o))]
  /\ outcome' = [outcome EXCEPT ![a] = o]

(* insert of a new address *)
InsertNew(a, o) ==
  /\ a \notin addresses
  /\ HasRoom
  /\ addresses' = addresses \cup {a}
  /\ Enters(a, o)

(* ... when the store is full; nothing changes unless the worst address is *)
(* worse than the new one.                                                 *)
InsertEvicting(a, o) ==
  /\ a \notin addresses
  /\ ~HasRoom
  /\ \E min \in addresses :
       /\ Worst(min)
       /\ Beats(a, o, min)
       /\ addresses' = (addresses \ {min}) \cup {a}
  /\ Enters(a, o)

Next ==
  \E a \in Address, o \in Outcome :
    \/ InsertKnown(a, o)
    \/ InsertNew(a, o)
    \/ InsertEvicting(a, o)

Spec == Init /\ [][Next]_vars

(* addresses(limit): the sets of addresses a dial may be given.  Ties are  *)
(* decided by the order of the hash map.                                   *)
Dialed(limit) ==
  {best \in SUBSET addresses :
     /\ \A a \in best, b \in addresses \ best : score[b] <= score[a]
     /\ \/ Cardinality(best) = limit
        \/ best = addresses /\ Cardinality(best) < limit}

-----------------------------------------------------------------------------

(* What was learnt last decides between two addresses, not the bonus.      *)
Rank(o) ==
  CASE o = "established" -> 3 [] o = "untested" -> 2 [] o = "failed" -> 1 [] OTHER -> 0

(* A dial is never given an address that failed while one that worked, or  *)
(* has not been tried, is left out: scores keep the order of outcomes      *)
(* through bonuses, updates and evictions.                                 *)
BetterDialedFirst ==
  \A limit \in 0 .. max_capacity :
    \A best \in Dialed(limit) :
      \A a \in best, b \in addresses \ best : Rank(outcome[b]) <= Rank(outcome[a])

(* The store keeps its capacity. *)
WithinCapacity == IsFiniteSet(addresses) /\ Cardinality(addresses) <= max_capacity

(* An address that worked last is never evicted, and an untested address   *)
(* takes only the place of one that failed ("Untested addresses can        *)
(* therefore only replace failed ones").                                   *)
Evicts ==
  \A a \in addresses \ addresses' :
    /\ outcome[a] # "established"
    /\ (\E b \in addresses' \ addresses : outcome'[b] = "untested")
         => outcome[a] \in {"failed", "invalid"}

EvictsFailed == [][Evicts]_vars
=============================================================================
