----------------------------- MODULE MemoryStore -----------------------------
(***************************************************************************)
(* The store of Kademlia (store.rs, record.rs) with the refreshing of      *)
(* local providers that kademlia/mod.rs does on its action.                *)
(*                                                                         *)
(* A provider is the number that is its distance from the key.  Time is a  *)
(* counter that Tick advances up to MaxTime.                               *)
(***************************************************************************)
EXTENDS Naturals, FiniteSets, SequencesExt

CONSTANTS
  None,
  RecordKey,
  Provider,                \* remote peers
  local_peer_id,           \* a number, too
  max_records, max_provider_keys, max_providers_per_key, provider_ttl,
  MaxTime,                 \* bound on the clock
  MaxTimers                \* bound on the timers of a key

VARIABLES
  now,
  records,                     \* key -> record, or None; a record is its time of expiry
  provider_keys,               \* key -> sequence of provider records, empty if it has no entry
  local_providers,             \* keys this node provides
  pending_provider_refresh     \* key -> refresh timers that are running

vars == <<now, records, provider_keys, local_providers, pending_provider_refresh>>

Never == MaxTime + provider_ttl + 1

Init ==
  /\ now = 0
  /\ records = [k \in RecordKey |-> None]
  /\ provider_keys = [k \in RecordKey |-> <<>>]
  /\ local_providers = {}
  /\ pending_provider_refresh = [k \in RecordKey |-> 0]

Tick ==
  /\ now < MaxTime
  /\ now' = now + 1
  /\ UNCHANGED <<records, provider_keys, local_providers, pending_provider_refresh>>

Held == {k \in RecordKey : records[k] # None}
Provided == {k \in RecordKey : provider_keys[k] # <<>>}

-----------------------------------------------------------------------------

(* get *)
Get(k) ==
  /\ records' = [records EXCEPT ![k] = IF @ # None /\ now >= @ THEN None ELSE @]
  /\ UNCHANGED <<now, provider_keys, local_providers, pending_provider_refresh>>

(* A record that expires earlier than the one it would replace is dropped. *)
Supersedes(stored, expires) == stored = Never \/ expires = Never \/ stored <= expires

(* put of a record that is not too large *)
Put(k, expires) ==
  /\ records' = [records EXCEPT ![k] =
       IF @ = None THEN (IF Cardinality(Held) < max_records THEN expires ELSE None)
       ELSE IF Supersedes(@, expires) THEN expires ELSE @]
  /\ UNCHANGED <<now, provider_keys, local_providers, pending_provider_refresh>>

(* get_providers drops the providers that have expired ... *)
Fresh(k) == SelectSeq(provider_keys[k], LAMBDA r : now < r.expires)

GetProviders(k) ==
  /\ provider_keys' = [provider_keys EXCEPT ![k] = Fresh(k)]
  /\ UNCHANGED <<now, records, local_providers, pending_provider_refresh>>

(* What binary_search finds in providers sorted by distance: the place of  *)
(* the first one that is not closer.                                       *)
Position(providers, p) ==
  1 + Cardinality({i \in DOMAIN providers : providers[i].peer < p})

(* ... and returns them with the local one in its place. *)
get_providers(k) ==
  LET peers == [i \in DOMAIN Fresh(k) |-> Fresh(k)[i].peer] IN
  IF k \notin local_providers THEN peers
  ELSE InsertAt(peers, Position(Fresh(k), local_peer_id), local_peer_id)

(* The providers of a key with one more: the furthest makes room.          *)
Inserted(providers, r) ==
  LET i == Position(providers, r.peer)
      room == IF Len(providers) = max_providers_per_key THEN Front(providers) ELSE providers IN
  IF i <= Len(providers) /\ providers[i].peer = r.peer THEN [providers EXCEPT ![i] = r]
  ELSE IF i = max_providers_per_key + 1 THEN providers
  ELSE InsertAt(room, i, r)

(* put_provider of a remote peer *)
PutProvider(k, p) ==
  LET r == [peer |-> p, expires |-> now + provider_ttl] IN
  /\ provider_keys' = [provider_keys EXCEPT ![k] =
       IF @ # <<>> THEN Inserted(@, r)
       ELSE IF Cardinality(Provided) < max_provider_keys THEN <<r>> ELSE @]
  /\ UNCHANGED <<now, records, local_providers, pending_provider_refresh>>

(* put_local_provider starts a timer every time it accepts the key.        *)
CanProvide(k) == k \in local_providers \/ Cardinality(local_providers) < max_provider_keys

PutLocalProvider(k) ==
  /\ pending_provider_refresh[k] < MaxTimers
  /\ local_providers' = IF CanProvide(k) THEN local_providers \cup {k} ELSE local_providers
  /\ pending_provider_refresh' =
       [pending_provider_refresh EXCEPT ![k] = IF CanProvide(k) THEN @ + 1 ELSE @]
  /\ UNCHANGED <<now, records, provider_keys>>

RemoveLocalProvider(k) ==
  /\ local_providers' = local_providers \ {k}
  /\ UNCHANGED <<now, records, provider_keys, pending_provider_refresh>>

(* Mutant: the protocol only announces the provider. *)
Refreshed_none(k) == pending_provider_refresh[k] - 1

(* next_action, and put_local_provider of RefreshProvider. *)
Refreshed(k) == pending_provider_refresh[k] - (IF k \in local_providers THEN 0 ELSE 1)

NextAction(k) ==
  /\ pending_provider_refresh[k] > 0
  /\ pending_provider_refresh' = [pending_provider_refresh EXCEPT ![k] = Refreshed(k)]
  /\ UNCHANGED <<now, records, provider_keys, local_providers>>

Next ==
  \/ Tick
  \/ \E k \in RecordKey :
       \/ Get(k) \/ GetProviders(k)
       \/ \E e \in 1 .. MaxTime \cup {Never} : Put(k, e)
       \/ \E p \in Provider : PutProvider(k, p)
       \/ PutLocalProvider(k) \/ RemoveLocalProvider(k) \/ NextAction(k)

Spec == Init /\ [][Next]_vars

-----------------------------------------------------------------------------
(* Properties *)

(* The store stays within its limits: records, keys, providers of a key    *)
(* and keys of the local provider.                                         *)
WithinLimits ==
  /\ Cardinality(Held) <= max_records
  /\ Cardinality(Provided) <= max_provider_keys
  /\ \A k \in RecordKey : Len(provider_keys[k]) <= max_providers_per_key
  /\ Cardinality(local_providers) <= max_provider_keys

(* The answer of get_providers names every provider once, closest first,   *)
(* with the local one in its place: the order the binary searches need.    *)
ProvidersSorted ==
  \A k \in RecordKey : LET ps == get_providers(k) IN
    \A i, j \in DOMAIN ps : i < j => ps[i] < ps[j]

(* A key that this node provides is always going to be announced again:    *)
(* stopping and starting to provide it never loses its last timer.         *)
ProvidedRefreshed == \A k \in local_providers : pending_provider_refresh[k] > 0

(* The maps and timers of the store agree, through expiry, replacement and *)
(* limits that are reached.                                                *)
Inv == WithinLimits /\ ProvidersSorted /\ ProvidedRefreshed
=============================================================================
