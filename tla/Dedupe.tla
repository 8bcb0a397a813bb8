------------------------------ MODULE Dedupe ------------------------------
(***************************************************************************)
(* The ingest dedupe of the queue writer (dedupe_check/6), as a function of  *)
(* the calls of one group, in order, and of the stored value of each dedupe  *)
(* key.  A stored value is the expiry of the key and the id of the hook that *)
(* holds it.  The source threads `seen`, `usage` and `n` through the group;  *)
(* here each outcome is stated by what comes before it in the group.         *)
(***************************************************************************)
EXTENDS Integers, FiniteSets, Sequences

CONSTANTS
    Keys,        \* dedupe keys (tenant, source, provider key)
    None,        \* no key, no id
    KeyOf,       \* the key of each call's hook, or None
    TTL,         \* dedupe_ttl_ms
    DedupeMax    \* dedupe.max_entries

ASSUME KeysAssumption == None \notin Keys
ASSUME TTLAssumption == TTL \in Nat \ {0}
ASSUME DedupeMaxAssumption == DedupeMax \in Nat

(* The value of a key that is not stored. *)
Absent == [exp |-> 0, id |-> None]

Keyed(g) == {i \in DOMAIN g : KeyOf[g[i]] # None}

SameKey(g, i, j) == KeyOf[g[i]] = KeyOf[g[j]]

(* A variant in which an entry suppresses in the millisecond it expires. *)
KnownThrough(g, stored, now) == {i \in Keyed(g) : stored[KeyOf[g[i]]].exp >= now}

(* A stored entry suppresses a hook only while its expiry is after `now`. *)
Known(g, stored, now) == {i \in Keyed(g) : stored[KeyOf[g[i]]].exp > now}

(* The first call of each key that no stored entry suppresses. *)
Heads(g, stored, now) ==
    {i \in Keyed(g) \ Known(g, stored, now) :
        \A j \in Keyed(g) : j < i => ~SameKey(g, i, j)}

(* A variant that counts an expired key replaced in place as a new one. *)
AddingHeads(g, stored, now) == Heads(g, stored, now)

(* The heads whose key is not stored at all: each adds a live key. *)
Adding(g, stored, now) ==
    {i \in Heads(g, stored, now) : stored[KeyOf[g[i]]] = Absent}

(* over_quota?/3: the keys counted when the group was checked, and those the *)
(* group adds before this one.  A quarantine release is never refused.       *)
Admitted(g, stored, now, used, enforce) ==
    {i \in Adding(g, stored, now) :
        enforce => used + Cardinality({j \in Adding(g, stored, now) : j < i}) < DedupeMax}

(* The calls that commit: no key, an expired key replaced, a new key. *)
Fresh(g, stored, now, used, enforce) ==
    (DOMAIN g \ Keyed(g))
      \cup (Heads(g, stored, now) \ Adding(g, stored, now))
      \cup Admitted(g, stored, now, used, enforce)

(* The id a duplicate is answered with: the stored holder's, or that of the *)
(* call of this group that took the key; None if the call is refused.       *)
Original(g, stored, now, fresh, i) ==
    IF i \in Known(g, stored, now) THEN stored[KeyOf[g[i]]].id
    ELSE IF \E j \in fresh : j < i /\ SameKey(g, i, j)
         THEN g[CHOOSE j \in fresh : j < i /\ SameKey(g, i, j)]
         ELSE None
=============================================================================
