----------------------------- MODULE DedupeFold -----------------------------
(***************************************************************************)
(* The loop of dedupe_check/6 as the writer runs it: one call at a time,      *)
(* threading `seen` (the holder of each key met so far), the live-key count  *)
(* and the ops.  Dedupe states the same outcome without the loop; here the   *)
(* two are compared on every group.                                          *)
(***************************************************************************)
EXTENDS Dedupe

CONSTANTS
    Calls,       \* the calls a group is drawn from
    MaxLen,      \* the longest group
    Stored,      \* the values a key may be stored with
    Used         \* the live-key counts the check may start from

VARIABLES
    group, stored, used, enforce,    \* the arguments
    pos,                             \* the call being checked
    seen, usage, results, drops      \* the accumulator

input == <<group, stored, used, enforce>>
vars == <<input, pos, seen, usage, results, drops>>

now == 1

Init ==
    /\ group \in {g \in UNION {[1..n -> Calls] : n \in 1..MaxLen} :
                     \A i, j \in DOMAIN g : g[i] = g[j] => i = j}
    /\ stored \in [Keys -> Stored \cup {Absent}]
    /\ used \in Used /\ enforce \in BOOLEAN
    /\ pos = 1
    /\ seen = [k \in Keys |-> None] /\ usage = used
    /\ results = <<>> /\ drops = {}

Call == group[pos]
Key == KeyOf[Call]

(* The call's own result, and the holder its key has from here on. *)
Result(r, holder) ==
    /\ results' = Append(results, r)
    /\ seen' = IF Key = None THEN seen ELSE [seen EXCEPT ![Key] = holder]
    /\ pos' = pos + 1
    /\ UNCHANGED input

Unseen == pos \in DOMAIN group /\ Key # None /\ seen[Key] = None

Unkeyed ==
    /\ pos \in DOMAIN group /\ Key = None
    /\ Result("fresh", None)
    /\ UNCHANGED <<usage, drops>>

Repeated ==
    /\ pos \in DOMAIN group /\ Key # None /\ seen[Key] # None
    /\ Result(seen[Key], seen[Key])
    /\ UNCHANGED <<usage, drops>>

Suppressed ==
    /\ Unseen /\ stored[Key].exp > now
    /\ Result(stored[Key].id, stored[Key].id)
    /\ UNCHANGED <<usage, drops>>

(* An expired key is replaced in place, with its old expiry row. *)
Replaced ==
    /\ Unseen /\ stored[Key] # Absent /\ stored[Key].exp <= now
    /\ Result("fresh", Call)
    /\ drops' = drops \cup {<<Key, stored[Key].exp>>}
    /\ UNCHANGED usage

OverQuota == enforce /\ usage >= DedupeMax

(* A call refused for quota leaves its key unseen. *)
Refused ==
    /\ Unseen /\ stored[Key] = Absent /\ OverQuota
    /\ Result("quota", None)
    /\ UNCHANGED <<usage, drops>>

Inserted ==
    /\ Unseen /\ stored[Key] = Absent /\ ~OverQuota
    /\ Result("fresh", Call)
    /\ usage' = usage + 1
    /\ UNCHANGED drops

Next == Unkeyed \/ Repeated \/ Suppressed \/ Replaced \/ Refused \/ Inserted

Spec == Init /\ [][Next]_vars

-----------------------------------------------------------------------------
(* What the closed form says of the whole group. *)
fresh == Fresh(group, stored, now, used, enforce)

Outcome(i) ==
    IF i \in fresh THEN "fresh"
    ELSE LET of == Original(group, stored, now, fresh, i)
         IN  IF of = None THEN "quota" ELSE of

(* At every point of the loop, the results so far, the live-key count and the    *)
(* replaced expiry rows are those the closed form gives: which calls of a group  *)
(* commit, whose id a duplicate is answered with, and which calls the quota of   *)
(* dedupe_check/6 refuses, do not depend on the loop's bookkeeping.              *)
FoldAgrees ==
    /\ \A i \in 1..Len(results) : results[i] = Outcome(i)
    /\ usage = used + Cardinality({i \in fresh \cap Adding(group, stored, now) : i < pos})
    /\ drops = {<<KeyOf[group[i]], stored[KeyOf[group[i]]].exp>> :
                   i \in {j \in Heads(group, stored, now) \ Adding(group, stored, now) : j < pos}}
=============================================================================
