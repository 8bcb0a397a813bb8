---------------------------- MODULE EdgeBatcher ----------------------------
(***************************************************************************)
(* One partition of the group-commit batcher (Ankusa.Edge.Batcher): callers *)
(* block on it while it buffers their records and hands them to the queue in *)
(* commit tasks.  The process state is the record `s`, changed by operators   *)
(* named for the functions of the source; the mailbox, the timers and the     *)
(* tasks are variables of their own.                                          *)
(*                                                                          *)
(* The queue is here what its callers rely on: a batch whose deadline has    *)
(* passed, or whose task is dead, is refused before it is started; one that  *)
(* is started is stored or fails as a whole, and its results come in order.  *)
(***************************************************************************)
EXTENDS Integers, FiniteSets, Sequences, SequencesExt, FiniteSetsExt, TLC

CONSTANTS
    Recs,             \* calls of commit/4, one record each
    Size,             \* body bytes of each record
    Wait,             \* `timeout` of each call
    None,
    MaxBatch, MaxCommits, MaxDelay, MaxQueue, MaxQueueBytes,    \* batcher.*
    LastCall,         \* bound on the time of a call
    MaxTime,          \* bound on the clock
    MaxFaults         \* bound on tasks killed, failed commits and crashes

ASSUME RecsAssumption == IsFiniteSet(Recs) /\ Size \in [Recs -> Nat] /\ Wait \in [Recs -> Nat \ {0}]
ASSUME LimitsAssumption ==
    /\ MaxBatch \in Nat \ {0} /\ MaxCommits \in Nat \ {0} /\ MaxQueue \in Nat \ {0}
    /\ MaxDelay \in Nat /\ MaxQueueBytes \in Nat /\ LastCall \in Nat /\ MaxTime \in Nat /\ MaxFaults \in Nat

VARIABLES
    answer,      \* of each call: idle, waiting, or its answer
    calls,       \* calls in the mailbox: record and deadline
    s,           \* the state of the process
    running,     \* running timers: <<message, fire time>>
    mail,        \* timer messages in the mailbox
    tasks,       \* commit tasks: entries, deadline, stage, results
    orphans,     \* batches the writer is committing for a task that died
    stored,      \* records in the store
    lost,        \* records whose task, or batcher, died
    now, faults

vars == <<answer, calls, s, running, mail, tasks, orphans, stored, lost, now, faults>>

-----------------------------------------------------------------------------
(* An entry is a record and its deadline. *)
Bytes(entries) == MapThenSumSet(LAMBDA e : Size[e.id], entries)

IdsOf(entries) == {e.id : e \in entries}

Idle == [buffer |-> <<>>, count |-> 0, bytes |-> 0,
         inflight |-> {}, inflight_count |-> 0, inflight_bytes |-> 0,
         timer |-> None, expire_at |-> None]

Earliest(entries) == Min({e.by : e \in entries})

Fault == faults < MaxFaults /\ faults' = faults + 1

(* What a handler makes of the process: its new state, its running timers, the *)
(* tasks it started.                                                           *)
Here(st) == [s |-> st, running |-> running, tasks |-> tasks]

(* drop_expired/1 answers and drops the buffered records past their deadline. *)
Overdue(st) == {e \in ToSet(st.buffer) : e.by <= now}

DropExpired(st) ==
    LET gone == Overdue(st)
        live == SelectSeq(st.buffer, LAMBDA e : e \notin gone)
    IN  [st EXCEPT !.buffer = live, !.count = Len(live),
                   !.bytes = @ - Bytes(gone)]

CancelTimer(p) ==
    [p EXCEPT !.running = @ \ {<<"flush", p.s.timer>>}, !.s.timer = None]

ArmTimer(p) ==
    [p EXCEPT !.running = @ \cup {<<"flush", now + MaxDelay>>}, !.s.timer = now + MaxDelay]

CancelExpiry(p) ==
    [p EXCEPT !.running = @ \ {<<"expire", p.s.expire_at>>}, !.s.expire_at = None]

ArmExpiry(p, d) ==
    [p EXCEPT !.running = @ \cup {<<"expire", d>>}, !.s.expire_at = d]

(* split_batch/2: the buffer is newest-first, a commit is oldest-first. *)
Oldest(buffer) == Reverse(buffer)

(* start_commit/1: the overdue records go, the oldest MaxBatch others become one *)
(* task, which carries the earliest of their deadlines.                          *)
StartCommit(q) ==
    LET p == CancelTimer([q EXCEPT !.s = DropExpired(@)])
        order == Oldest(p.s.buffer)
        n == Min({Len(order), MaxBatch})
        entries == SubSeq(order, 1, n)
        rest == Reverse(SubSeq(order, n + 1, Len(order)))
    IN  IF p.s.count = 0 THEN p
        ELSE [p EXCEPT !.s.buffer = rest, !.s.count = Len(rest),
                       !.s.bytes = @ - Bytes(ToSet(entries)),
                       !.s.inflight = @ \cup {entries},
                       !.s.inflight_count = @ + n,
                       !.s.inflight_bytes = @ + Bytes(ToSet(entries)),
                       !.tasks = @ \cup {[entries |-> entries, deadline |-> Earliest(ToSet(entries)),
                                          stage |-> "called", results |-> <<>>]}]

(* maybe_flush/1 *)
MaybeFlush(p) ==
    IF Cardinality(p.s.inflight) >= MaxCommits THEN p
    ELSE IF p.s.count >= MaxBatch \/ MaxDelay = 0 THEN StartCommit(p)
    ELSE IF p.s.timer = None THEN ArmTimer(p)
    ELSE p

(* ensure_expiry/3: a record still buffered has a timer at or before its deadline. *)
EnsureExpiry(p, e) ==
    IF p.s.buffer = <<>> \/ Head(p.s.buffer) # e THEN p
    ELSE IF p.s.expire_at = None THEN ArmExpiry(p, e.by)
    ELSE IF e.by < p.s.expire_at THEN ArmExpiry(CancelExpiry(p), e.by)
    ELSE p

(* A variant that leaves the records it did not drop without a timer. *)
RearmNothing(p) == p

(* rearm_expiry/1: the earliest deadline left in the buffer. *)
RearmExpiry(p) ==
    IF p.s.buffer = <<>> THEN p ELSE ArmExpiry(p, Earliest(ToSet(p.s.buffer)))

(* settle/4: a batch leaves the totals. *)
Settle(st, entries) ==
    [st EXCEPT !.inflight = @ \ {entries},
               !.inflight_count = @ - Len(entries),
               !.inflight_bytes = @ - Bytes(ToSet(entries))]

HeldBy(st) == IdsOf(ToSet(st.buffer) \cup UNION {ToSet(b) : b \in st.inflight})

(* The process goes from `from` to `p`: `replies` are given, and a record that *)
(* is held no more without one of them has been dropped with an error.         *)
Become(from, p, replies) ==
    \E q \in {p} :
        /\ s' = q.s /\ running' = q.running /\ tasks' = q.tasks
        /\ answer' = [r \in Recs |->
               IF r \in DOMAIN replies THEN replies[r]
               ELSE IF r \in HeldBy(from) \ HeldBy(q.s) THEN "error" ELSE answer[r]]

NoReplies == [r \in {} |-> ""]

-----------------------------------------------------------------------------
Init ==
    /\ answer = [r \in Recs |-> "idle"]
    /\ calls = {}
    /\ s = Idle
    /\ running = {} /\ mail = {} /\ tasks = {} /\ orphans = {}
    /\ stored = {} /\ lost = {}
    /\ now = 0 /\ faults = 0

(* A variant that bounds the buffer only. *)
OverBuffered(r) ==
    \/ s.count >= MaxQueue
    \/ s.count > 0 /\ s.bytes + Size[r] > MaxQueueBytes

(* The bound counts buffered and in-flight records; a record larger than the   *)
(* byte bound is admitted into an empty batcher.                               *)
Over(r) ==
    LET queued == s.count + s.inflight_count
    IN  \/ queued >= MaxQueue
        \/ queued > 0 /\ s.bytes + s.inflight_bytes + Size[r] > MaxQueueBytes

(* commit/4: the deadline is set by the caller, before its call is handled. *)
Submit(r) ==
    /\ answer[r] = "idle" /\ now <= LastCall
    /\ answer' = [answer EXCEPT ![r] = "waiting"]
    /\ calls' = calls \cup {[id |-> r, by |-> now + Wait[r]]}
    /\ UNCHANGED <<s, running, mail, tasks, orphans, stored, lost, now, faults>>

(* handle_call {:enqueue, _, _}: shed. *)
Shed(e) ==
    /\ Over(e.id)
    /\ calls' = calls \ {e}
    /\ answer' = [answer EXCEPT ![e.id] = "overload"]
    /\ UNCHANGED <<s, running, mail, tasks, orphans, stored, lost, now, faults>>

(* handle_call {:enqueue, _, _}: buffer, flush if it is time, arm the expiry. *)
Enqueue(e) ==
    /\ ~Over(e.id)
    /\ calls' = calls \ {e}
    /\ LET st == [s EXCEPT !.buffer = <<e>> \o @, !.count = @ + 1, !.bytes = @ + Size[e.id]]
       IN  Become(st, EnsureExpiry(MaybeFlush(Here(st)), e), NoReplies)
    /\ UNCHANGED <<mail, orphans, stored, lost, now, faults>>

(* A timer fires, at its time or later: its message is in the mailbox. *)
Fire ==
    \E t \in running :
        /\ t[2] <= now
        /\ running' = running \ {t}
        /\ mail' = mail \cup {t[1]}
        /\ UNCHANGED <<answer, calls, s, tasks, orphans, stored, lost, now, faults>>

(* handle_info :flush, also of a timer that was cancelled too late. *)
Flush ==
    LET p == Here([s EXCEPT !.timer = None])
    IN  /\ "flush" \in mail
        /\ mail' = mail \ {"flush"}
        /\ IF Cardinality(s.inflight) < MaxCommits /\ s.count > 0
           THEN Become(s, StartCommit(p), NoReplies)
           ELSE Become(s, p, NoReplies)
        /\ UNCHANGED <<calls, orphans, stored, lost, now, faults>>

(* A variant that answers the overdue records of the commits under way too. *)
ExpireAll ==
    LET p == CancelExpiry(Here(s))
        late == {e \in UNION {ToSet(b) : b \in s.inflight} : e.by <= now}
    IN  /\ "expire" \in mail
        /\ mail' = mail \ {"expire"}
        /\ Become(s, RearmExpiry([p EXCEPT !.s = DropExpired(p.s)]), [r \in IdsOf(late) |-> "error"])
        /\ UNCHANGED <<calls, orphans, stored, lost, now, faults>>

(* handle_info :expire *)
Expire ==
    LET p == CancelExpiry(Here(s))
    IN  /\ "expire" \in mail
        /\ mail' = mail \ {"expire"}
        /\ Become(s, RearmExpiry([p EXCEPT !.s = DropExpired(p.s)]), NoReplies)
        /\ UNCHANGED <<calls, orphans, stored, lost, now, faults>>

(* A batch leaves: its slot is refilled from the buffer at once. *)
Refill(t) ==
    LET p == [Here(Settle(s, t.entries)) EXCEPT !.tasks = @ \ {t}]
    IN  IF p.s.count > 0 THEN StartCommit(p) ELSE p

(* A variant that gives the results to the entries newest-first. *)
CompleteReversed(t) ==
    /\ t.stage \in {"ok", "error"}
    /\ LET index(r) == CHOOSE i \in DOMAIN t.entries : t.entries[i].id = r
       IN  Become(s, Refill(t), [r \in IdsOf(ToSet(t.entries)) |->
                                 IF t.stage = "ok" THEN Reverse(t.results)[index(r)] ELSE "error"])
    /\ UNCHANGED <<calls, mail, orphans, stored, lost, now, faults>>

(* handle_info {ref, result} *)
Complete(t) ==
    /\ t.stage \in {"ok", "error"}
    /\ LET index(r) == CHOOSE i \in DOMAIN t.entries : t.entries[i].id = r
       IN  Become(s, Refill(t), [r \in IdsOf(ToSet(t.entries)) |->
                                 IF t.stage = "ok" THEN t.results[index(r)] ELSE "error"])
    /\ UNCHANGED <<calls, mail, orphans, stored, lost, now, faults>>

(* handle_info {:DOWN, ref, _, _, _} *)
Down(t) ==
    /\ t.stage = "down"
    /\ Become(s, Refill(t), [r \in IdsOf(ToSet(t.entries)) |-> "error"])
    /\ UNCHANGED <<calls, mail, orphans, stored, lost, now, faults>>

-----------------------------------------------------------------------------
(* The commit task and the queue behind it *)

Moves(t, stage, results) ==
    tasks' = (tasks \ {t}) \cup {[t EXCEPT !.stage = stage, !.results = results]}

(* The writer reaches the call: it is refused if late, else it is begun. *)
Take(t) ==
    /\ t.stage = "called"
    /\ Moves(t, IF now >= t.deadline THEN "error" ELSE "begun", <<>>)
    /\ UNCHANGED <<answer, calls, s, running, mail, orphans, stored, lost, now, faults>>

(* The commit ends with one result for each record, or with an error. *)
Commit(t) ==
    /\ t.stage = "begun"
    /\ \E results \in [DOMAIN t.entries -> {"committed", "refused"}] :
          /\ Moves(t, "ok", results)
          /\ stored' = stored \cup {t.entries[i].id : i \in {j \in DOMAIN results : results[j] = "committed"}}
    /\ UNCHANGED <<answer, calls, s, running, mail, orphans, lost, now, faults>>

CommitError(t) ==
    /\ t.stage \in {"called", "begun"}
    /\ Fault
    /\ Moves(t, "error", <<>>)
    /\ UNCHANGED <<answer, calls, s, running, mail, orphans, stored, lost, now>>

(* The task is killed; the writer goes on with a commit it has begun. *)
Kill(t) ==
    /\ t.stage \in {"called", "begun"}
    /\ Fault
    /\ Moves(t, "down", <<>>)
    /\ orphans' = IF t.stage = "begun" THEN orphans \cup {t.entries} ELSE orphans
    /\ lost' = lost \cup IdsOf(ToSet(t.entries))
    /\ UNCHANGED <<answer, calls, s, running, mail, stored, now>>

CommitOrphan ==
    \E e \in orphans :
        /\ orphans' = orphans \ {e}
        /\ \E kept \in SUBSET IdsOf(ToSet(e)) : stored' = stored \cup kept
        /\ UNCHANGED <<answer, calls, s, running, mail, tasks, lost, now, faults>>

(* The batcher dies, and its tasks with it; it is started again, empty. *)
Crash ==
    /\ Fault
    /\ s' = Idle /\ calls' = {} /\ running' = {} /\ mail' = {} /\ tasks' = {}
    /\ orphans' = orphans \cup {t.entries : t \in {x \in tasks : x.stage = "begun"}}
    /\ lost' = lost \cup {r \in Recs : answer[r] = "waiting"}
    /\ answer' = [r \in Recs |-> IF answer[r] = "waiting" THEN "error" ELSE answer[r]]
    /\ UNCHANGED <<stored, now>>

Tick ==
    /\ now < MaxTime
    /\ now' = now + 1
    /\ UNCHANGED <<answer, calls, s, running, mail, tasks, orphans, stored, lost, faults>>

-----------------------------------------------------------------------------
BatcherNext ==
    \/ \E e \in calls : Enqueue(e) \/ Shed(e)
    \/ Flush \/ Expire
    \/ \E t \in tasks : Complete(t) \/ Down(t)

WriterNext == CommitOrphan \/ \E t \in tasks : Take(t) \/ Commit(t)

EnvNext == Fire \/ Tick \/ Crash \/ \E t \in tasks : CommitError(t) \/ Kill(t)

Next == (\E r \in Recs : Submit(r)) \/ BatcherNext \/ WriterNext \/ EnvNext

Spec == Init /\ [][Next]_vars

(* The process handles its messages, timers fire and time passes; a commit may *)
(* stall for ever.                                                             *)
StallSpec == Spec /\ WF_vars(BatcherNext) /\ WF_vars(Fire) /\ WF_vars(Tick)

-----------------------------------------------------------------------------
EntryType == [id : Recs, by : Nat]

(* Every variable of the batcher holds a value of its type. *)
TypeOK ==
    /\ answer \in [Recs -> {"idle", "waiting", "committed", "refused", "error", "overload"}]
    /\ calls \subseteq EntryType
    /\ s.buffer \in Seq(EntryType) /\ \A e \in s.inflight : e \in Seq(EntryType)
    /\ {s.count, s.bytes, s.inflight_count, s.inflight_bytes} \subseteq Nat
    /\ {s.timer, s.expire_at} \subseteq Nat \cup {None}
    /\ running \subseteq {"flush", "expire"} \X Nat /\ mail \subseteq {"flush", "expire"}
    /\ \A t \in tasks : /\ t.entries \in Seq(EntryType) /\ t.deadline \in Nat
                        /\ t.stage \in {"called", "begun", "ok", "error", "down"}
    /\ \A e \in orphans : e \in Seq(EntryType)
    /\ stored \subseteq Recs /\ lost \subseteq Recs
    /\ now \in Nat /\ faults \in Nat

Held == HeldBy(s)

(* A caller told `committed` (a 201) has its own record in the store, whatever *)
(* order the batches and their results came in.                               *)
AckHonest == \A r \in Recs : answer[r] = "committed" => r \in stored

(* A caller told 503 has no record in the store, now or later, unless a process *)
(* died with its commit under way: a stall is never a 503 for a stored hook.    *)
RefusedNotStored ==
    \A r \in Recs \ lost : answer[r] \in {"error", "refused", "overload"} => r \notin stored \cup Held

(* The totals that bound the queue are what the buffer and the batches hold, and *)
(* the bound is kept: nothing leaks when batches settle, expire or die.          *)
TotalsExact ==
    LET batched == UNION {ToSet(b) : b \in s.inflight}
    IN  /\ s.count = Len(s.buffer) /\ s.bytes = Bytes(ToSet(s.buffer))
        /\ s.inflight_count = Cardinality(batched)
        /\ s.inflight_bytes = Bytes(batched)
        /\ Cardinality(Held) <= MaxQueue
        /\ Cardinality(Held) > 1 => s.bytes + s.inflight_bytes <= MaxQueueBytes

(* A waiting caller's record is in the buffer or in one batch with a live task, *)
(* and a buffered record has something coming that will flush it.               *)
NoneStranded ==
    /\ \A r \in Recs : answer[r] = "waiting" <=> r \in Held \cup IdsOf(calls)
    /\ {t.entries : t \in tasks} = s.inflight
    /\ s.buffer # <<>> =>
          \/ Cardinality(s.inflight) = MaxCommits
          \/ MaxDelay > 0 /\ (s.timer # None => <<"flush", s.timer>> \in running \/ "flush" \in mail)
                          /\ ("flush" \in mail \/ \E t \in running : t[1] = "flush")

(* A buffered record has a timer that fires by its deadline, or one that fired. *)
ExpiryArmed ==
    \A e \in ToSet(s.buffer) :
        "expire" \in mail \/ \E t \in running : t[1] = "expire" /\ t[2] <= e.by

(* The bookkeeping of the process is whole: the totals, the batches and both timers   *)
(* agree with what is buffered and in flight after every request, flush, expiry,       *)
(* result and death (handle_call, handle_info).                                       *)
BatcherInv == TypeOK /\ TotalsExact /\ NoneStranded /\ ExpiryArmed

(* Every caller is answered, or its record is in a commit the writer has not     *)
(* ended: no caller waits for ever behind a commit that stalls, nor after its    *)
(* task, its batch or the batcher died.                                          *)
Answered ==
    \A r \in Recs :
        answer[r] = "waiting" ~>
            \/ answer[r] # "waiting"
            \/ \E t \in tasks : t.stage \in {"called", "begun"} /\ r \in IdsOf(ToSet(t.entries))
=============================================================================
