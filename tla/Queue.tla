------------------------------- MODULE Queue -------------------------------
(***************************************************************************)
(* The durable commit of Ankusa's queue with `wal.type: disk`: the callers   *)
(* (Queue.enqueue, release, redrive), the writer (Queue.Writer), the syncer  *)
(* (Queue.Syncer), the dedupe sweeper, and the two ways a stored row gets    *)
(* out: a dispatch scan and a delivery.  One Reqs member is one enqueue call *)
(* that carries one hook, whose id is the call's name.                       *)
(*                                                                          *)
(* The writer's mailbox is not kept in order: it takes enqueue calls by      *)
(* selective receive, and its other messages come from different senders.    *)
(***************************************************************************)
EXTENDS Dedupe, Store

CONSTANTS
    Reqs,        \* enqueue calls of the batchers, one hook each
    Pens,        \* quarantined hooks a release job gives back to the queue
    Redrives,    \* archived hooks a replay job puts back in the queue
    GroupMax,    \* group_commit_max_records
    RecentMs,    \* @recent_ms: the age of a generation of recent keys
    MaxTime,     \* bound on the clock
    Roles,       \* roles of the instance: "dispatch" or not
    Faults,      \* kinds of fault the environment may inject
    MaxFaults    \* bound on their number

Calls == Reqs \cup Pens
Ids == Calls \cup Redrives

ASSUME IdsAssumption == None \notin Ids /\ Reqs \cap Pens = {} /\ Calls \cap Redrives = {}
ASSUME KeyOfAssumption == KeyOf \in [Calls -> Keys \cup {None}]
ASSUME FiniteAssumption == IsFiniteSet(Keys) /\ IsFiniteSet(Calls)
ASSUME BoundsAssumption == GroupMax \in Nat /\ RecentMs \in Nat /\ MaxTime \in Nat /\ MaxFaults \in Nat

VARIABLES
    reply,       \* of each call: idle, queued, waiting, or its answer
    pre,         \* of each enqueue call: the prefetched key value and read_at
    next_seq, last_at, unsynced, fenced, recent,    \* the writer's state
    batch,       \* the group the writer has marked applied and is writing, if any
    durable, applied, durable_at,                   \* the shared marks
    inbox,       \* {:sync, entry} messages of the syncer
    resume,      \* its {:resume, seq, at} message, if any; `first`: ahead of the inbox
    syncing, stalled,    \* the entries its fsync covers; its `fenced` flag
    failed,      \* a {:sync_failed, _} message waits in the writer's mailbox
    mono, skew, gate, faults,    \* clock, its step back, gate epoch moved
    sweep,       \* expiry rows the dedupe sweeper has read
    scan, claimed, delivered     \* dispatch: scan bound, rows taken, rows done

callVars == <<reply, pre>>
markVars == <<durable, applied, durable_at>>
writerVars == <<next_seq, last_at, unsynced, fenced, recent, batch>>
syncerVars == <<inbox, resume, syncing, stalled, failed>>
envVars == <<mono, skew, gate, faults>>
dispatchVars == <<scan, claimed, delivered>>
vars == <<storeVars, callVars, markVars, writerVars, syncerVars, envVars, sweep, dispatchVars>>

-----------------------------------------------------------------------------
(* Values *)

Max2(a, b) == IF a >= b THEN a ELSE b

Wall == mono - skew

Fault(kind) ==
    /\ kind \in Faults
    /\ faults < MaxFaults
    /\ faults' = faults + 1

State(kind) == [kind |-> kind, of |-> None, seq |-> 0]
Committed(seq) == [kind |-> "committed", of |-> None, seq |-> seq]
Duplicate(id) == [kind |-> "duplicate", of |-> id, seq |-> 0]

NoRead == [val |-> Absent, at |-> 0]
NoKeys == [k \in Keys |-> Absent]

Queued == {r \in Reqs : reply[r].kind = "queued"}

HookIds(d) == {h.id : h \in d.hooks}

(* The replies of an entry, or one error, reach its callers. *)
Answer(replies) == [c \in Calls |-> IF c \in DOMAIN replies THEN replies[c] ELSE reply[c]]
AnswerAll(entries) ==
    [c \in Calls |-> IF \E e \in entries : c \in DOMAIN e.reply
                     THEN (CHOOSE e \in entries : c \in DOMAIN e.reply).reply[c]
                     ELSE reply[c]]
RefuseAll(entries) ==
    [c \in Calls |-> IF \E e \in entries : c \in DOMAIN e.reply THEN State("error") ELSE reply[c]]
Waiting(cs) == [c \in Calls |-> IF c \in cs THEN State("waiting") ELSE reply[c]]
Forget(cs) == [r \in Reqs |-> IF r \in cs THEN NoRead ELSE pre[r]]

(* Syncer.mark_durable/3 raises the watermark and its stamp, never lowers them. *)
MarkDurable(seq, at) ==
    /\ durable_at' = Max2(durable_at, at)
    /\ durable' = Max2(durable, seq)

(* A variant without the millisecond that keeps an unsynced group out. *)
VisibleInclusive(now) ==
    IF applied > durable /\ durable_at < now THEN durable_at ELSE now

(* Syncer.visible/2: the latest time dispatch may treat as now. *)
Visible(now) ==
    IF applied > durable /\ durable_at - 1 < now THEN durable_at - 1 ELSE now

-----------------------------------------------------------------------------
(* The recent-key window of the writer *)

FreshWindow == [cur |-> NoKeys, old |-> NoKeys, gen_at |-> mono, since |-> mono]

(* begin_group/1: a moved gate epoch clears the window, an old generation is *)
(* rotated out of it.                                                        *)
Begun ==
    LET r == IF gate THEN FreshWindow ELSE recent
    IN  IF mono - r.gen_at >= RecentMs
        THEN [cur |-> NoKeys, old |-> r.cur, gen_at |-> mono, since |-> r.gen_at]
        ELSE r

(* A variant that trusts a read of any age. *)
ReadersAny(g, k, window) ==
    {i \in DOMAIN g : g[i] \in Reqs /\ KeyOf[g[i]] = k}

(* merge_prefetch/2: the calls whose read of `k` is not older than the window; *)
(* the newest of them wins, the later call on a tie.                           *)
Readers(g, k, window) ==
    {i \in DOMAIN g : g[i] \in Reqs /\ KeyOf[g[i]] = k /\ pre[g[i]].at >= window.since}

Newest(g, is) ==
    {i \in is : \A j \in is :
        pre[g[j]].at < pre[g[i]].at \/ (pre[g[j]].at = pre[g[i]].at /\ j <= i)}

(* stored_for/3: what the writer wrote lately, else the prefetch, else a read. *)
StoredFor(g, window) ==
    [k \in Keys |->
        LET read == Newest(g, Readers(g, k, window))
        IN  IF window.cur[k] # Absent THEN window.cur[k]
            ELSE IF window.old[k] # Absent THEN window.old[k]
            ELSE IF read # {} THEN pre[g[CHOOSE i \in read : TRUE]].val
            ELSE db.keys[k]]

Recorded(window, puts) ==
    [window EXCEPT !.cur = [k \in Keys |-> IF puts[k] # Absent THEN puts[k] ELSE window.cur[k]]]

-----------------------------------------------------------------------------
(* A group of calls, checked and built into one batch *)

Now == Max2(Wall, last_at)

(* The batch of the calls `g`: dedupe_check/6 and build_ops/5.  `puts` are the *)
(* dedupe keys it writes, `drops` the expiry rows of the keys it replaces,     *)
(* `added` the calls whose keys count against the quota.                       *)
Build(g, window, enforce) ==
    LET stored   == StoredFor(g, window)
        fresh    == Fresh(g, stored, Now, db.count, enforce)
        seq(i)   == next_seq + Cardinality({j \in fresh : j < i})
        takes(k) == {i \in fresh : KeyOf[g[i]] = k}
        result(i) ==
            IF i \in fresh THEN Committed(seq(i))
            ELSE LET of == Original(g, stored, Now, fresh, i)
                 IN  IF of = None THEN State("quota") ELSE Duplicate(of)
        calls    == {g[i] : i \in DOMAIN g}
    IN  [upto  |-> next_seq + Cardinality(fresh) - 1,
         at    |-> Now,
         prev  |-> applied,
         hooks |-> {[id |-> g[i], seq |-> seq(i), at |-> Now] : i \in fresh},
         puts  |-> [k \in Keys |-> IF takes(k) = {} THEN Absent
                                   ELSE [exp |-> Now + TTL, id |-> g[CHOOSE i \in takes(k) : TRUE]]],
         drops |-> {<<k, stored[k].exp>> : k \in {x \in Keys : takes(x) # {} /\ stored[x] # Absent}},
         added |-> {g[i] : i \in fresh \cap Adding(g, stored, Now)},
         reply |-> [c \in calls |-> result(CHOOSE i \in DOMAIN g : g[i] = c)]]

(* The expiry rows a batch writes. *)
Expiries(b) == {<<k, b.puts[k].exp>> : k \in {x \in Keys : b.puts[x] # Absent}}

(* The store after the ops of a batch. *)
Applied(d, b) ==
    [d EXCEPT !.hooks = @ \cup b.hooks,
              !.keys = [k \in Keys |-> IF b.puts[k] # Absent THEN b.puts[k] ELSE @[k]],
              !.expiry = (@ \ b.drops) \cup Expiries(b),
              !.count = @ + Cardinality(b.added),
              !.next_seq = b.upto + 1]

(* undo_ops/1: puts are deleted and merges taken back; deletes, the seq marker *)
(* and what the group did not write stay as they are.                          *)
Undone(d, groups) ==
    LET seqs == {h.seq : h \in UNION {b.hooks : b \in groups}}
    IN  [d EXCEPT !.hooks = {h \in @ : h.seq \notin seqs},
                  !.keys = [k \in Keys |-> IF \E b \in groups : b.puts[k] # Absent
                                           THEN Absent ELSE @[k]],
                  !.expiry = @ \ UNION {Expiries(b) : b \in groups},
                  !.count = @ - Cardinality(UNION {b.added : b \in groups})]

Entry(b) == [upto |-> b.upto, at |-> b.at, reply |-> b.reply]

(* The calls one group may hold, in order. *)
Groups == {g \in UNION {[1..n -> Queued] : n \in 1..GroupMax} :
              \A i, j \in DOMAIN g : g[i] = g[j] => i = j}

CallsOf(g) == {g[i] : i \in DOMAIN g}

-----------------------------------------------------------------------------
(* Initial state: an empty store, a writer just started. *)

EmptyStore == [hooks |-> {}, keys |-> NoKeys, expiry |-> {}, count |-> 0,
               next_seq |-> 1, pen |-> Pens, cursor |-> {}]

Init ==
    /\ StoreInit(EmptyStore)
    /\ reply = [c \in Calls |-> State("idle")]
    /\ pre = [r \in Reqs |-> NoRead]
    /\ mono = 1 /\ skew = 0 /\ gate = FALSE /\ faults = 0
    /\ next_seq = 1 /\ last_at = 0 /\ unsynced = {} /\ fenced = FALSE /\ batch = {}
    /\ recent = [cur |-> NoKeys, old |-> NoKeys, gen_at |-> 1, since |-> 1]
    /\ durable = 0 /\ applied = 0 /\ durable_at = 1
    /\ inbox = {} /\ resume = {} /\ syncing = {} /\ stalled = FALSE /\ failed = FALSE
    /\ sweep = {} /\ scan = None /\ claimed = {} /\ delivered = {}

-----------------------------------------------------------------------------
(* Callers *)

(* Queue.enqueue/3: prepare/3 reads the key in the caller, then the call waits *)
(* in the writer's mailbox.                                                    *)
Enqueue(r) ==
    /\ reply[r].kind = "idle"
    /\ reply' = [reply EXCEPT ![r] = State("queued")]
    /\ pre' = IF KeyOf[r] = None THEN pre
              ELSE [pre EXCEPT ![r] = [val |-> db.keys[KeyOf[r]], at |-> mono]]
    /\ UNCHANGED <<storeVars, markVars, writerVars, syncerVars, envVars, sweep, dispatchVars>>

(* The prefetch read fails: the caller has its error and never calls the writer. *)
EnqueueUnavailable(r) ==
    /\ reply[r].kind = "idle" /\ KeyOf[r] # None
    /\ Fault("read")
    /\ reply' = [reply EXCEPT ![r] = State("error")]
    /\ UNCHANGED <<storeVars, pre, markVars, writerVars, syncerVars, mono, skew, gate, sweep,
                   dispatchVars>>

(* A call whose deadline has passed, or whose caller is dead, is refused when *)
(* its group is drained.                                                      *)
Expired(r) ==
    /\ batch = {} /\ r \in Queued
    /\ Fault("deadline")
    /\ reply' = [reply EXCEPT ![r] = State("error")]
    /\ pre' = Forget({r})
    /\ UNCHANGED <<storeVars, markVars, writerVars, syncerVars, mono, skew, gate, sweep,
                   dispatchVars>>

(* A fenced writer refuses every call. *)
RefuseFenced(r) ==
    /\ fenced /\ r \in Queued
    /\ reply' = [reply EXCEPT ![r] = State("error")]
    /\ pre' = Forget({r})
    /\ UNCHANGED <<storeVars, markVars, writerVars, syncerVars, envVars, sweep, dispatchVars>>

-----------------------------------------------------------------------------
(* The writer *)

Ready == batch = {} /\ ~fenced

(* A variant that answers a duplicate at once. *)
CommitDuplicatesAtOnce(g) ==
    LET b == Build(g, Begun, TRUE)
    IN  /\ Ready
        /\ b.hooks = {}
        /\ recent' = Begun /\ gate' = FALSE
        /\ pre' = Forget(CallsOf(g))
        /\ reply' = Answer(b.reply)
        /\ UNCHANGED <<storeVars, markVars, next_seq, last_at, unsynced, fenced, batch, syncerVars,
                       mono, skew, faults, sweep, dispatchVars>>

(* group_commit/2 when no call is fresh: nothing is written.  A `201 duplicate` *)
(* waits for the fsync of whatever is unsynced (settle_reply/3).                *)
CommitDuplicates(g) ==
    LET b == Build(g, Begun, TRUE)
        waits == applied > durable /\ \E c \in DOMAIN b.reply : b.reply[c].kind = "duplicate"
    IN  /\ Ready
        /\ b.hooks = {}
        /\ recent' = Begun /\ gate' = FALSE
        /\ pre' = Forget(CallsOf(g))
        /\ reply' = IF waits THEN Waiting(CallsOf(g)) ELSE Answer(b.reply)
        /\ inbox' = IF waits THEN inbox \cup {[upto |-> applied, at |-> last_at, reply |-> b.reply]}
                    ELSE inbox
        /\ UNCHANGED <<storeVars, markVars, next_seq, last_at, unsynced, fenced, batch, resume,
                       syncing, stalled, failed, mono, skew, faults, sweep, dispatchVars>>

(* group_commit/2 up to the store write: the group is checked and built, and    *)
(* `applied` is raised before a reader can see its rows (disk_commit/2).        *)
Stage(g) ==
    LET b == Build(g, Begun, TRUE)
    IN  /\ Ready
        /\ b.hooks # {}
        /\ recent' = Begun /\ gate' = FALSE
        /\ pre' = Forget(CallsOf(g))
        /\ reply' = Waiting(CallsOf(g))
        /\ batch' = {b}
        /\ applied' = b.upto
        /\ UNCHANGED <<storeVars, durable, durable_at, next_seq, last_at, unsynced, fenced,
                       syncerVars, mono, skew, faults, sweep, dispatchVars>>

(* The `sync: false` write lands: the group is tracked and handed to the syncer. *)
StagedOk ==
    \E b \in batch :
        /\ Write(Applied(db, b))
        /\ next_seq' = b.upto + 1 /\ last_at' = b.at
        /\ recent' = Recorded(recent, b.puts)
        /\ inbox' = inbox \cup {Entry(b)}
        /\ unsynced' = {u \in unsynced : u.upto > durable} \cup {b}
        /\ batch' = {}
        /\ UNCHANGED <<callVars, markVars, fenced, resume, syncing, stalled, failed, envVars,
                       sweep, dispatchVars>>

(* The write fails: nothing is stored, `applied` goes back, the seqs are spent. *)
StagedError ==
    \E b \in batch :
        /\ Fault("write")
        /\ next_seq' = b.upto + 1 /\ last_at' = b.at
        /\ applied' = b.prev
        /\ reply' = RefuseAll({b})
        /\ batch' = {}
        /\ UNCHANGED <<storeVars, pre, durable, durable_at, unsynced, fenced, recent, syncerVars,
                       mono, skew, gate, sweep, dispatchVars>>

(* A synced write returns an error.  Its batch may have reached the log all the *)
(* same, and be stored by the replay of the log when the store reopens.         *)
ErrorOf(d) ==
    \/ Fault("write") /\ UNCHANGED storeVars
    \/ Fault("landed") /\ WriteSync(d)

(* Queue.release/3: one quarantined hook, a group of its own, with the delete of *)
(* its pen entry in the same synced batch.                                       *)
Released(p, d) == [d EXCEPT !.pen = @ \ {p}]

(* A variant that gives back the pen entry whatever the dedupe check said. *)
ReleaseUnchecked(p) ==
    LET b == Build(<<p>>, Begun, FALSE)
    IN  /\ Ready /\ p \in db.pen
        /\ recent' = Begun /\ gate' = FALSE
        /\ WriteSync(Released(p, db))
        /\ reply' = Answer(b.reply)
        /\ UNCHANGED <<pre, markVars, next_seq, last_at, unsynced, fenced, batch, syncerVars,
                       mono, skew, faults, sweep, dispatchVars>>

ReleaseDuplicate(p) ==
    LET b == Build(<<p>>, Begun, FALSE)
    IN  /\ Ready /\ p \in db.pen
        /\ b.hooks = {}
        /\ recent' = Begun /\ gate' = FALSE
        /\ \/ /\ WriteSync(Released(p, db))
              /\ reply' = Answer(b.reply)
              /\ UNCHANGED faults
           \/ ErrorOf(Released(p, db)) /\ UNCHANGED reply
        /\ UNCHANGED <<pre, markVars, next_seq, last_at, unsynced, fenced, batch, syncerVars,
                       mono, skew, sweep, dispatchVars>>

ReleaseFresh(p) ==
    LET b == Build(<<p>>, Begun, FALSE)
        d == Released(p, Applied(db, b))
    IN  /\ Ready /\ p \in db.pen
        /\ b.hooks # {}
        /\ gate' = FALSE
        /\ next_seq' = b.upto + 1 /\ last_at' = b.at
        /\ \/ /\ WriteSync(d)
              /\ recent' = Recorded(Begun, b.puts)
              /\ MarkDurable(b.upto, b.at)
              /\ reply' = Answer(b.reply)
              /\ UNCHANGED faults
           \/ ErrorOf(d) /\ recent' = Begun /\ UNCHANGED <<reply, durable, durable_at>>
        /\ UNCHANGED <<pre, applied, unsynced, fenced, batch, syncerVars, mono, skew, sweep,
                       dispatchVars>>

(* A variant that leaves the job's cursor to a later write. *)
RedriveBare(x) ==
    /\ Ready /\ x \notin db.cursor
    /\ WriteSync([db EXCEPT !.hooks = @ \cup {[id |-> x, seq |-> next_seq, at |-> Now]},
                            !.next_seq = next_seq + 1])
    /\ MarkDurable(next_seq, Now)
    /\ next_seq' = next_seq + 1 /\ last_at' = Now
    /\ UNCHANGED <<callVars, applied, unsynced, fenced, recent, batch, syncerVars, envVars, sweep,
                   dispatchVars>>

(* Queue.redrive/3: one archived hook with the job's cursor, in one synced batch, *)
(* with no dedupe.                                                                *)
Redrive(x) ==
    LET d == [db EXCEPT !.hooks = @ \cup {[id |-> x, seq |-> next_seq, at |-> Now]},
                        !.cursor = @ \cup {x},
                        !.next_seq = next_seq + 1]
    IN  /\ Ready /\ x \notin db.cursor
        /\ next_seq' = next_seq + 1 /\ last_at' = Now
        /\ \/ WriteSync(d) /\ MarkDurable(next_seq, Now) /\ UNCHANGED faults
           \/ ErrorOf(d) /\ UNCHANGED <<durable, durable_at>>
        /\ UNCHANGED <<callVars, applied, unsynced, fenced, recent, batch, syncerVars, mono, skew,
                       gate, sweep, dispatchVars>>

(* DedupeSweeper: a chunk of expiry rows is read, then handed to the writer. *)
SweepScan ==
    LET due == {e \in db.expiry : e[2] <= Wall}
    IN  /\ sweep = {} /\ due # {}
        /\ sweep' = due
        /\ UNCHANGED <<storeVars, callVars, markVars, writerVars, syncerVars, envVars,
                       dispatchVars>>

(* expire_dedupe/2: a key is deleted, and counted off, only if it still holds *)
(* the expiry the sweeper read; every expiry row of the chunk is deleted.     *)
ExpireDedupe ==
    LET gone == {k \in Keys : \E e \in sweep : e[1] = k /\ db.keys[k].exp = e[2]}
        without(f) == [k \in Keys |-> IF k \in gone THEN Absent ELSE f[k]]
    IN  /\ Ready /\ sweep # {}
        /\ Write([db EXCEPT !.keys = without(@),
                            !.expiry = @ \ sweep,
                            !.count = @ - Cardinality(gone)])
        /\ recent' = [recent EXCEPT !.cur = without(@), !.old = without(@)]
        /\ sweep' = {}
        /\ UNCHANGED <<callVars, markVars, next_seq, last_at, unsynced, fenced, batch, syncerVars,
                       envVars, dispatchVars>>

(* The chunk is refused by a fenced writer, or its write fails. *)
ExpireRefused ==
    /\ batch = {} /\ sweep # {}
    /\ (fenced /\ UNCHANGED faults) \/ Fault("write")
    /\ sweep' = {}
    /\ UNCHANGED <<storeVars, callVars, markVars, writerVars, syncerVars, mono, skew, gate,
                   dispatchVars>>

(* A variant that forgets the durable mark. *)
UncoveredAll == unsynced

(* fence/1: the groups no fsync covered are deleted in one synced write (no     *)
(* group, no write), and only then is the syncer told to resume.                *)
Uncovered == {u \in unsynced : u.upto > durable}

(* A variant with nothing to delete and nothing to tell the syncer. *)
FenceSilent ==
    /\ IF Uncovered = {} THEN UNCHANGED storeVars ELSE WriteSync(Undone(db, Uncovered))
    /\ resume' = IF Uncovered = {} THEN resume
                 ELSE {[seq |-> applied, at |-> last_at, first |-> inbox = {}]}
    /\ fenced' = FALSE
    /\ unsynced' = {}
    /\ UNCHANGED faults

FenceOk ==
    /\ IF Uncovered = {} THEN UNCHANGED storeVars ELSE WriteSync(Undone(db, Uncovered))
    /\ resume' = {[seq |-> applied, at |-> last_at, first |-> inbox = {}]}
    /\ fenced' = FALSE
    /\ unsynced' = {}
    /\ UNCHANGED faults

FenceError ==
    /\ Uncovered # {}
    /\ ErrorOf(Undone(db, Uncovered))
    /\ fenced' = TRUE
    /\ UNCHANGED <<resume, unsynced>>

(* handle_info {:sync_failed, _}: the caches are dropped, then the fence. *)
HandleSyncFailed ==
    /\ failed /\ batch = {}
    /\ failed' = FALSE
    /\ recent' = FreshWindow
    /\ FenceOk \/ FenceError
    /\ UNCHANGED <<callVars, markVars, next_seq, last_at, batch, inbox, syncing, stalled, mono,
                   skew, gate, sweep, dispatchVars>>

(* handle_info :retry_fence, 500 ms after a fence that failed. *)
RetryFence ==
    /\ fenced /\ batch = {}
    /\ FenceOk \/ FenceError
    /\ UNCHANGED <<callVars, markVars, next_seq, last_at, recent, batch, inbox, syncing, stalled,
                   failed, mono, skew, gate, sweep, dispatchVars>>

-----------------------------------------------------------------------------
(* The syncer: an entry at the head of its mailbox makes it take every entry *)
(* in the mailbox, those behind a resume included (drain/1).                 *)

Takes == inbox # {} /\ syncing = {} /\ \A m \in resume : ~m.first

(* A variant that drops the entries it refuses. *)
SyncDrop ==
    /\ Takes /\ stalled
    /\ inbox' = {}
    /\ resume' = {[m EXCEPT !.first = TRUE] : m \in resume}
    /\ UNCHANGED <<storeVars, callVars, markVars, writerVars, syncing, stalled, failed, envVars,
                   sweep, dispatchVars>>

(* Fenced: every entry is answered with an error. *)
SyncRefuse ==
    /\ Takes /\ stalled
    /\ reply' = RefuseAll(inbox)
    /\ inbox' = {}
    /\ resume' = {[m EXCEPT !.first = TRUE] : m \in resume}
    /\ UNCHANGED <<storeVars, pre, markVars, writerVars, syncing, stalled, failed, envVars, sweep,
                   dispatchVars>>

(* A synced write has covered every entry since: no fsync. *)
SyncCovered ==
    /\ Takes /\ ~stalled
    /\ \A e \in inbox : e.upto <= durable
    /\ reply' = AnswerAll(inbox)
    /\ inbox' = {}
    /\ UNCHANGED <<storeVars, pre, markVars, writerVars, resume, syncing, stalled, failed, envVars,
                   sweep, dispatchVars>>

SyncBegin ==
    /\ Takes /\ ~stalled
    /\ \E e \in inbox : e.upto > durable
    /\ SyncWalBegin
    /\ syncing' = inbox
    /\ inbox' = {}
    /\ UNCHANGED <<callVars, markVars, writerVars, resume, stalled, failed, envVars, sweep,
                   dispatchVars>>

(* A variant that raises the mark to what is applied when the fsync returns. *)
SyncOkApplied ==
    /\ syncing # {}
    /\ SyncWalOk
    /\ MarkDurable(applied, last_at)
    /\ reply' = AnswerAll(syncing)
    /\ syncing' = {}
    /\ UNCHANGED <<pre, applied, writerVars, inbox, resume, stalled, failed, envVars, sweep,
                   dispatchVars>>

(* The fsync returns: the marks are raised, then the callers are answered. *)
SyncOk ==
    /\ syncing # {}
    /\ SyncWalOk
    /\ \E e \in syncing, f \in syncing :
          /\ \A x \in syncing : x.upto <= e.upto /\ x.at <= f.at
          /\ MarkDurable(e.upto, f.at)
    /\ reply' = AnswerAll(syncing)
    /\ syncing' = {}
    /\ UNCHANGED <<pre, applied, writerVars, inbox, resume, stalled, failed, envVars, sweep,
                   dispatchVars>>

(* A variant that goes on after a failed fsync. *)
SyncErrorOpen ==
    /\ syncing # {}
    /\ Fault("sync")
    /\ SyncWalError
    /\ reply' = RefuseAll(syncing)
    /\ syncing' = {}
    /\ failed' = TRUE
    /\ UNCHANGED <<pre, markVars, writerVars, inbox, resume, stalled, mono, skew, gate, sweep,
                   dispatchVars>>

SyncError ==
    /\ syncing # {}
    /\ Fault("sync")
    /\ SyncWalError
    /\ reply' = RefuseAll(syncing)
    /\ syncing' = {}
    /\ stalled' = TRUE /\ failed' = TRUE
    /\ UNCHANGED <<pre, markVars, writerVars, inbox, resume, mono, skew, gate, sweep,
                   dispatchVars>>

(* handle_info {:resume, seq, at}. *)
Resume ==
    /\ syncing = {}
    /\ \E m \in resume :
          /\ m.first
          /\ MarkDurable(m.seq, m.at)
    /\ stalled' = FALSE
    /\ resume' = {}
    /\ UNCHANGED <<storeVars, callVars, applied, writerVars, inbox, syncing, failed, envVars, sweep,
                   dispatchVars>>

-----------------------------------------------------------------------------
(* Dispatch *)

(* Pipeline.scan/1 takes its bound first and reads the due rows after. *)
ScanBegin ==
    /\ "dispatch" \in Roles /\ scan = None
    /\ scan' = Visible(Wall)
    /\ UNCHANGED <<storeVars, callVars, markVars, writerVars, syncerVars, envVars, sweep, claimed,
                   delivered>>

ScanClaim ==
    /\ scan # None
    /\ claimed' = claimed \cup {h.id : h \in {x \in db.hooks : x.at <= scan}}
    /\ scan' = None
    /\ UNCHANGED <<storeVars, callVars, markVars, writerVars, syncerVars, envVars, sweep,
                   delivered>>

(* A sink acks a claimed row: the row and its hook are deleted, unsynced. *)
Deliver(h) ==
    /\ h \in db.hooks /\ h.id \in claimed
    /\ Write([db EXCEPT !.hooks = @ \ {h}])
    /\ delivered' = delivered \cup {h.id}
    /\ UNCHANGED <<callVars, markVars, writerVars, syncerVars, envVars, sweep, scan, claimed>>

-----------------------------------------------------------------------------
(* The environment: clocks, the tenant gate, restarts *)

Tick ==
    /\ mono < MaxTime
    /\ mono' = mono + 1
    /\ UNCHANGED <<storeVars, callVars, markVars, writerVars, syncerVars, skew, gate, faults, sweep,
                   dispatchVars>>

(* The wall clock steps back. *)
StepBack ==
    /\ Fault("skew") /\ skew < mono
    /\ skew' = skew + 1
    /\ UNCHANGED <<storeVars, callVars, markVars, writerVars, syncerVars, mono, gate, sweep,
                   dispatchVars>>

(* Another tenant is closed or opened by an erase. *)
GateMoved ==
    /\ Fault("gate") /\ ~gate
    /\ gate' = TRUE
    /\ UNCHANGED <<storeVars, callVars, markVars, writerVars, syncerVars, mono, skew, sweep,
                   dispatchVars>>

(* A variant that takes the seq marker for the last seq used. *)
BootOff(d) ==
    /\ LET floors == {d.next_seq - 1} \cup {h.seq + 1 : h \in d.hooks}
       IN  \E n \in floors :
              /\ \A m \in floors : m <= n
              /\ next_seq' = n
              /\ durable' = n - 1 /\ applied' = n - 1
    /\ durable_at' = Wall
    /\ last_at' = 0 /\ unsynced' = {} /\ fenced' = FALSE /\ batch' = {}
    /\ recent' = FreshWindow
    /\ inbox' = {} /\ resume' = {} /\ syncing' = {} /\ stalled' = FALSE /\ failed' = FALSE
    /\ gate' = FALSE /\ sweep' = {} /\ scan' = None
    /\ reply' = [c \in Calls |-> IF reply[c].kind \in {"queued", "waiting"} THEN State("gone")
                                 ELSE reply[c]]
    /\ pre' = [r \in Reqs |-> NoRead]
    /\ UNCHANGED <<mono, skew, claimed, delivered>>

(* init/1 of a writer over the contents `d`: the next seq is past the marker and *)
(* past every stored hook, and everything stored counts as durable.              *)
Boot(d) ==
    /\ LET floors == {d.next_seq} \cup {h.seq + 1 : h \in d.hooks}
       IN  \E n \in floors :
              /\ \A m \in floors : m <= n
              /\ next_seq' = n
              /\ durable' = n - 1 /\ applied' = n - 1
    /\ durable_at' = Wall
    /\ last_at' = 0 /\ unsynced' = {} /\ fenced' = FALSE /\ batch' = {}
    /\ recent' = FreshWindow
    /\ inbox' = {} /\ resume' = {} /\ syncing' = {} /\ stalled' = FALSE /\ failed' = FALSE
    /\ gate' = FALSE /\ sweep' = {} /\ scan' = None
    /\ reply' = [c \in Calls |-> IF reply[c].kind \in {"queued", "waiting"} THEN State("gone")
                                 ELSE reply[c]]
    /\ pre' = [r \in Reqs |-> NoRead]
    /\ UNCHANGED <<mono, skew, claimed, delivered>>

(* The host loses power, or the VM dies, and the instance starts again. *)
Crash ==
    /\ Fault("crash")
    /\ PowerLoss
    /\ Boot(db')

(* The writer (or the syncer linked to it) dies and is restarted, with the       *)
(* children after it (rest_for_one); the store stays open.                       *)
WriterRestart ==
    /\ Fault("restart")
    /\ UNCHANGED <<db, disk>> /\ since' = {}
    /\ Boot(db)

-----------------------------------------------------------------------------
WriterNext ==
    \/ \E g \in Groups : CommitDuplicates(g) \/ Stage(g)
    \/ StagedOk \/ StagedError
    \/ \E p \in Pens : ReleaseDuplicate(p) \/ ReleaseFresh(p)
    \/ \E x \in Redrives : Redrive(x)
    \/ ExpireDedupe \/ ExpireRefused
    \/ HandleSyncFailed \/ RetryFence
    \/ \E r \in Reqs : RefuseFenced(r) \/ Expired(r)

SyncerNext == SyncRefuse \/ SyncCovered \/ SyncBegin \/ SyncOk \/ SyncError \/ Resume

DispatchNext == ScanBegin \/ ScanClaim \/ \E h \in db.hooks : Deliver(h)

EnvNext == Tick \/ StepBack \/ GateMoved \/ Crash \/ WriterRestart

Next ==
    \/ \E r \in Reqs : Enqueue(r) \/ EnqueueUnavailable(r)
    \/ WriterNext \/ SyncerNext \/ SweepScan \/ DispatchNext \/ EnvNext

Spec == Init /\ [][Next]_vars

(* The writer and the syncer are processes that are scheduled while they have a *)
(* message to handle; a failed fence re-arms its timer.                         *)
FairSpec == Spec /\ WF_vars(WriterNext) /\ WF_vars(SyncerNext)

-----------------------------------------------------------------------------
(* Types *)

Value == [exp : Nat, id : Calls \cup {None}]
Hook == [id : Ids, seq : Nat \ {0}, at : Nat]
Window == [cur : [Keys -> Value], old : [Keys -> Value], gen_at : Nat, since : Nat]
Reply == [kind : {"idle", "queued", "waiting", "committed", "duplicate", "quota", "error", "gone"},
          of : Calls \cup {None}, seq : Nat]
Contents == [hooks : SUBSET Hook, keys : [Keys -> Value], expiry : SUBSET (Keys \X Nat),
             count : Int, next_seq : Nat \ {0}, pen : SUBSET Pens, cursor : SUBSET Redrives]
IsEntry(e) == e.upto \in Nat /\ e.at \in Nat /\ \A c \in DOMAIN e.reply : e.reply[c] \in Reply
IsBatch(b) ==
    /\ IsEntry(b) /\ b.prev \in Nat
    /\ b.hooks \subseteq Hook /\ b.puts \in [Keys -> Value]
    /\ b.drops \subseteq Keys \X Nat /\ b.added \subseteq Calls

StoreType == db \in Contents /\ disk \subseteq Contents /\ since \subseteq Contents

CallType == reply \in [Calls -> Reply] /\ pre \in [Reqs -> [val : Value, at : Nat]]

MarkType == durable \in Nat /\ applied \in Nat /\ durable_at \in Nat

WriterType ==
    /\ next_seq \in Nat \ {0} /\ last_at \in Nat /\ fenced \in BOOLEAN /\ recent \in Window
    /\ \A b \in unsynced \cup batch : IsBatch(b)

SyncerType ==
    /\ \A e \in inbox \cup syncing : IsEntry(e)
    /\ resume \subseteq [seq : Nat, at : Nat, first : BOOLEAN]
    /\ stalled \in BOOLEAN /\ failed \in BOOLEAN

EnvType == mono \in Nat /\ skew \in 0..mono /\ gate \in BOOLEAN /\ faults \in Nat

DispatchType ==
    /\ sweep \subseteq Keys \X Nat /\ scan \in Int \cup {None}
    /\ claimed \subseteq Ids /\ delivered \subseteq Ids

(* Every variable of the queue holds a value of its type. *)
TypeOK ==
    StoreType /\ CallType /\ MarkType /\ WriterType /\ SyncerType /\ EnvType /\ DispatchType

-----------------------------------------------------------------------------
(* Properties *)

(* The hook survives any power loss, or a sink has it. *)
Safe(id) == \A d \in disk : id \in HookIds(d) \cup delivered

(* A call answered `committed` (a 201) has its hook in whatever a power loss   *)
(* may leave, however fsync failures, fences, restarts and crashes interleave. *)
CommittedDurable == \A c \in Calls : reply[c].kind = "committed" => Safe(c)

(* A call answered `duplicate` (also a 201) names a hook that is durable.  *)
DuplicateDurable == \A c \in Calls : reply[c].kind = "duplicate" => Safe(reply[c].of)

(* Once a failed fsync is dealt with, a hook whose caller was refused is not in *)
(* the store.                                                                   *)
RefusedDropped ==
    ~stalled /\ ~failed /\ ~fenced =>
        \A r \in Reqs : reply[r].kind = "error" => r \notin HookIds(db)

(* Every row dispatch may treat as due (Syncer.visible/2) is durable. *)
VisibleDurable == \A h \in db.hooks : h.at <= Visible(Wall) => Safe(h.id)

(* Every row the archive may read (Syncer.durable_seq/1) is durable. *)
WatermarkSound == \A h \in db.hooks : h.seq <= durable => Safe(h.id)

(* No hook is handed to a sink before it is durable. *)
ClaimedDurable == \A id \in claimed : Safe(id)

(* Two stored hooks of one dedupe key are at least a ttl apart, whatever the *)
(* callers prefetched.                                                       *)
OnePerWindow ==
    \A g, h \in {x \in db.hooks : x.id \in Calls} :
        g # h /\ KeyOf[g.id] = KeyOf[h.id] /\ KeyOf[g.id] # None =>
            g.at + TTL <= h.at \/ h.at + TTL <= g.at

(* No two committed calls were given one seq, across crashes and restarts. *)
SeqsDistinct ==
    \A c, e \in Calls :
        c # e /\ reply[c].kind = "committed" /\ reply[e].kind = "committed" =>
            reply[c].seq # reply[e].seq

(* A quarantined hook is held, stored, or stands behind a stored hook of its key. *)
PenSafe ==
    \A p \in Pens, d \in disk :
        \/ p \in d.pen \cup HookIds(d) \cup delivered
        \/ \E c \in (HookIds(d) \cup delivered) \cap Calls : KeyOf[c] = KeyOf[p] /\ KeyOf[p] # None

(* The replay cursor and the hook it moved are stored together or not at all, once. *)
CursorExact ==
    \A d \in disk, x \in Redrives :
        /\ x \in d.cursor => x \in HookIds(d) \cup delivered
        /\ x \in HookIds(d) => x \in d.cursor
        /\ \A g, h \in d.hooks : g.id = x /\ h.id = x => g = h

Live(d) == {k \in Keys : d.keys[k] # Absent}

(* The dedupe counter never exceeds the live keys: no hook is refused for quota *)
(* that no key uses.                                                            *)
CountNotOver == \A d \in disk : d.count <= Cardinality(Live(d))

(* The dedupe counter is the number of live keys. *)
CountExact == \A d \in disk : d.count = Cardinality(Live(d))

(* Every call the writer has in its mailbox or its pipeline is answered, or its *)
(* caller is gone, whatever fails on the way.                                   *)
Answered ==
    \A r \in Reqs : reply[r].kind \in {"queued", "waiting"} ~> reply[r].kind \notin {"queued", "waiting"}

(* After a failed fsync the syncer resumes. *)
Resumes == stalled ~> ~stalled
=============================================================================
