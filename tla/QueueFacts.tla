----------------------------- MODULE QueueFacts -----------------------------
(***************************************************************************)
(* What the proofs about Queue rest on: the types of its values, the batch *)
(* built from a group and what it does to the store, what an action leaves *)
(* alone of TypeOK and of PipelineInv, the callers' actions, and the seqs  *)
(* the writer gives out.                                                   *)
(***************************************************************************)
EXTENDS QueueInv, TLAPS

(* The provers of a step that names none, in the order they are tried. *)
USE ZenonT(3), SMTT(8), ZenonT(20), Z3T(30), SMTT(30)

-----------------------------------------------------------------------------
(* Types *)

LEMMA AbsentType == Absent \in Value /\ NoKeys \in [Keys -> Value] /\ NoRead \in [val : Value, at : Nat]
  BY DEF Absent, Value, NoKeys, NoRead

LEMMA NowType == ASSUME TypeOK PROVE Wall \in Nat /\ Now \in Nat
  BY DEF TypeOK, WriterType, EnvType, Wall, Now, Max2

LEMMA WindowType == ASSUME TypeOK PROVE FreshWindow \in Window /\ Begun \in Window
  BY AbsentType DEF TypeOK, WriterType, EnvType, FreshWindow, Begun, Window

LEMMA StoredForType ==
  ASSUME TypeOK, NEW n \in Nat, NEW g \in [1..n -> Calls], NEW w \in Window
  PROVE  StoredFor(g, w) \in [Keys -> Value]
  <1>1. ASSUME NEW k \in Keys PROVE StoredFor(g, w)[k] \in Value
    <2> DEFINE read == Newest(g, Readers(g, k, w))
    <2>1. w.cur[k] \in Value /\ w.old[k] \in Value BY DEF Window
    <2>2. db.keys[k] \in Value BY DEF TypeOK, StoreType, Contents
    <2>3. ASSUME read # {} PROVE pre[g[CHOOSE i \in read : TRUE]].val \in Value
      <3>1. (CHOOSE i \in read : TRUE) \in read BY <2>3
      <3>2. read \subseteq {i \in DOMAIN g : g[i] \in Reqs} BY DEF Newest, Readers
      <3> QED BY <3>1, <3>2 DEF TypeOK, CallType
    <2> QED BY <2>1, <2>2, <2>3 DEF StoredFor
  <1> QED BY <1>1 DEF StoredFor

LEMMA FreshType ==
  ASSUME NEW n \in Nat, NEW g \in [1..n -> Calls], NEW stored, NEW now, NEW used, NEW enforce
  PROVE  /\ Fresh(g, stored, now, used, enforce) \subseteq 1..n
         /\ Adding(g, stored, now) \subseteq 1..n
         /\ Keyed(g) \subseteq 1..n
  BY DEF Fresh, Adding, Admitted, Heads, Keyed, Known

LEMMA ExpiriesType == ASSUME NEW b, IsBatch(b) PROVE Expiries(b) \subseteq Keys \X Nat
  BY DEF IsBatch, Expiries, Value

LEMMA ReleasedType ==
  ASSUME NEW d \in Contents, NEW p
  PROVE  /\ Released(p, d) \in Contents
         /\ Released(p, d).hooks = d.hooks
         /\ Released(p, d).pen = d.pen \ {p}
         /\ Released(p, d).cursor = d.cursor
         /\ Released(p, d).next_seq = d.next_seq
  BY DEF Released, Contents

LEMMA WriteType ==
  ASSUME StoreType, NEW d \in Contents, Write(d) \/ WriteSync(d)
  PROVE  StoreType'
  BY DEF StoreType, Write, WriteSync, Grown

LEMMA GroupType ==
  ASSUME NEW g \in Groups
  PROVE  /\ \E n \in Nat : g \in [1..n -> Calls]
         /\ CallsOf(g) \subseteq Queued /\ CallsOf(g) \subseteq Reqs
  <1>1. PICK n \in 1..GroupMax : g \in [1..n -> Queued] BY DEF Groups
  <1>2. Queued \subseteq Reqs /\ Queued \subseteq Calls BY DEF Queued, Calls
  <1>3. n \in Nat BY BoundsAssumption
  <1> QED BY <1>1, <1>2, <1>3 DEF CallsOf

LEMMA PenGroup == ASSUME NEW p \in Pens
                  PROVE  <<p>> \in [1..1 -> Calls] /\ CallsOf(<<p>>) = {p}
  <1>1. <<p>> \in [1..1 -> Calls] BY DEF Calls
  <1>2. CallsOf(<<p>>) = {p} BY DEF CallsOf
  <1> QED BY <1>1, <1>2

LEMMA ReplyType ==
  ASSUME CallType
  PROVE  /\ \A kind \in {"idle", "queued", "waiting", "quota", "error", "gone"} : State(kind) \in Reply
         /\ \A r \in [Calls -> Reply], c \in Calls, x \in Reply : [r EXCEPT ![c] = x] \in [Calls -> Reply]
         /\ \A S : RefuseAll(S) \in [Calls -> Reply] /\ Waiting(S) \in [Calls -> Reply]
         /\ \A b : IsEntry(b) => Answer(b.reply) \in [Calls -> Reply]
         /\ \A S : (\A e \in S : IsEntry(e)) => AnswerAll(S) \in [Calls -> Reply]
         /\ \A S : Forget(S) \in [Reqs -> [val : Value, at : Nat]]
  <1>1. \A kind \in {"idle", "queued", "waiting", "quota", "error", "gone"} : State(kind) \in Reply
    BY DEF State, Reply
  <1>2. \A S : RefuseAll(S) \in [Calls -> Reply] /\ Waiting(S) \in [Calls -> Reply]
    <2> HIDE DEF Reply
    <2> QED BY <1>1 DEF RefuseAll, Waiting, CallType
  <1>3. \A b : IsEntry(b) => Answer(b.reply) \in [Calls -> Reply]
    BY DEF IsEntry, Answer, CallType
  <1>4. ASSUME NEW S, \A e \in S : IsEntry(e) PROVE AnswerAll(S) \in [Calls -> Reply]
    <2>1. ASSUME NEW c \in Calls, \E e \in S : c \in DOMAIN e.reply
          PROVE  (CHOOSE e \in S : c \in DOMAIN e.reply).reply[c] \in Reply
      <3> DEFINE e0 == CHOOSE e \in S : c \in DOMAIN e.reply
      <3>1. e0 \in S /\ c \in DOMAIN e0.reply BY <2>1
      <3> HIDE DEF e0
      <3>2. e0.reply[c] \in Reply BY <3>1, <1>4 DEF IsEntry
      <3> QED BY <3>2 DEF e0
    <2> QED BY <2>1 DEF AnswerAll, CallType
  <1>5. \A S : Forget(S) \in [Reqs -> [val : Value, at : Nat]] BY AbsentType DEF Forget, CallType
  <1> QED BY <1>1, <1>2, <1>3, <1>4, <1>5

LEMMA RecordedType ==
  ASSUME NEW w \in Window, NEW puts \in [Keys -> Value]
  PROVE  Recorded(w, puts) \in Window
  BY DEF Recorded, Window

LEMMA ErrorType ==
  ASSUME StoreType, faults \in Nat, NEW d \in Contents, ErrorOf(d)
  PROVE  StoreType' /\ faults' \in Nat
  <1>1. faults' \in Nat BY DEF ErrorOf, Fault
  <1>2. CASE UNCHANGED storeVars BY <1>1, <1>2 DEF StoreType, storeVars
  <1>3. CASE WriteSync(d) BY <1>1, <1>3, WriteType
  <1> QED BY <1>1, <1>2, <1>3 DEF ErrorOf

LEMMA MarkedType ==
  ASSUME MarkType, NEW seq \in Nat, NEW at \in Nat, MarkDurable(seq, at)
  PROVE  durable' \in Nat /\ durable_at' \in Nat
  BY DEF MarkType, MarkDurable, Max2

(* The store a redrive writes. *)
Redriven(x) == [db EXCEPT !.hooks = @ \cup {[id |-> x, seq |-> next_seq, at |-> Now]},
                          !.cursor = @ \cup {x},
                          !.next_seq = next_seq + 1]
LEMMA RedrivenType ==
  ASSUME TypeOK, NEW x \in Redrives
  PROVE  /\ Redriven(x) \in Contents
         /\ Redriven(x).hooks = db.hooks \cup {[id |-> x, seq |-> next_seq, at |-> Now]}
         /\ Redriven(x).pen = db.pen
         /\ Redriven(x).cursor = db.cursor \cup {x}
         /\ Redriven(x).next_seq = next_seq + 1
  <1> DEFINE h == [id |-> x, seq |-> next_seq, at |-> Now]
  <1>1. h \in Hook BY NowType DEF TypeOK, WriterType, Hook, Ids
  <1>2. next_seq + 1 \in Nat \ {0} BY DEF TypeOK, WriterType
  <1> DEFINE hooks == db.hooks \cup {h}
             cursor == db.cursor \cup {x}
  <1>3. Redriven(x) = [db EXCEPT !.hooks = hooks, !.cursor = cursor, !.next_seq = next_seq + 1]
    BY DEF Redriven
  <1> HIDE DEF h
  <1>4. hooks \subseteq Hook /\ cursor \subseteq Redrives BY <1>1 DEF TypeOK, StoreType, Contents
  <1> HIDE DEF hooks, cursor
  <1>5. Redriven(x) \in Contents BY <1>2, <1>3, <1>4, Zenon DEF TypeOK, StoreType, Contents
  <1>6. /\ Redriven(x).hooks = hooks /\ Redriven(x).pen = db.pen /\ Redriven(x).cursor = cursor
        /\ Redriven(x).next_seq = next_seq + 1
    BY <1>3 DEF TypeOK, StoreType, Contents
  <1> QED BY <1>5, <1>6 DEF h, hooks, cursor

LEMMA UncoveredType == ASSUME TypeOK PROVE \A u \in Uncovered : IsBatch(u)
  BY DEF TypeOK, WriterType, Uncovered

(* A writer that starts over the contents `d` begins above every stored seq. *)
LEMMA BootFacts ==
  ASSUME TypeOK, NEW d \in Contents, Boot(d)
  PROVE  /\ CallType' /\ MarkType' /\ WriterType' /\ SyncerType' /\ DispatchType'
         /\ mono' = mono /\ skew' = skew /\ gate' = FALSE
         /\ \A h \in d.hooks : h.seq < next_seq' /\ h.seq <= durable'
         /\ durable' < next_seq' /\ applied' < next_seq'
         /\ d.next_seq <= next_seq'
  <1> DEFINE floors == {d.next_seq} \cup {h.seq + 1 : h \in d.hooks}
  <1>1. PICK n \in floors : /\ \A m \in floors : m <= n
                            /\ next_seq' = n /\ durable' = n - 1 /\ applied' = n - 1
    BY Zenon DEF Boot
  <1>a. d.next_seq \in Nat \ {0} /\ \A h \in d.hooks : h.seq \in Nat \ {0} BY DEF Contents, Hook
  <1>2. floors \subseteq Nat \ {0} BY <1>a
  <1>3. ASSUME NEW h \in d.hooks PROVE h.seq < next_seq' /\ h.seq <= durable'
    <2>1. h.seq \in Nat /\ h.seq + 1 \in floors BY <1>a
    <2> HIDE DEF floors
    <2>2. h.seq + 1 <= n /\ n \in Nat BY <1>1, <1>2, <2>1
    <2> QED BY <1>1, <2>1, <2>2
  <1>4. durable' \in Nat /\ applied' \in Nat /\ next_seq' \in Nat \ {0} BY <1>1, <1>2
  <1>b. durable' < next_seq' /\ applied' < next_seq' BY <1>1, <1>2
  <1>c. d.next_seq <= next_seq'
    <2>1. d.next_seq \in floors OBVIOUS
    <2> HIDE DEF floors
    <2> QED BY <1>1, <2>1
  <1>5. Wall \in Nat BY NowType
  <1>6. MarkType' BY <1>4, <1>5 DEF Boot, MarkType
  <1>7. reply' \in [Calls -> Reply]
    <2>1. State("gone") \in Reply BY ReplyType DEF TypeOK
    <2> QED BY <2>1 DEF Boot, TypeOK, CallType
  <1>8. CallType' BY <1>7, AbsentType DEF Boot, CallType
  <1>9. WriterType' BY <1>4, WindowType, Zenon DEF Boot, WriterType
  <1>10. SyncerType' /\ DispatchType' BY Zenon DEF Boot, SyncerType, DispatchType, TypeOK
  <1> QED BY <1>b, <1>c, <1>3, <1>6, <1>8, <1>9, <1>10, Zenon DEF Boot

-----------------------------------------------------------------------------
(* Groups and the batch built from one *)

(* What counting rests on: the sizes of sets of keys and calls are numbers, and *)
(* so are the sizes of sets of places in a group, where an earlier place has    *)
(* fewer places before it.                                                      *)
Counts ==
    /\ \A S : S \subseteq Calls \/ S \subseteq Keys => Cardinality(S) \in Nat
    /\ \A n \in Nat : \A S \in SUBSET (1..n) :
          /\ Cardinality(S) \in Nat
          /\ S # {} => Cardinality(S) > 0
          /\ \A i \in S : Cardinality({j \in S : j < i}) \in 0..(Cardinality(S) - 1)
          /\ \A i, k \in S : i < k => Cardinality({j \in S : j < i}) < Cardinality({j \in S : j < k})

LEMMA Earlier ==
  ASSUME Counts, NEW n \in Nat, NEW S \in SUBSET (1..n)
  PROVE  /\ Cardinality(S) \in Nat
         /\ S # {} => Cardinality(S) > 0
         /\ \A i \in S : Cardinality({j \in S : j < i}) \in 0..(Cardinality(S) - 1)
         /\ \A i, k \in S : i < k => Cardinality({j \in S : j < i}) < Cardinality({j \in S : j < k})
  BY Zenon DEF Counts

(* What the writer relies on when it stages a group: its rows take the seqs *)
(* from next_seq to upto, and a caller told `committed` has one of them.    *)
BuiltFor(b, calls) ==
    /\ IsBatch(b)
    /\ DOMAIN b.reply = calls /\ b.prev = applied
    /\ b.hooks # {} => b.upto >= next_seq
    /\ \A h \in b.hooks : h.id \in calls /\ next_seq <= h.seq /\ h.seq <= b.upto
    /\ \A c \in Commits(b) : \E h \in b.hooks : h.id = c

(* The callers told `committed` have a seq of the group each, no two the same. *)
SeqsFor(b) ==
    \A c \in Commits(b) :
        /\ next_seq <= b.reply[c].seq /\ b.reply[c].seq <= b.upto
        /\ \A k \in Commits(b) : k # c => b.reply[k].seq # b.reply[c].seq

LEMMA BuildFacts ==
  ASSUME Counts, TypeOK, NEW n \in Nat, NEW g \in [1..n -> Calls], NEW w \in Window, NEW enforce \in BOOLEAN,
         NEW b, b = Build(g, w, enforce)
  PROVE  BuiltFor(b, CallsOf(g)) /\ SeqsFor(b)
  <1> DEFINE stored   == StoredFor(g, w)
             fresh    == Fresh(g, stored, Now, db.count, enforce)
             seq(i)   == next_seq + Cardinality({j \in fresh : j < i})
             takes(k) == {i \in fresh : KeyOf[g[i]] = k}
             first(c) == CHOOSE i \in DOMAIN g : g[i] = c
             of(i)    == Original(g, stored, Now, fresh, i)
             result(i) == IF i \in fresh THEN Committed(seq(i))
                          ELSE IF of(i) = None THEN State("quota") ELSE Duplicate(of(i))
  <1>b. b = [upto  |-> next_seq + Cardinality(fresh) - 1,
             at    |-> Now,
             prev  |-> applied,
             hooks |-> {[id |-> g[i], seq |-> seq(i), at |-> Now] : i \in fresh},
             puts  |-> [k \in Keys |-> IF takes(k) = {} THEN Absent
                            ELSE [exp |-> Now + TTL, id |-> g[CHOOSE i \in takes(k) : TRUE]]],
             drops |-> {<<k, stored[k].exp>> : k \in {x \in Keys : takes(x) # {} /\ stored[x] # Absent}},
             added |-> {g[i] : i \in fresh \cap Adding(g, stored, Now)},
             reply |-> [c \in CallsOf(g) |-> result(first(c))]]
    BY DEF Build, CallsOf
  <1> HIDE DEF stored, fresh, seq, takes, first, of, result
  <1>u. b.upto = next_seq + Cardinality(fresh) - 1 /\ b.at = Now /\ b.prev = applied BY <1>b
  <1>h. b.hooks = {[id |-> g[i], seq |-> seq(i), at |-> Now] : i \in fresh} BY <1>b
  <1>p. b.puts = [k \in Keys |-> IF takes(k) = {} THEN Absent
                       ELSE [exp |-> Now + TTL, id |-> g[CHOOSE i \in takes(k) : TRUE]]] BY <1>b
  <1>d. b.drops = {<<k, stored[k].exp>> : k \in {x \in Keys : takes(x) # {} /\ stored[x] # Absent}}
    BY <1>b
  <1>a. b.added = {g[i] : i \in fresh \cap Adding(g, stored, Now)} BY <1>b
  <1>r. b.reply = [c \in CallsOf(g) |-> result(first(c))] BY <1>b
  <1>1. stored \in [Keys -> Value] BY StoredForType DEF stored
  <1>2. Now \in Nat /\ next_seq \in Nat \ {0} /\ applied \in Nat
    BY NowType DEF TypeOK, WriterType, MarkType
  <1>3. fresh \subseteq 1..n /\ Adding(g, stored, Now) \subseteq 1..n BY FreshType, Zenon DEF fresh
  <1>4. /\ Cardinality(fresh) \in Nat
        /\ fresh # {} => Cardinality(fresh) > 0
        /\ \A i \in fresh : Cardinality({j \in fresh : j < i}) \in 0..(Cardinality(fresh) - 1)
    BY <1>3, Earlier, Zenon
  <1>5. ASSUME NEW i \in fresh PROVE seq(i) \in Nat \ {0} /\ next_seq <= seq(i) /\ seq(i) <= b.upto
    BY <1>u, <1>2, <1>4 DEF seq
  <1>6. ASSUME NEW c \in CallsOf(g) PROVE first(c) \in 1..n /\ g[first(c)] = c
    BY DEF CallsOf, first
  <1>7. ASSUME NEW i \in 1..n PROVE of(i) \in Calls \cup {None}
    <2>1. CASE i \in Known(g, stored, Now)
      <3>1. KeyOf[g[i]] \in Keys BY <2>1, KeyOfAssumption DEF Known, Keyed
      <3> QED BY <2>1, <3>1, <1>1 DEF of, Original, Value
    <2>2. CASE i \notin Known(g, stored, Now) /\ \E j \in fresh : j < i /\ SameKey(g, i, j)
      <3> DEFINE j0 == CHOOSE j \in fresh : j < i /\ SameKey(g, i, j)
      <3>1. j0 \in fresh BY <2>2
      <3>2. of(i) = g[j0] BY <2>2 DEF of, Original
      <3> HIDE DEF j0
      <3> QED BY <3>1, <3>2, <1>3
    <2>3. CASE i \notin Known(g, stored, Now) /\ ~\E j \in fresh : j < i /\ SameKey(g, i, j)
      BY <2>3 DEF of, Original
    <2> QED BY <2>1, <2>2, <2>3
  <1>8. ASSUME NEW i \in 1..n
        PROVE  result(i) \in Reply /\ (result(i).kind = "committed" => i \in fresh)
    <2>1. CASE i \in fresh
      <3>1. result(i) = Committed(seq(i)) BY <2>1 DEF result
      <3> QED BY <2>1, <3>1, <1>5 DEF Committed, Reply
    <2>2. CASE i \notin fresh /\ of(i) = None
      <3>1. result(i) = State("quota") BY <2>2 DEF result
      <3> QED BY <3>1 DEF State, Reply
    <2>3. CASE i \notin fresh /\ of(i) # None
      <3>1. result(i) = Duplicate(of(i)) BY <2>3 DEF result
      <3> QED BY <2>3, <3>1, <1>7 DEF Duplicate, Reply
    <2> QED BY <2>1, <2>2, <2>3
  <1>9. DOMAIN b.reply = CallsOf(g) BY <1>r
  <1>10. b.hooks # {} => b.upto >= next_seq BY <1>u, <1>h, <1>2, <1>4
  <1>11. \A h \in b.hooks : h.id \in CallsOf(g) /\ next_seq <= h.seq /\ h.seq <= b.upto
    <2> SUFFICES ASSUME NEW i \in fresh
                 PROVE  g[i] \in CallsOf(g) /\ next_seq <= seq(i) /\ seq(i) <= b.upto
      BY <1>h
    <2> QED BY <1>3, <1>5 DEF CallsOf
  <1>12. \A c \in Commits(b) : \E h \in b.hooks : h.id = c
    <2> TAKE c \in Commits(b)
    <2>1. c \in CallsOf(g) /\ b.reply[c] = result(first(c)) BY <1>r, <1>9 DEF Commits
    <2>2. first(c) \in fresh
      <3>1. result(first(c)).kind = "committed" BY <2>1 DEF Commits
      <3> QED BY <2>1, <3>1, <1>6, <1>8
    <2>3. [id |-> g[first(c)], seq |-> seq(first(c)), at |-> Now] \in b.hooks BY <2>2, <1>h
    <2> QED BY <2>1, <2>3, <1>6
  <1>13. IsBatch(b)
    <2>1. IsEntry(b)
      <3>1. \A c \in DOMAIN b.reply : b.reply[c] \in Reply BY <1>r, <1>6, <1>8
      <3>2. b.upto \in Nat /\ b.at \in Nat BY <1>u, <1>2, <1>4
      <3> QED BY <3>1, <3>2 DEF IsEntry
    <2>2. b.hooks \subseteq Hook
      <3> SUFFICES ASSUME NEW i \in fresh PROVE [id |-> g[i], seq |-> seq(i), at |-> Now] \in Hook
        BY <1>h
      <3> QED BY <1>2, <1>3, <1>5 DEF Hook, Ids
    <2>3. b.puts \in [Keys -> Value]
      <3>1. ASSUME NEW k \in Keys, takes(k) # {}
            PROVE  [exp |-> Now + TTL, id |-> g[CHOOSE i \in takes(k) : TRUE]] \in Value
        <4> DEFINE i0 == CHOOSE i \in takes(k) : TRUE
        <4>1. i0 \in takes(k) BY <3>1
        <4>2. takes(k) \subseteq fresh BY DEF takes
        <4> HIDE DEF i0
        <4>3. g[i0] \in Calls BY <4>1, <4>2, <1>3, Zenon
        <4>4. Now + TTL \in Nat BY <1>2, TTLAssumption
        <4>5. [exp |-> Now + TTL, id |-> g[i0]] \in Value BY <4>3, <4>4 DEF Value
        <4> QED BY <4>5 DEF i0
      <3> QED BY <3>1, <1>p, AbsentType
    <2>4. b.drops \subseteq Keys \X Nat BY <1>d, <1>1 DEF Value
    <2>5. b.added \subseteq Calls BY <1>a, <1>3
    <2> QED BY <2>1, <2>2, <2>3, <2>4, <2>5, <1>u, <1>2 DEF IsBatch
  <1>14. SeqsFor(b)
    <2>1. ASSUME NEW c \in Commits(b)
          PROVE  c \in CallsOf(g) /\ first(c) \in fresh /\ b.reply[c].seq = seq(first(c))
      <3>1. c \in CallsOf(g) /\ b.reply[c] = result(first(c)) BY <1>r, <1>9 DEF Commits
      <3>2. first(c) \in fresh
        <4>1. result(first(c)).kind = "committed" BY <3>1 DEF Commits
        <4> QED BY <3>1, <4>1, <1>6, <1>8
      <3>3. result(first(c)) = Committed(seq(first(c))) BY <3>2 DEF result
      <3> QED BY <3>1, <3>2, <3>3 DEF Committed
    <2>2. ASSUME NEW i \in fresh, NEW k \in fresh, i < k PROVE seq(i) # seq(k)
      <3>1. Cardinality({j \in fresh : j < i}) < Cardinality({j \in fresh : j < k})
        BY <1>3, <2>2, Earlier, Zenon
      <3> QED BY <3>1, <1>2, <1>4 DEF seq
    <2>3. ASSUME NEW c \in Commits(b), NEW k \in Commits(b), k # c PROVE b.reply[k].seq # b.reply[c].seq
      <3>1. first(c) # first(k) BY <2>1, <2>3, <1>6
      <3>2. first(c) \in 1..n /\ first(k) \in 1..n BY <2>1, <1>6
      <3>3. first(c) < first(k) \/ first(k) < first(c) BY <3>1, <3>2
      <3> QED BY <2>1, <2>2, <3>3
    <2> QED BY <2>1, <2>3, <1>5 DEF SeqsFor
  <1> QED BY <1>9, <1>10, <1>11, <1>12, <1>13, <1>14, <1>u DEF BuiltFor

LEMMA GroupFacts ==
  ASSUME Counts, TypeOK, NEW g \in Groups
  PROVE  BuiltFor(Build(g, Begun, TRUE), CallsOf(g)) /\ SeqsFor(Build(g, Begun, TRUE))
  <1>1. PICK n \in Nat : g \in [1..n -> Calls] BY GroupType
  <1>2. Begun \in Window /\ TRUE \in BOOLEAN BY WindowType
  <1> QED BY <1>1, <1>2, BuildFacts, Zenon

LEMMA PenFacts ==
  ASSUME Counts, TypeOK, NEW p \in Pens
  PROVE  BuiltFor(Build(<<p>>, Begun, FALSE), {p}) /\ SeqsFor(Build(<<p>>, Begun, FALSE))
  <1>1. <<p>> \in [1..1 -> Calls] /\ CallsOf(<<p>>) = {p} BY PenGroup
  <1>2. Begun \in Window /\ FALSE \in BOOLEAN /\ 1 \in Nat BY WindowType
  <1>3. BuiltFor(Build(<<p>>, Begun, FALSE), CallsOf(<<p>>)) /\ SeqsFor(Build(<<p>>, Begun, FALSE))
    BY <1>1, <1>2, BuildFacts, Zenon
  <1> QED BY <1>1, <1>3, Zenon

-----------------------------------------------------------------------------
(* Batches and expired keys, applied to the store and undone *)

LEMMA CountOf ==
  ASSUME Counts, NEW S, S \subseteq Calls \/ S \subseteq Keys
  PROVE  Cardinality(S) \in Nat
  BY Zenon DEF Counts

LEMMA AppliedType ==
  ASSUME Counts, NEW d \in Contents, NEW b, IsBatch(b)
  PROVE  /\ Applied(d, b) \in Contents
         /\ Applied(d, b).hooks = d.hooks \cup b.hooks
         /\ Applied(d, b).pen = d.pen
         /\ Applied(d, b).cursor = d.cursor
         /\ Applied(d, b).next_seq = b.upto + 1
  <1>1. Cardinality(b.added) \in Nat BY CountOf DEF IsBatch
  <1>2. Expiries(b) \subseteq Keys \X Nat BY ExpiriesType
  <1> DEFINE hooks == d.hooks \cup b.hooks
             keys == [k \in Keys |-> IF b.puts[k] # Absent THEN b.puts[k] ELSE d.keys[k]]
             rows == (d.expiry \ b.drops) \cup Expiries(b)
             count == d.count + Cardinality(b.added)
             next == b.upto + 1
  <1>3. keys \in [Keys -> Value] BY DEF IsBatch, Contents
  <1>4. next \in Nat \ {0} /\ hooks \subseteq Hook /\ rows \subseteq Keys \X Nat /\ count \in Int
    BY <1>1, <1>2 DEF IsBatch, IsEntry, Contents
  <1>5. Applied(d, b) = [d EXCEPT !.hooks = hooks, !.keys = keys, !.expiry = rows,
                                  !.count = count, !.next_seq = next]
    BY DEF Applied
  <1>6. hooks = d.hooks \cup b.hooks /\ next = b.upto + 1 OBVIOUS
  <1> HIDE DEF hooks, keys, rows, count, next
  <1>7. Applied(d, b) \in Contents BY <1>3, <1>4, <1>5, ZenonT(40) DEF Contents
  <1>8. /\ Applied(d, b).hooks = hooks /\ Applied(d, b).pen = d.pen /\ Applied(d, b).cursor = d.cursor
        /\ Applied(d, b).next_seq = next
    BY <1>5 DEF Contents
  <1> QED BY <1>6, <1>7, <1>8

LEMMA UndoneType ==
  ASSUME Counts, NEW d \in Contents, NEW U, \A u \in U : IsBatch(u)
  PROVE  /\ Undone(d, U) \in Contents
         /\ Undone(d, U).hooks = {h \in d.hooks : \A u \in U : \A x \in u.hooks : x.seq # h.seq}
         /\ Undone(d, U).pen = d.pen
         /\ Undone(d, U).cursor = d.cursor
         /\ Undone(d, U).next_seq = d.next_seq
  <1> DEFINE seqs == {h.seq : h \in UNION {b.hooks : b \in U}}
             keys == [k \in Keys |-> IF \E b \in U : b.puts[k] # Absent THEN Absent ELSE d.keys[k]]
             rows == d.expiry \ UNION {Expiries(b) : b \in U}
             taken == Cardinality(UNION {b.added : b \in U})
             hooks == {h \in d.hooks : h.seq \notin seqs}
  <1>1. UNION {b.added : b \in U} \subseteq Calls BY DEF IsBatch
  <1>2. taken \in Nat BY <1>1, CountOf
  <1>3. keys \in [Keys -> Value] BY AbsentType DEF Contents
  <1>4. rows \subseteq Keys \X Nat BY DEF Contents
  <1>5. hooks \subseteq Hook BY DEF Contents
  <1>6. hooks = {h \in d.hooks : \A u \in U : \A x \in u.hooks : x.seq # h.seq} OBVIOUS
  <1>7. Undone(d, U) = [d EXCEPT !.hooks = hooks, !.keys = keys, !.expiry = rows,
                                 !.count = d.count - taken]
    BY DEF Undone
  <1>8. d.count - taken \in Int BY <1>2 DEF Contents
  <1> HIDE DEF hooks, keys, rows, taken, seqs
  <1> QED BY <1>3, <1>4, <1>5, <1>6, <1>7, <1>8, ZenonT(40) DEF Contents

LEMMA ExpireFacts ==
  ASSUME Counts, TypeOK, ExpireDedupe
  PROVE  /\ \E d \in Contents : /\ Write(d) /\ d.hooks = db.hooks /\ d.pen = db.pen
                               /\ d.cursor = db.cursor /\ d.next_seq = db.next_seq
         /\ recent' \in Window
         /\ sweep' = {}
         /\ UNCHANGED <<callVars, markVars, next_seq, last_at, unsynced, fenced, batch, syncerVars,
                        envVars, dispatchVars>>
  <1> DEFINE gone == {k \in Keys : \E e \in sweep : e[1] = k /\ db.keys[k].exp = e[2]}
             without(f) == [k \in Keys |-> IF k \in gone THEN Absent ELSE f[k]]
             keys == without(db.keys)
             rows == db.expiry \ sweep
             count == db.count - Cardinality(gone)
             d == [db EXCEPT !.keys = keys, !.expiry = rows, !.count = count]
  <1>1. Write(d) /\ recent' = [recent EXCEPT !.cur = without(@), !.old = without(@)] /\ sweep' = {}
    BY DEF ExpireDedupe
  <1>2. UNCHANGED <<callVars, markVars, next_seq, last_at, unsynced, fenced, batch, syncerVars,
                    envVars, dispatchVars>>
    BY DEF ExpireDedupe
  <1>3. Cardinality(gone) \in Nat BY CountOf
  <1> HIDE DEF gone
  <1>4. \A f \in [Keys -> Value] : without(f) \in [Keys -> Value] BY AbsentType
  <1> HIDE DEF without
  <1>a. keys \in [Keys -> Value] /\ rows \subseteq Keys \X Nat /\ count \in Int
    BY <1>3, <1>4 DEF TypeOK, StoreType, Contents
  <1> HIDE DEF keys, rows, count
  <1>5. /\ d \in Contents /\ d.hooks = db.hooks /\ d.pen = db.pen
        /\ d.cursor = db.cursor /\ d.next_seq = db.next_seq
    BY <1>a, Zenon DEF TypeOK, StoreType, Contents
  <1>6. recent' \in Window BY <1>1, <1>4, Zenon DEF TypeOK, WriterType, Window
  <1> QED BY <1>1, <1>2, <1>5, <1>6, Zenon

-----------------------------------------------------------------------------
(* What an action leaves of the types and of PipelineInv *)

(* What is not assigned keeps its type. *)
LEMMA TypeFrame ==
  /\ StoreType /\ UNCHANGED storeVars => StoreType'
  /\ CallType /\ UNCHANGED callVars => CallType'
  /\ MarkType /\ UNCHANGED markVars => MarkType'
  /\ WriterType /\ UNCHANGED writerVars => WriterType'
  /\ SyncerType /\ UNCHANGED syncerVars => SyncerType'
  /\ EnvType /\ UNCHANGED envVars => EnvType'
  /\ DispatchType /\ UNCHANGED <<sweep, dispatchVars>> => DispatchType'
  <1>1. StoreType /\ UNCHANGED storeVars => StoreType' BY DEF StoreType, storeVars
  <1>2. CallType /\ UNCHANGED callVars => CallType' BY DEF CallType, callVars
  <1>3. MarkType /\ UNCHANGED markVars => MarkType' BY DEF MarkType, markVars
  <1>4. WriterType /\ UNCHANGED writerVars => WriterType' BY Zenon DEF WriterType, writerVars
  <1>5. SyncerType /\ UNCHANGED syncerVars => SyncerType' BY Zenon DEF SyncerType, syncerVars
  <1>6. EnvType /\ UNCHANGED envVars => EnvType' BY Zenon DEF EnvType, envVars
  <1>7. DispatchType /\ UNCHANGED <<sweep, dispatchVars>> => DispatchType' BY DEF DispatchType, dispatchVars
  <1> QED BY <1>1, <1>2, <1>3, <1>4, <1>5, <1>6, <1>7, Zenon

(* A fault is counted and the gate closes; the clock stands. *)
LEMMA EnvKept ==
  ASSUME TypeOK, faults' \in Nat, gate' \in {gate, FALSE}, UNCHANGED <<mono, skew>>
  PROVE  EnvType'
  BY Zenon DEF TypeOK, EnvType

(* PipelineInv is its conjuncts, before a step and after it. *)
LEMMA PipelineParts ==
  PipelineInv => StoreInv /\ FenceInv /\ CallInv /\ BatchInv /\ SeqInv /\ EntryInv /\ AckInv
  BY DEF PipelineInv

LEMMA PipelineWhole ==
  StoreInv' /\ FenceInv' /\ CallInv' /\ BatchInv' /\ SeqInv' /\ EntryInv' /\ AckInv' => PipelineInv'
  BY DEF PipelineInv

(* The numbers of the pipeline. *)
LEMMA Numbers ==
  ASSUME TypeOK
  PROVE  /\ next_seq \in Nat /\ durable \in Nat /\ applied \in Nat
         /\ \A h \in db.hooks : h.seq \in Nat
         /\ \A e \in inbox \cup syncing : e.upto \in Nat
         /\ \A m \in resume : m.seq \in Nat
         /\ \A u \in unsynced \cup batch : u.upto \in Nat /\ u.prev \in Nat
         /\ \A u \in unsynced \cup batch : \A h \in u.hooks : h.seq \in Nat
  <1>1. next_seq \in Nat /\ durable \in Nat /\ applied \in Nat BY DEF TypeOK, WriterType, MarkType
  <1>2. \A h \in db.hooks : h.seq \in Nat BY DEF TypeOK, StoreType, Contents, Hook
  <1>3. \A e \in inbox \cup syncing : e.upto \in Nat BY DEF TypeOK, SyncerType, IsEntry
  <1>4. \A m \in resume : m.seq \in Nat BY DEF TypeOK, SyncerType
  <1>5. \A u \in unsynced \cup batch : IsBatch(u) BY DEF TypeOK, WriterType
  <1>6. \A u \in unsynced \cup batch : u.upto \in Nat /\ u.prev \in Nat BY <1>5 DEF IsBatch, IsEntry
  <1>7. \A u \in unsynced \cup batch : \A h \in u.hooks : h.seq \in Nat BY <1>5 DEF IsBatch, Hook
  <1> QED BY <1>1, <1>2, <1>3, <1>4, <1>6, <1>7

Keeps(d) == delivered \subseteq delivered' /\ \A c : Stored(c, db) => c \in HookIds(d) \cup delivered'
LEMMA KeepWrite ==
  ASSUME StoreInv, NEW d, Write(d) \/ WriteSync(d), Keeps(d), syncing' = syncing
  PROVE  /\ StoreInv'
         /\ \A c : Stored(c, db) => Stored(c, db)'
         /\ \A c : Safe(c) => Safe(c)'
         /\ \A c : (\A x \in since : Stored(c, x)) => \A x \in since' : Stored(c, x)'
  <1>1. db' = d /\ d \in disk' /\ disk' \subseteq disk \cup {d}
    BY DEF Write, WriteSync
  <1>2. \/ since = {} /\ since' = {}
        \/ since # {} /\ d \in since' /\ since' \subseteq since \cup {d}
    BY DEF Write, WriteSync, Grown
  <1>a. since' \subseteq disk' BY DEF StoreInv, Write, WriteSync, Grown
  <1>3. StoreInv' BY <1>1, <1>2, <1>a DEF StoreInv
  <1>4. \A c, x : Stored(c, x) => Stored(c, x)' BY DEF Keeps, Stored
  <1>5. \A c : Stored(c, db) => Stored(c, d)' BY DEF Keeps, Stored
  <1>6. \A c : Stored(c, db) => Stored(c, db)'
    BY <1>1, <1>5 DEF Stored
  <1>7. \A c : Safe(c) => Safe(c)'
    <2> SUFFICES ASSUME NEW c, Safe(c), NEW x \in disk' PROVE Stored(c, x)' BY DEF Safe, Stored
    <2>1. CASE x \in disk BY <2>1, <1>4 DEF Safe, Stored
    <2>2. CASE x = d
      <3>1. Stored(c, db) BY DEF Safe, Stored, StoreInv
      <3> QED BY <2>2, <3>1, <1>5
    <2> QED BY <1>1, <2>1, <2>2
  <1>8. \A c : (\A x \in since : Stored(c, x)) => \A x \in since' : Stored(c, x)'
    <2> SUFFICES ASSUME NEW c, \A x \in since : Stored(c, x), NEW x \in since' PROVE Stored(c, x)'
      OBVIOUS
    <2>1. CASE x \in since BY <2>1, <1>4
    <2>2. CASE x = d
      <3>1. since # {} BY <1>2
      <3>2. Stored(c, db) BY <3>1 DEF StoreInv
      <3> QED BY <2>2, <3>2, <1>5
    <2> QED BY <1>2, <2>1, <2>2
  <1> QED BY <1>3, <1>6, <1>7, <1>8

LEMMA KeepSync ==
  ASSUME NEW d, WriteSync(d), Keeps(d)
  PROVE  \A c : Stored(c, db) => Safe(c)'
  BY DEF WriteSync, Keeps, Safe, Stored

coreVars == <<db, disk, since, durable, applied, next_seq, unsynced, fenced, batch, syncerVars, delivered>>
LEMMA CoreFrame ==
  ASSUME StoreInv, FenceInv, BatchInv, SeqInv, EntryInv, UNCHANGED coreVars
  PROVE  StoreInv' /\ FenceInv' /\ BatchInv' /\ SeqInv' /\ EntryInv'
  <1>1. StoreInv' BY DEF StoreInv, coreVars, syncerVars
  <1>2. FenceInv' BY DEF FenceInv, coreVars, syncerVars
  <1>3. BatchInv' BY DEF BatchInv, Boundary, Commits, coreVars, syncerVars
  <1>4. SeqInv' BY DEF SeqInv, Boundary, coreVars, syncerVars
  <1>5. EntryInv' BY Zenon DEF EntryInv, Doomed, Commits, Stored, Safe, HookIds, coreVars, syncerVars
  <1> QED BY <1>1, <1>2, <1>3, <1>4, <1>5

(* Answers that are not `committed`, to calls outside the pipeline. *)
LEMMA OutsideFrame ==
  ASSUME CallInv, AckInv, UNCHANGED coreVars, NEW S \in SUBSET Calls,
         \A c \in S : reply[c].kind # "waiting" /\ reply'[c].kind # "committed",
         \A c \in Calls \ S : reply'[c] = reply[c]
  PROVE  CallInv' /\ AckInv'
  <1>1. \A c \in Calls : reply'[c].kind = "committed" => reply[c].kind = "committed" OBVIOUS
  <1>2. \A c \in Calls : reply[c].kind = "waiting" => reply'[c].kind = "waiting" OBVIOUS
  <1>3. CallInv' BY <1>1, <1>2 DEF CallInv, Calls, coreVars, syncerVars
  <1>4. AckInv' BY <1>1 DEF AckInv, Safe, HookIds, coreVars, syncerVars
  <1> QED BY <1>3, <1>4

LEMMA BatchFrame ==
  ASSUME BatchInv, UNCHANGED <<batch, next_seq, applied, unsynced>>
  PROVE  BatchInv'
  BY DEF BatchInv, Boundary, Commits

-----------------------------------------------------------------------------
(* A batch that is spent *)

(* A write that fails spends its seqs and stores nothing. *)
LEMMA SpentSteps ==
  ASSUME TypeOK, PipelineInv, batch = {}, next_seq' \in Nat, next_seq' >= next_seq,
         UNCHANGED <<db, disk, since, durable, applied, unsynced, fenced, batch, syncerVars, delivered, reply>>
  PROVE  PipelineInv'
  <1> StoreInv /\ FenceInv /\ CallInv /\ BatchInv /\ SeqInv /\ EntryInv /\ AckInv BY PipelineParts
  <1>1. StoreInv' /\ FenceInv' BY DEF StoreInv, FenceInv, syncerVars
  <1>2. CallInv' BY DEF CallInv, syncerVars
  <1>3. BatchInv' BY Numbers DEF BatchInv, Boundary
  <1>4. SeqInv' BY Numbers DEF SeqInv, Boundary, syncerVars
  <1>5. EntryInv' BY Zenon DEF EntryInv, Doomed, Stored, Safe, HookIds, Commits, syncerVars
  <1>6. AckInv' BY DEF AckInv, Safe, HookIds
  <1> QED BY <1>1, <1>2, <1>3, <1>4, <1>5, <1>6, PipelineWhole

-----------------------------------------------------------------------------
(* The callers *)

LEMMA CallerTypes ==
  ASSUME TypeOK, NEW r \in Reqs,
         Enqueue(r) \/ EnqueueUnavailable(r) \/ Expired(r) \/ RefuseFenced(r)
  PROVE  TypeOK'
  <1>1. r \in Calls BY DEF Calls
  <1>2. reply' \in [Calls -> Reply]
    <2>1. State("queued") \in Reply /\ State("error") \in Reply BY ReplyType DEF TypeOK
    <2> QED BY <1>1, <2>1, Zenon DEF TypeOK, CallType, Enqueue, EnqueueUnavailable, Expired, RefuseFenced
  <1>3. pre' \in [Reqs -> [val : Value, at : Nat]]
    <2>1. CASE Enqueue(r)
      <3>1. CASE KeyOf[r] = None BY <2>1, <3>1, Zenon DEF Enqueue, TypeOK, CallType
      <3>2. CASE KeyOf[r] # None
        <4>1. KeyOf[r] \in Keys BY <1>1, <3>2, KeyOfAssumption
        <4>2. [val |-> db.keys[KeyOf[r]], at |-> mono] \in [val : Value, at : Nat]
          BY <4>1 DEF TypeOK, StoreType, EnvType, Contents
        <4> QED BY <2>1, <3>2, <4>2, Zenon DEF Enqueue, TypeOK, CallType
      <3> QED BY <3>1, <3>2
    <2>2. CASE EnqueueUnavailable(r) BY <2>2 DEF EnqueueUnavailable, TypeOK, CallType
    <2>3. CASE Expired(r) \/ RefuseFenced(r) BY <2>3, ReplyType DEF Expired, RefuseFenced, TypeOK
    <2> QED BY <2>1, <2>2, <2>3
  <1>4. UNCHANGED <<storeVars, markVars, writerVars, syncerVars, mono, skew, gate, sweep, dispatchVars>>
    BY DEF Enqueue, EnqueueUnavailable, Expired, RefuseFenced, envVars
  <1>5. faults' \in Nat
    BY DEF TypeOK, EnvType, Enqueue, EnqueueUnavailable, Expired, RefuseFenced, envVars, Fault
  <1>6. EnvType' BY <1>4, <1>5, EnvKept, Zenon
  <1>7. CallType' BY <1>2, <1>3 DEF CallType
  <1> QED BY <1>4, <1>6, <1>7, TypeFrame, Zenon DEF TypeOK

LEMMA QuietSteps ==
  ASSUME PipelineInv, UNCHANGED <<coreVars, reply>>
  PROVE  PipelineInv'
  <1> StoreInv /\ FenceInv /\ CallInv /\ BatchInv /\ SeqInv /\ EntryInv /\ AckInv BY PipelineParts
  <1>1. CallInv' BY DEF CallInv, coreVars, syncerVars
  <1>2. AckInv' BY DEF AckInv, Safe, HookIds, coreVars, syncerVars
  <1> QED BY <1>1, <1>2, CoreFrame, PipelineWhole

LEMMA CallerSteps ==
  ASSUME TypeOK, PipelineInv, NEW r \in Reqs,
         Enqueue(r) \/ EnqueueUnavailable(r) \/ Expired(r) \/ RefuseFenced(r)
  PROVE  PipelineInv'
  <1>1. UNCHANGED coreVars
    <2>1. UNCHANGED <<storeVars, markVars, writerVars, syncerVars, dispatchVars>>
      BY DEF Enqueue, EnqueueUnavailable, Expired, RefuseFenced
    <2> QED BY <2>1 DEF coreVars, storeVars, markVars, writerVars, dispatchVars
  <1>2. reply[r].kind # "waiting"
    BY DEF Enqueue, EnqueueUnavailable, Expired, RefuseFenced, Queued
  <1>3. \E x \in {State("queued"), State("error")} : reply' = [reply EXCEPT ![r] = x]
    BY DEF Enqueue, EnqueueUnavailable, Expired, RefuseFenced
  <1>4. reply \in [Calls -> Reply] /\ r \in Calls BY DEF TypeOK, CallType, Calls
  <1>5. reply'[r].kind # "committed" /\ \A c \in Calls \ {r} : reply'[c] = reply[c]
    BY <1>3, <1>4 DEF State
  <1>6. CallInv' /\ AckInv'
    <2>1. {r} \in SUBSET Calls BY <1>4
    <2>2. \A c \in {r} : reply[c].kind # "waiting" /\ reply'[c].kind # "committed" BY <1>2, <1>5
    <2> QED BY <1>1, <1>5, <2>1, <2>2, OutsideFrame, PipelineParts, Zenon
  <1> QED BY <1>1, <1>6, CoreFrame, PipelineParts, PipelineWhole

-----------------------------------------------------------------------------
(* The seqs the writer gives out *)

(* The seqs of replies and the markers are numbers. *)
LEMMA SeqNumbers ==
  ASSUME TypeOK
  PROVE  /\ \A c \in Calls : reply[c].seq \in Nat
         /\ \A d \in disk \cup since \cup {db} : d.next_seq \in Nat
         /\ \A e \in inbox \cup syncing \cup batch : \A c \in Commits(e) : e.reply[c].seq \in Nat
  <1>1. \A c \in Calls : reply[c].seq \in Nat BY DEF TypeOK, CallType, Reply
  <1>2. \A d \in disk \cup since \cup {db} : d.next_seq \in Nat BY DEF TypeOK, StoreType, Contents
  <1>3. \A e \in inbox \cup syncing \cup batch : IsEntry(e) BY DEF TypeOK, SyncerType, WriterType, IsBatch
  <1>4. \A e \in inbox \cup syncing \cup batch : \A c \in Commits(e) : e.reply[c].seq \in Nat
    BY <1>3 DEF IsEntry, Commits, Reply
  <1> QED BY <1>1, <1>2, <1>4

(* The marker of the store never goes back while it is open. *)
Onward(d) == d.next_seq \in Nat /\ db.next_seq <= d.next_seq

(* The store takes `d`, or keeps its contents. *)
Lands(d) == (UNCHANGED <<db, disk>> /\ since' \subseteq since) \/ Write(d) \/ WriteSync(d)

LEMMA MarkerGrows ==
  ASSUME TypeOK, StoreInv, NEW d, Onward(d), Lands(d)
  PROVE  /\ \A s \in Nat : s < db.next_seq => s < db'.next_seq
         /\ \A s \in Nat : Below(s, disk) => Below(s, disk')
         /\ \A s \in Nat : s < db.next_seq /\ Below(s, since) => Below(s, since')
  <1>1. db.next_seq \in Nat BY SeqNumbers
  <1>2. \A s \in Nat : s < db.next_seq => s < d.next_seq BY <1>1 DEF Onward
  <1>3. /\ db' \in {db, d} /\ disk' \subseteq disk \cup {d} /\ since' \subseteq since \cup {d}
    BY DEF Lands, Write, WriteSync, Grown
  <1>4. \A s : Below(s, disk) => s < db.next_seq BY DEF Below, StoreInv
  <1> QED BY <1>2, <1>3, <1>4 DEF Below

(* No call is acked that was not. *)
LEMMA AckSeqsKept ==
  ASSUME AckSeqs, db'.next_seq <= next_seq',
         \A s \in Nat : Below(s, disk) => Below(s, disk'), \A c \in Calls : reply[c].seq \in Nat,
         \A c \in Calls : reply'[c].kind = "committed" => reply'[c] = reply[c]
  PROVE  AckSeqs'
  <1>1. SeqsDistinct' BY DEF AckSeqs, SeqsDistinct
  <1>2. \A c \in Calls : reply'[c].kind = "committed" => Below(reply'[c].seq, disk')
    BY DEF AckSeqs
  <1> QED BY <1>1, <1>2 DEF AckSeqs, Below

LEMMA BatchSeqsKept ==
  ASSUME BatchSeqs, batch' = {} \/ UNCHANGED <<batch, next_seq>>
  PROVE  BatchSeqs'
  BY DEF BatchSeqs, Commits

LEMMA EntrySeqsKept ==
  ASSUME TypeOK, EntrySeqs,
         \A s \in Nat : s < db.next_seq => s < db'.next_seq,
         \A s \in Nat : Below(s, disk) => Below(s, disk'),
         \A s \in Nat : s < db.next_seq /\ Below(s, since) => Below(s, since'),
         \A e \in inbox' : e \in inbox \/ Commits(e) = {}, syncing' \subseteq syncing,
         \A e \in inbox' \cup syncing' : Commits(e) # {} /\ e.upto <= durable' =>
             e.upto <= durable \/ Below(e.upto, disk'),
         \A c \in Calls : reply'[c].kind = "committed" => reply'[c] = reply[c]
  PROVE  EntrySeqs'
  <1>1. \A e \in inbox' \cup syncing' : Commits(e) # {} => e \in inbox \cup syncing /\ e.upto \in Nat
    BY Numbers
  <1>2. \A e \in inbox' \cup syncing' : Commits(e) # {} =>
          e.upto < db'.next_seq /\ (e.upto <= durable' => Below(e.upto, disk'))
    BY <1>1, Zenon DEF EntrySeqs
  <1>3. \A e \in syncing' : Commits(e) # {} => Below(e.upto, since')
    BY <1>1, Zenon DEF EntrySeqs
  <1>4. ASSUME NEW e \in inbox' \cup syncing', NEW c \in Commits(e)
        PROVE  /\ e.reply[c].seq <= e.upto
               /\ \A f \in inbox' \cup syncing' : \A k \in Commits(f) :
                     k # c => f.reply[k].seq # e.reply[c].seq
               /\ \A k \in Calls : reply'[k].kind = "committed" => reply'[k].seq # e.reply[c].seq
    <2>1. e \in inbox \cup syncing BY <1>1
    <2>2. \A f \in inbox' \cup syncing' : \A k \in Commits(f) : f \in inbox \cup syncing BY <1>1
    <2>3. /\ e.reply[c].seq <= e.upto
          /\ \A f \in inbox \cup syncing : \A k \in Commits(f) :
                k # c => f.reply[k].seq # e.reply[c].seq
          /\ \A k \in Calls : reply[k].kind = "committed" => reply[k].seq # e.reply[c].seq
      BY <2>1, Zenon DEF EntrySeqs
    <2>4. \A k \in Calls : reply'[k].kind = "committed" => reply'[k].seq # e.reply[c].seq
      BY <2>3
    <2> QED BY <2>2, <2>3, <2>4, Zenon
  <1> QED BY <1>2, <1>3, <1>4, Zenon DEF EntrySeqs, Below, Commits

(* A step that acks nothing, hands the syncer nothing to commit and leaves the group *)
(* being written alone, or drops it.                                                 *)
LEMMA SeqsKept ==
  ASSUME TypeOK, PipelineInv, SeqsInv, NEW d, Onward(d), d.next_seq <= next_seq', next_seq <= next_seq',
         next_seq' \in Nat, Lands(d),
         batch' = {} \/ UNCHANGED <<batch, next_seq>>,
         \A e \in inbox' : e \in inbox \/ Commits(e) = {}, syncing' \subseteq syncing,
         \A e \in inbox' \cup syncing' : Commits(e) # {} /\ e.upto <= durable' =>
             e.upto <= durable \/ Below(e.upto, disk'),
         \A c \in Calls : reply'[c].kind = "committed" => reply'[c] = reply[c]
  PROVE  SeqsInv'
  <1> StoreInv BY PipelineParts
  <1>1. AckSeqs /\ BatchSeqs /\ EntrySeqs BY DEF SeqsInv
  <1>2. db'.next_seq <= next_seq'
    <2>1. db' \in {db, d} BY DEF Lands, Write, WriteSync
    <2>2. db.next_seq <= next_seq BY <1>1 DEF AckSeqs
    <2> QED BY <2>1, <2>2, Numbers, SeqNumbers
  <1>3. AckSeqs' BY <1>1, <1>2, AckSeqsKept, MarkerGrows, SeqNumbers, Zenon
  <1>4. BatchSeqs' BY <1>1, BatchSeqsKept
  <1>5. EntrySeqs' BY <1>1, EntrySeqsKept, MarkerGrows, Zenon
  <1> QED BY <1>3, <1>4, <1>5 DEF SeqsInv

LEMMA SeqsQuiet ==
  ASSUME TypeOK, PipelineInv, SeqsInv, UNCHANGED <<db, disk, durable>>, since' \subseteq since,
         next_seq <= next_seq', next_seq' \in Nat, batch' = {} \/ UNCHANGED <<batch, next_seq>>,
         \A e \in inbox' : e \in inbox \/ Commits(e) = {}, syncing' \subseteq syncing,
         \A c \in Calls : reply'[c].kind = "committed" => reply'[c] = reply[c]
  PROVE  SeqsInv'
  <1>1. Onward(db) /\ Lands(db) BY SeqNumbers DEF Onward, Lands
  <1>2. db.next_seq <= next_seq' BY SeqNumbers, Numbers DEF SeqsInv, AckSeqs
  <1> QED BY <1>1, <1>2, SeqsKept

LEMMA CallerSeqs ==
  ASSUME TypeOK, PipelineInv, SeqsInv, NEW r \in Reqs,
         Enqueue(r) \/ EnqueueUnavailable(r) \/ Expired(r) \/ RefuseFenced(r)
  PROVE  SeqsInv'
  <1>1. UNCHANGED <<db, disk, since, durable, next_seq, batch, inbox, syncing>>
    BY DEF Enqueue, EnqueueUnavailable, Expired, RefuseFenced, storeVars, markVars, writerVars, syncerVars
  <1>2. \E x \in {State("queued"), State("error")} : reply' = [reply EXCEPT ![r] = x]
    BY DEF Enqueue, EnqueueUnavailable, Expired, RefuseFenced
  <1>3. \A c \in Calls : reply'[c].kind = "committed" => reply'[c] = reply[c]
    BY <1>2 DEF TypeOK, CallType, State, Calls
  <1> QED BY <1>1, <1>3, SeqsQuiet, Numbers

LEMMA DuplicatesSeqs ==
  ASSUME Counts, TypeOK, PipelineInv, SeqsInv, NEW g \in Groups, CommitDuplicates(g)
  PROVE  SeqsInv'
  <1>1. PICK b : b = Build(g, Begun, TRUE) BY Zenon
  <1>2. PICK new : new = [upto |-> applied, at |-> last_at, reply |-> b.reply] BY Zenon
  <1>3. BuiltFor(b, CallsOf(g)) BY <1>1, GroupFacts, Zenon
  <1>4. /\ b.hooks = {}
        /\ \/ reply' = Waiting(CallsOf(g)) /\ inbox' = inbox \cup {new}
           \/ reply' = Answer(b.reply) /\ inbox' = inbox
        /\ UNCHANGED <<db, disk, since, durable, next_seq, batch, syncing>>
    BY <1>1, <1>2, Zenon DEF CommitDuplicates, storeVars, markVars
  <1>5. Commits(b) = {} BY <1>3, <1>4, Zenon DEF BuiltFor
  <1>6. Commits(new) = {} BY <1>2, <1>5 DEF Commits
  <1>7. \A e \in inbox' : e \in inbox \/ Commits(e) = {} BY <1>4, <1>6
  <1>8. \A c \in Calls : reply'[c].kind = "committed" => reply'[c] = reply[c]
    BY <1>4, <1>5 DEF Waiting, Answer, State, Commits
  <1> QED BY <1>4, <1>7, <1>8, SeqsQuiet, Numbers

LEMMA StageSeqs ==
  ASSUME Counts, TypeOK, PipelineInv, SeqsInv, NEW g \in Groups, Stage(g)
  PROVE  SeqsInv'
  <1> StoreInv BY PipelineParts
  <1>1. PICK b : b = Build(g, Begun, TRUE) BY Zenon
  <1>2. SeqsFor(b) BY <1>1, GroupFacts, Zenon
  <1>3. /\ batch' = {b} /\ reply' = Waiting(CallsOf(g))
        /\ UNCHANGED <<db, disk, since, durable, next_seq, inbox, syncing>>
    BY <1>1 DEF Stage, storeVars, syncerVars
  <1>4. \A c \in Calls : reply'[c].kind = "committed" => reply'[c] = reply[c]
    BY <1>3 DEF Waiting, State
  <1>5. AckSeqs /\ EntrySeqs BY DEF SeqsInv
  <1>6. AckSeqs' BY <1>3, <1>4, <1>5, AckSeqsKept, SeqNumbers DEF AckSeqs
  <1>7. EntrySeqs' BY <1>3, <1>4, <1>5, EntrySeqsKept
  <1>8. BatchSeqs' BY <1>2, <1>3 DEF BatchSeqs, SeqsFor, Commits
  <1> QED BY <1>6, <1>7, <1>8 DEF SeqsInv

LEMMA StagedErrorSeqs ==
  ASSUME TypeOK, PipelineInv, SeqsInv, StagedError
  PROVE  SeqsInv'
  <1> BatchInv BY PipelineParts
  <1>1. PICK b \in batch : /\ next_seq' = b.upto + 1 /\ reply' = RefuseAll({b}) /\ batch' = {}
                           /\ UNCHANGED <<db, disk, since, durable, inbox, syncing>>
    BY DEF StagedError, storeVars, syncerVars
  <1>2. next_seq <= next_seq' /\ next_seq' \in Nat
    <2>1. b.upto \in Nat /\ next_seq \in Nat BY Numbers
    <2>2. b.upto >= next_seq BY DEF BatchInv
    <2> QED BY <1>1, <2>1, <2>2
  <1>3. \A c \in Calls : reply'[c].kind = "committed" => reply'[c] = reply[c]
    BY <1>1 DEF RefuseAll, State
  <1> QED BY <1>1, <1>2, <1>3, SeqsQuiet, Zenon

LEMMA StagedOkSeqs ==
  ASSUME Counts, TypeOK, PipelineInv, SeqsInv, StagedOk
  PROVE  SeqsInv'
  <1> StoreInv /\ BatchInv /\ SeqInv BY PipelineParts
  <1>0. AckSeqs /\ BatchSeqs /\ EntrySeqs BY DEF SeqsInv
  <1>1. PICK b \in batch : /\ Write(Applied(db, b)) /\ next_seq' = b.upto + 1 /\ batch' = {}
                           /\ inbox' = inbox \cup {Entry(b)}
                           /\ UNCHANGED <<reply, durable, syncing>>
    BY DEF StagedOk, callVars, markVars
  <1>2. PICK d : d = Applied(db, b) BY Zenon
  <1>3. PICK new : new = Entry(b) BY Zenon
  <1>4. new.upto = b.upto /\ new.reply = b.reply /\ Commits(new) = Commits(b) BY <1>3 DEF Entry, Commits
  <1>5. d.next_seq = b.upto + 1
    <2>1. db \in Contents /\ IsBatch(b) BY DEF TypeOK, StoreType, WriterType
    <2> QED BY <1>2, <2>1, AppliedType
  <1>6. b.upto \in Nat /\ next_seq \in Nat /\ durable \in Nat /\ db.next_seq \in Nat BY Numbers, SeqNumbers
  <1>7. b.upto >= next_seq /\ db.next_seq <= next_seq /\ durable < next_seq
    BY <1>0 DEF BatchInv, AckSeqs, SeqInv
  <1>8. Onward(d) /\ Lands(d) BY <1>1, <1>2, <1>5, <1>6, <1>7 DEF Onward, Lands
  <1>9. AckSeqs'
    <2>1. db'.next_seq <= next_seq' BY <1>1, <1>2, <1>5, <1>6 DEF Write
    <2> QED BY <1>0, <1>1, <1>8, <2>1, AckSeqsKept, MarkerGrows, SeqNumbers
  <1>10. BatchSeqs' BY <1>1 DEF BatchSeqs
  <1>11. EntrySeqs'
    <2> DEFINE old == inbox \cup syncing
    <2>1. inbox' \cup syncing' \subseteq old \cup {new} BY <1>1, <1>3
    <2>2. \A e \in old : Commits(e) # {} => e.upto < db'.next_seq /\ (e.upto <= durable => Below(e.upto, disk'))
      BY <1>0, <1>8, MarkerGrows, Numbers DEF EntrySeqs
    <2>3. new.upto < db'.next_seq /\ ~(new.upto <= durable)
      BY <1>1, <1>2, <1>4, <1>5, <1>6, <1>7 DEF Write
    <2>4. \A e \in syncing : Commits(e) # {} => Below(e.upto, since')
      BY <1>0, <1>8, MarkerGrows, Numbers DEF EntrySeqs
    <2>5. ASSUME NEW c \in Commits(new)
          PROVE  /\ next_seq <= new.reply[c].seq /\ new.reply[c].seq <= new.upto
                 /\ \A k \in Commits(new) : k # c => new.reply[k].seq # new.reply[c].seq
                 /\ new.reply[c].seq \in Nat
      BY <1>0, <1>4, SeqNumbers DEF BatchSeqs
    <2>6. \A e \in old : \A c \in Commits(e) : e.reply[c].seq <= e.upto /\ e.reply[c].seq < next_seq
      <3>1. ASSUME NEW e \in old, NEW c \in Commits(e) PROVE e.reply[c].seq <= e.upto /\ e.reply[c].seq < next_seq
        <4>1. e.reply[c].seq <= e.upto /\ e.upto < next_seq BY <1>0 DEF EntrySeqs, SeqInv
        <4>2. e.reply[c].seq \in Nat /\ e.upto \in Nat BY SeqNumbers, Numbers
        <4> QED BY <1>6, <4>1, <4>2
      <3> QED BY <3>1
    <2>7. \A k \in Calls : reply[k].kind = "committed" => reply[k].seq < next_seq
      <3>1. ASSUME NEW k \in Calls, reply[k].kind = "committed" PROVE reply[k].seq < next_seq
        <4>1. reply[k].seq < db.next_seq BY <1>0, <3>1 DEF AckSeqs, Below, StoreInv
        <4> QED BY <1>6, <1>7, <4>1, SeqNumbers
      <3> QED BY <3>1
    <2>8. ASSUME NEW e \in old \cup {new}, NEW c \in Commits(e)
          PROVE  /\ e.reply[c].seq <= e.upto
                 /\ \A f \in old \cup {new} : \A k \in Commits(f) : k # c => f.reply[k].seq # e.reply[c].seq
                 /\ \A k \in Calls : reply[k].kind = "committed" => reply[k].seq # e.reply[c].seq
      <3>1. CASE e = new
        <4>1. \A f \in old : \A k \in Commits(f) : f.reply[k].seq # new.reply[c].seq
          BY <3>1, <2>5, <2>6, <1>6, SeqNumbers
        <4>2. \A k \in Calls : reply[k].kind = "committed" => reply[k].seq # new.reply[c].seq
          BY <3>1, <2>5, <2>7, <1>6, SeqNumbers
        <4> QED BY <3>1, <4>1, <4>2, <2>5
      <3>2. CASE e \in old
        <4>1. \A k \in Commits(new) : new.reply[k].seq # e.reply[c].seq
          BY <3>2, <2>5, <2>6, <1>6, SeqNumbers
        <4>2. /\ \A f \in old : \A k \in Commits(f) : k # c => f.reply[k].seq # e.reply[c].seq
              /\ \A k \in Calls : reply[k].kind = "committed" => reply[k].seq # e.reply[c].seq
          BY <1>0, <3>2 DEF EntrySeqs
        <4> QED BY <3>2, <4>1, <4>2, <2>6
      <3> QED BY <3>1, <3>2
    <2>9. ASSUME NEW e \in inbox' \cup syncing', Commits(e) # {}
          PROVE  e.upto < db'.next_seq /\ (e.upto <= durable => Below(e.upto, disk'))
      BY <2>1, <2>2, <2>3, <2>9
    <2>10. ASSUME NEW e \in inbox' \cup syncing', NEW c \in Commits(e)
           PROVE  /\ e.reply[c].seq <= e.upto
                  /\ \A f \in inbox' \cup syncing' : \A k \in Commits(f) : k # c => f.reply[k].seq # e.reply[c].seq
                  /\ \A k \in Calls : reply'[k].kind = "committed" => reply'[k].seq # e.reply[c].seq
      BY <1>1, <2>1, <2>8, Zenon
    <2> HIDE DEF old
    <2> QED BY <1>1, <2>4, <2>9, <2>10, Zenon DEF EntrySeqs, Below, Commits
  <1> QED BY <1>9, <1>10, <1>11 DEF SeqsInv

LEMMA ReleaseDuplicateSeqs ==
  ASSUME Counts, TypeOK, PipelineInv, SeqsInv, NEW p \in Pens, ReleaseDuplicate(p)
  PROVE  SeqsInv'
  <1>1. PICK b : b = Build(<<p>>, Begun, FALSE) BY Zenon
  <1>2. PICK d : d = Released(p, db) BY Zenon
  <1>3. BuiltFor(b, {p}) BY <1>1, PenFacts, Zenon
  <1>4. /\ b.hooks = {} /\ Lands(d) /\ reply' \in {reply, Answer(b.reply)}
        /\ UNCHANGED <<durable, next_seq, batch, inbox, syncing>>
    BY <1>1, <1>2, ZenonT(40) DEF ReleaseDuplicate, ErrorOf, Lands, storeVars, markVars, syncerVars
  <1>5. \A c \in Calls : reply'[c].kind = "committed" => reply'[c] = reply[c]
    <2>1. Commits(b) = {} BY <1>3, <1>4, Zenon DEF BuiltFor
    <2> QED BY <1>4, <2>1 DEF Answer, Commits
  <1>6. d.next_seq = db.next_seq
    <2>1. db \in Contents BY DEF TypeOK, StoreType
    <2> QED BY <1>2, <2>1, ReleasedType
  <1>7. Onward(d) /\ d.next_seq <= next_seq' BY <1>4, <1>6, SeqNumbers DEF Onward, SeqsInv, AckSeqs
  <1> QED BY <1>4, <1>5, <1>7, SeqsKept, Numbers

LEMMA ReleaseFreshSeqs ==
  ASSUME Counts, TypeOK, PipelineInv, SeqsInv, NEW p \in Pens, ReleaseFresh(p)
  PROVE  SeqsInv'
  <1> StoreInv /\ CallInv /\ SeqInv BY PipelineParts
  <1>0. AckSeqs /\ BatchSeqs /\ EntrySeqs BY DEF SeqsInv
  <1>1. PICK b : b = Build(<<p>>, Begun, FALSE) BY Zenon
  <1>2. PICK a : a = Applied(db, b) BY Zenon
  <1>3. PICK d : d = Released(p, a) BY Zenon
  <1>4. BuiltFor(b, {p}) /\ SeqsFor(b) BY <1>1, PenFacts, Zenon
  <1>5. /\ b.hooks # {} /\ batch = {} /\ next_seq' = b.upto + 1
        /\ UNCHANGED <<batch, inbox, syncing>>
    BY <1>1, ZenonT(40) DEF ReleaseFresh, Ready, syncerVars
  <1>6. \/ WriteSync(d) /\ reply' = Answer(b.reply)
        \/ Lands(d) /\ UNCHANGED <<reply, durable>>
    BY <1>1, <1>2, <1>3, ZenonT(40) DEF ReleaseFresh, ErrorOf, Lands, storeVars
  <1>7. b.upto \in Nat /\ b.upto >= next_seq BY <1>4, <1>5 DEF BuiltFor, IsBatch, IsEntry
  <1>8. d.next_seq = b.upto + 1
    <2>1. db \in Contents /\ IsBatch(b) BY <1>4 DEF TypeOK, StoreType, BuiltFor
    <2>2. a \in Contents /\ a.next_seq = b.upto + 1 BY <1>2, <2>1, AppliedType
    <2> QED BY <1>3, <2>2, ReleasedType
  <1>9. next_seq \in Nat /\ db.next_seq \in Nat /\ db.next_seq <= next_seq
    BY <1>0, Numbers, SeqNumbers DEF AckSeqs
  <1>10. Onward(d) /\ d.next_seq <= next_seq' /\ next_seq <= next_seq' /\ next_seq' \in Nat
    BY <1>5, <1>7, <1>8, <1>9 DEF Onward
  <1>11. CASE Lands(d) /\ UNCHANGED <<reply, durable>>
    BY <1>5, <1>10, <1>11, SeqsKept
  <1>12. CASE WriteSync(d) /\ reply' = Answer(b.reply)
    <2>1. db' = d /\ disk' = {d} /\ Lands(d) BY <1>12 DEF WriteSync, Lands
    <2>2. \A c \in Calls : c # p => reply'[c] = reply[c] BY <1>4, <1>12 DEF Answer, BuiltFor
    <2>3. p \in Calls BY DEF Calls
    <2>4. reply'[p].kind = "committed" =>
            next_seq <= reply'[p].seq /\ reply'[p].seq <= b.upto /\ reply'[p].seq \in Nat
      <3>1. p \in DOMAIN b.reply /\ reply'[p] = b.reply[p] BY <1>4, <1>12, <2>3 DEF Answer, BuiltFor
      <3>2. b.reply[p].seq \in Nat BY <1>4, <3>1 DEF BuiltFor, IsBatch, IsEntry, Reply
      <3> QED BY <1>4, <3>1, <3>2 DEF SeqsFor, Commits
    <2>5. ASSUME NEW c \in Calls, reply[c].kind = "committed" PROVE reply[c].seq < next_seq
      <3>1. reply[c].seq < db.next_seq BY <1>0, <2>5 DEF AckSeqs, Below, StoreInv
      <3> QED BY <1>9, <3>1, SeqNumbers
    <2>6. ASSUME NEW e \in inbox \cup syncing, NEW c \in Commits(e)
          PROVE  e.reply[c].seq < next_seq /\ e.reply[c].seq \in Nat
      <3>1. e.reply[c].seq <= e.upto /\ e.upto < next_seq BY <1>0 DEF EntrySeqs, SeqInv
      <3> QED BY <1>9, <3>1, SeqNumbers, Numbers
    <2>7. AckSeqs'
      <3>1. db'.next_seq <= next_seq' BY <1>10, <2>1
      <3>2. \A c \in Calls : reply'[c].kind = "committed" => Below(reply'[c].seq, disk')
        <4>1. ASSUME NEW c \in Calls, reply'[c].kind = "committed" PROVE reply'[c].seq < b.upto + 1
          BY <1>7, <1>9, <2>2, <2>4, <2>5, <4>1, SeqNumbers
        <4> QED BY <1>8, <2>1, <4>1 DEF Below
      <3>3. SeqsDistinct'
        <4> SUFFICES ASSUME NEW c \in Calls, NEW e \in Calls, c # e,
                            reply'[c].kind = "committed", reply'[e].kind = "committed"
                     PROVE  reply'[c].seq # reply'[e].seq
          BY DEF SeqsDistinct
        <4>1. CASE c = p BY <1>9, <2>2, <2>4, <2>5, <4>1, SeqNumbers
        <4>2. CASE e = p BY <1>9, <2>2, <2>4, <2>5, <4>2, SeqNumbers
        <4>3. CASE c # p /\ e # p BY <1>0, <2>2, <4>3 DEF AckSeqs, SeqsDistinct
        <4> QED BY <4>1, <4>2, <4>3
      <3> QED BY <3>1, <3>2, <3>3 DEF AckSeqs, Below
    <2>8. EntrySeqs'
      <3>1. \A e \in inbox \cup syncing : e.upto < b.upto + 1
        BY <1>7, <1>9, Numbers DEF SeqInv
      <3>2. \A e \in inbox \cup syncing : e.upto < db'.next_seq /\ Below(e.upto, disk')
        BY <1>8, <2>1, <3>1 DEF Below
      <3>3. \A e \in syncing : Below(e.upto, since')
        BY <1>8, <1>12, <3>1 DEF Below, WriteSync
      <3>4. ASSUME NEW e \in inbox \cup syncing, NEW c \in Commits(e)
            PROVE  /\ e.reply[c].seq <= e.upto
                   /\ \A f \in inbox \cup syncing : \A k \in Commits(f) : k # c => f.reply[k].seq # e.reply[c].seq
                   /\ \A k \in Calls : reply'[k].kind = "committed" => reply'[k].seq # e.reply[c].seq
        <4>1. /\ e.reply[c].seq <= e.upto
              /\ \A f \in inbox \cup syncing : \A k \in Commits(f) : k # c => f.reply[k].seq # e.reply[c].seq
              /\ \A k \in Calls : reply[k].kind = "committed" => reply[k].seq # e.reply[c].seq
          BY <1>0 DEF EntrySeqs
        <4>2. reply'[p].kind = "committed" => reply'[p].seq # e.reply[c].seq
          BY <1>9, <2>4, <2>6
        <4> QED BY <2>2, <4>1, <4>2
      <3> QED BY <1>5, <3>2, <3>3, <3>4, Zenon DEF EntrySeqs, Below, Commits
    <2>9. BatchSeqs' BY <1>5 DEF BatchSeqs
    <2> QED BY <2>7, <2>8, <2>9 DEF SeqsInv
  <1> QED BY <1>6, <1>11, <1>12

LEMMA RedriveSeqs ==
  ASSUME TypeOK, PipelineInv, SeqsInv, NEW x \in Redrives, Redrive(x)
  PROVE  SeqsInv'
  <1> SeqInv BY PipelineParts
  <1>1. PICK d : d = Redriven(x) BY Zenon
  <1>2. next_seq' = next_seq + 1 /\ batch = {} /\ UNCHANGED <<reply, batch, inbox, syncing>>
    BY DEF Redrive, Ready, callVars, syncerVars
  <1>3. \/ WriteSync(d)
        \/ Lands(d) /\ UNCHANGED durable
    BY <1>1, ZenonT(40) DEF Redrive, Redriven, ErrorOf, Lands, storeVars
  <1>4. d.next_seq = next_seq + 1 BY <1>1, RedrivenType
  <1>5. next_seq \in Nat /\ db.next_seq \in Nat /\ db.next_seq <= next_seq
    BY Numbers, SeqNumbers DEF SeqsInv, AckSeqs
  <1>6. Onward(d) /\ d.next_seq <= next_seq' /\ next_seq <= next_seq' /\ next_seq' \in Nat
    BY <1>2, <1>4, <1>5 DEF Onward
  <1>7. CASE WriteSync(d)
    <2>1. \A e \in inbox \cup syncing : Below(e.upto, disk')
      BY <1>4, <1>5, <1>7, Numbers DEF Below, WriteSync, SeqInv
    <2> QED BY <1>2, <1>6, <1>7, <2>1, SeqsKept DEF Lands
  <1>8. CASE Lands(d) /\ UNCHANGED durable BY <1>2, <1>6, <1>8, SeqsKept
  <1> QED BY <1>3, <1>7, <1>8

(* The sweeper, a delivery and the fence leave the marker where it is. *)
LEMMA MarkerSeqs ==
  ASSUME TypeOK, PipelineInv, SeqsInv, NEW d, d.next_seq = db.next_seq, Lands(d),
         UNCHANGED <<durable, next_seq, batch, reply, inbox, syncing>>
  PROVE  SeqsInv'
  <1>1. Onward(d) /\ d.next_seq <= next_seq' BY SeqNumbers DEF Onward, SeqsInv, AckSeqs
  <1> QED BY <1>1, SeqsKept, Numbers

LEMMA ExpireSeqs ==
  ASSUME Counts, TypeOK, PipelineInv, SeqsInv, ExpireDedupe
  PROVE  SeqsInv'
  <1>1. PICK d \in Contents : Write(d) /\ d.next_seq = db.next_seq BY ExpireFacts
  <1>2. UNCHANGED <<durable, next_seq, batch, reply, inbox, syncing>>
    BY DEF ExpireDedupe, callVars, markVars, syncerVars
  <1> QED BY <1>1, <1>2, MarkerSeqs DEF Lands

LEMMA DeliverSeqs ==
  ASSUME TypeOK, PipelineInv, SeqsInv, NEW h \in db.hooks, Deliver(h)
  PROVE  SeqsInv'
  <1>1. PICK d : d = [db EXCEPT !.hooks = @ \ {h}] BY Zenon
  <1>2. Write(d) /\ UNCHANGED <<durable, next_seq, batch, reply, inbox, syncing>>
    BY <1>1, Zenon DEF Deliver, callVars, markVars, writerVars, syncerVars
  <1>3. d.next_seq = db.next_seq BY <1>1 DEF TypeOK, StoreType, Contents
  <1> QED BY <1>2, <1>3, MarkerSeqs DEF Lands

LEMMA FenceSeqs ==
  ASSUME Counts, TypeOK, PipelineInv, SeqsInv, HandleSyncFailed \/ RetryFence
  PROVE  SeqsInv'
  <1>1. PICK d : d = Undone(db, Uncovered) BY Zenon
  <1>2. UNCHANGED storeVars \/ WriteSync(d)
    BY <1>1 DEF HandleSyncFailed, RetryFence, FenceOk, FenceError, ErrorOf
  <1>3. UNCHANGED <<durable, next_seq, batch, reply, inbox, syncing>>
    BY DEF HandleSyncFailed, RetryFence, callVars, markVars
  <1>4. d.next_seq = db.next_seq
    <2>1. db \in Contents BY DEF TypeOK, StoreType
    <2> QED BY <1>1, <2>1, UncoveredType, UndoneType
  <1> QED BY <1>2, <1>3, <1>4, MarkerSeqs DEF Lands, storeVars

=============================================================================
