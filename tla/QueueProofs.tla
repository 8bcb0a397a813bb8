---------------------------- MODULE QueueProofs -----------------------------
(***************************************************************************)
(* The end of a sync, the fence and a starting writer keep PipelineInv;    *)
(* type correctness of Queue, the inductive invariant of its pipeline, the *)
(* durability of what it acknowledged, its redrive cursor and its seqs.    *)
(***************************************************************************)
EXTENDS QueueTypes, QueueSteps, FiniteSetTheorems

(* The provers of a step that names none, in the order they are tried. *)
USE ZenonT(3), SMTT(8), ZenonT(20), Z3T(30), SMTT(30)

-----------------------------------------------------------------------------
(* The syncer *)

LEMMA SyncOkSteps ==
  ASSUME TypeOK, PipelineInv, SyncOk
  PROVE  PipelineInv'
  <1> StoreInv /\ FenceInv /\ CallInv /\ BatchInv /\ SeqInv /\ EntryInv /\ AckInv BY PipelineParts
  <1>1. /\ syncing # {} /\ disk' = since /\ since' = {} /\ db' = db
        /\ reply' = AnswerAll(syncing) /\ syncing' = {}
        /\ UNCHANGED <<applied, next_seq, unsynced, fenced, batch, inbox, resume, stalled, failed, delivered>>
    BY DEF SyncOk, SyncWalOk, writerVars, dispatchVars
  <1>2. PICK top \in syncing : (\A x \in syncing : x.upto <= top.upto) /\ durable' = Max2(durable, top.upto)
    BY DEF SyncOk, MarkDurable
  <1>3. durable \in Nat /\ top.upto \in Nat /\ next_seq \in Nat BY Numbers
  <1>4. \/ durable' = durable /\ top.upto <= durable
        \/ durable' = top.upto /\ durable <= top.upto
    BY <1>2, <1>3 DEF Max2
  <1>5. ~stalled /\ since \subseteq disk /\ db \in since BY <1>1 DEF FenceInv, StoreInv
  <1>6. \A c : Safe(c) => Safe(c)' BY <1>1, <1>5 DEF Safe
  <1>7. /\ \A c \in Calls : reply'[c].kind = "committed" =>
               reply[c].kind = "committed" \/ \E e \in syncing : c \in Commits(e)
        /\ \A c \in Calls : (\A e \in syncing : c \notin DOMAIN e.reply) => reply'[c] = reply[c]
        /\ \A p \in Pens : reply'[p] = reply[p]
    <2>1. syncing \in SUBSET (inbox \cup syncing) OBVIOUS
    <2> QED BY <1>1, <2>1, Answers, Zenon
  <1>8. StoreInv' BY <1>1, <1>5 DEF StoreInv
  <1>9. FenceInv' BY <1>1 DEF FenceInv
  <1>10. CallInv'
    <2>1. \A e \in inbox \cup batch : \A c \in DOMAIN e.reply :
             c \in Reqs /\ reply[c].kind = "waiting" /\ \A f \in syncing : c \notin DOMAIN f.reply
      BY DEF CallInv
    <2>2. \A e \in inbox \cup batch : \A c \in DOMAIN e.reply : c \in Reqs /\ reply'[c].kind = "waiting"
      BY <2>1, <1>7 DEF Calls
    <2>3. \A p \in Pens : reply'[p].kind = "committed" => \A d \in disk' : p \notin d.pen
      BY <1>1, <1>5, <1>7 DEF CallInv
    <2>4. \A b \in batch, e \in inbox : DOMAIN b.reply \cap DOMAIN e.reply = {} BY DEF CallInv
    <2> QED BY <1>1, <2>2, <2>3, <2>4 DEF CallInv
  <1>11. BatchInv' BY <1>1, BatchFrame
  <1>12. SeqInv'
    <2>1. durable' < next_seq' /\ Boundary(durable)' BY <1>1, <1>4 DEF SeqInv, Boundary
    <2> QED BY <1>1, <2>1 DEF SeqInv, Boundary
  <1>13. EntryInv'
    <2>1. ~Doomed BY <1>5 DEF Doomed
    <2>2. \A e \in inbox : \A c \in Commits(e) : Stored(c, db)' /\ (e.upto <= durable' => Safe(c)')
      <3> SUFFICES ASSUME NEW e \in inbox, NEW c \in Commits(e)
                   PROVE  Stored(c, db)' /\ (e.upto <= durable' => Safe(c)')
        OBVIOUS
      <3>1. Stored(c, db) /\ (e.upto <= durable => Safe(c)) BY <2>1 DEF EntryInv
      <3>2. e.upto > top.upto /\ e.upto \in Nat BY Numbers DEF EntryInv
      <3>3. e.upto <= durable' => e.upto <= durable BY <3>2, <1>3, <1>4
      <3>4. Stored(c, db)' BY <1>1, <3>1 DEF Stored, HookIds
      <3> QED BY <3>1, <3>3, <3>4, <1>6
    <2>3. \A e \in inbox : \A c \in Commits(e) : \A h \in db.hooks : h.id = c => h.seq <= e.upto
      BY DEF EntryInv
    <2>4. \A e \in inbox, m \in resume : m.first => Commits(e) = {} \/ e.upto > m.seq
      BY DEF EntryInv
    <2> QED BY <1>1, <2>2, <2>3, <2>4 DEF EntryInv, Commits
  <1>14. AckInv'
    <2> SUFFICES ASSUME NEW c \in Calls, reply'[c].kind = "committed"
                 PROVE  Safe(c)' /\ \A h \in db.hooks : h.id = c => h.seq <= durable'
      BY <1>1 DEF AckInv
    <2>1. CASE reply[c].kind = "committed"
      <3>1. Safe(c) /\ \A h \in db.hooks : h.id = c => h.seq <= durable BY <2>1 DEF AckInv
      <3> QED BY <3>1, <1>3, <1>4, <1>6, Numbers
    <2>2. ASSUME NEW e \in syncing, c \in Commits(e)
          PROVE  Safe(c)' /\ \A h \in db.hooks : h.id = c => h.seq <= durable'
      <3>1. Safe(c)' BY <1>1, <2>2 DEF EntryInv, Stored, Safe, HookIds
      <3>2. \A h \in db.hooks : h.id = c => h.seq <= e.upto BY <2>2 DEF EntryInv
      <3>3. e.upto <= top.upto /\ e.upto \in Nat BY <1>2, Numbers
      <3> QED BY <3>1, <3>2, <3>3, <1>3, <1>4, Numbers
    <2> QED BY <1>7, <2>1, <2>2
  <1> QED BY <1>8, <1>9, <1>10, <1>11, <1>12, <1>13, <1>14, PipelineWhole

LEMMA SyncErrorSteps ==
  ASSUME TypeOK, PipelineInv, SyncError
  PROVE  PipelineInv'
  <1> StoreInv /\ FenceInv /\ CallInv /\ BatchInv /\ SeqInv /\ EntryInv /\ AckInv BY PipelineParts
  <1>1. /\ syncing # {} /\ since' = {} /\ reply' = RefuseAll(syncing) /\ syncing' = {}
        /\ stalled' = TRUE /\ failed' = TRUE
        /\ UNCHANGED <<db, disk, durable, applied, next_seq, unsynced, fenced, batch, inbox, resume, delivered>>
    BY DEF SyncError, SyncWalError, markVars, writerVars, dispatchVars
  <1>2. ~stalled /\ ~fenced /\ resume = {} BY <1>1 DEF FenceInv
  <1>3. \A c \in Calls : reply'[c].kind = "committed" => reply[c].kind = "committed"
    BY <1>1 DEF RefuseAll, State
  <1>4. \A c \in Calls : (\A e \in syncing : c \notin DOMAIN e.reply) => reply'[c] = reply[c]
    BY <1>1 DEF RefuseAll
  <1>5. StoreInv' BY <1>1 DEF StoreInv
  <1>6. FenceInv' BY <1>1, <1>2 DEF FenceInv
  <1>7. CallInv'
    <2>1. \A e \in inbox \cup batch : \A c \in DOMAIN e.reply :
             c \in Reqs /\ reply[c].kind = "waiting" /\ \A f \in syncing : c \notin DOMAIN f.reply
      BY DEF CallInv
    <2>2. \A e \in inbox \cup batch : \A c \in DOMAIN e.reply : c \in Reqs /\ reply'[c].kind = "waiting"
      BY <2>1, <1>4 DEF Calls
    <2>3. \A p \in Pens : reply'[p].kind = "committed" => \A d \in disk : p \notin d.pen
      BY <1>3 DEF CallInv, Calls
    <2>4. \A b \in batch, e \in inbox : DOMAIN b.reply \cap DOMAIN e.reply = {} BY DEF CallInv
    <2> QED BY <1>1, <2>2, <2>3, <2>4 DEF CallInv
  <1>8. BatchInv' BY <1>1, BatchFrame
  <1>9. SeqInv' BY <1>1 DEF SeqInv, Boundary
  <1>10. EntryInv'
    <2>1. Doomed' BY <1>1, <1>2 DEF Doomed
    <2>2. \A e \in inbox : \A c \in Commits(e) : \A h \in db.hooks : h.id = c => h.seq <= e.upto
      BY DEF EntryInv
    <2> QED BY <1>1, <1>2, <2>1, <2>2 DEF EntryInv, Commits
  <1>11. AckInv' BY <1>1, <1>3 DEF AckInv, Safe, HookIds
  <1> QED BY <1>5, <1>6, <1>7, <1>8, <1>9, <1>10, <1>11, PipelineWhole

LEMMA ResumeSteps ==
  ASSUME TypeOK, PipelineInv, Resume
  PROVE  PipelineInv'
  <1> StoreInv /\ FenceInv /\ CallInv /\ BatchInv /\ SeqInv /\ EntryInv /\ AckInv BY PipelineParts
  <1>1. PICK m \in resume : m.first /\ durable' = Max2(durable, m.seq) BY DEF Resume, MarkDurable
  <1>2. /\ syncing = {} /\ stalled' = FALSE /\ resume' = {}
        /\ UNCHANGED <<db, disk, since, reply, applied, next_seq, unsynced, fenced, batch, inbox, syncing,
                       failed, delivered>>
    BY DEF Resume, storeVars, callVars, writerVars, dispatchVars
  <1>3. durable \in Nat /\ m.seq \in Nat /\ next_seq \in Nat BY Numbers
  <1>4. \/ durable' = durable /\ m.seq <= durable
        \/ durable' = m.seq /\ durable <= m.seq
    BY <1>1, <1>3 DEF Max2
  <1>5. StoreInv' BY <1>2 DEF StoreInv
  <1>6. FenceInv' BY <1>2 DEF FenceInv
  <1>7. CallInv' BY <1>2 DEF CallInv
  <1>8. BatchInv' BY <1>2, BatchFrame
  <1>9. SeqInv'
    <2>1. durable' < next_seq' /\ Boundary(durable)' BY <1>2, <1>4
        DEF SeqInv, Boundary
    <2> QED BY <1>2, <2>1 DEF SeqInv, Boundary
  <1>10. EntryInv'
    <2>1. ~Doomed BY <1>1 DEF Doomed
    <2>2. \A e \in inbox : \A c \in Commits(e) : Stored(c, db) /\ (e.upto <= durable' => Safe(c))
      <3> SUFFICES ASSUME NEW e \in inbox, NEW c \in Commits(e)
                   PROVE  Stored(c, db) /\ (e.upto <= durable' => Safe(c))
        OBVIOUS
      <3>1. Stored(c, db) /\ (e.upto <= durable => Safe(c)) BY <2>1 DEF EntryInv
      <3>2. e.upto > m.seq /\ e.upto \in Nat BY <1>1, Numbers DEF EntryInv
      <3> QED BY <3>1, <3>2, <1>3, <1>4
    <2>3. \A e \in inbox : \A c \in Commits(e) : \A h \in db.hooks : h.id = c => h.seq <= e.upto
      BY DEF EntryInv
    <2> QED BY <1>2, <2>2, <2>3 DEF EntryInv, Commits, Stored, Safe, HookIds
  <1>11. AckInv'
    <2>1. \A h \in db.hooks : h.seq <= durable => h.seq <= durable' BY <1>3, <1>4, Numbers
    <2> QED BY <1>2, <2>1 DEF AckInv, Safe, HookIds
  <1> QED BY <1>5, <1>6, <1>7, <1>8, <1>9, <1>10, <1>11, PipelineWhole

-----------------------------------------------------------------------------
(* The fence *)

LEMMA FenceSteps ==
  ASSUME Counts, TypeOK, PipelineInv, HandleSyncFailed \/ RetryFence
  PROVE  PipelineInv'
  <1> StoreInv /\ FenceInv /\ CallInv /\ BatchInv /\ SeqInv /\ EntryInv /\ AckInv BY PipelineParts
  <1> DEFINE d == Undone(db, Uncovered)
  <1>1. /\ batch = {} /\ (FenceOk \/ FenceError)
        /\ UNCHANGED <<reply, durable, applied, next_seq, batch, inbox, syncing, stalled, delivered>>
        /\ \/ failed /\ failed' = FALSE
           \/ fenced /\ failed' = failed
    BY DEF HandleSyncFailed, RetryFence, callVars, markVars, dispatchVars
  <1>2. stalled /\ resume = {} /\ syncing = {} /\ failed' = FALSE
    BY <1>1 DEF FenceInv
  <1>3. /\ \/ WriteSync(d) \/ UNCHANGED <<db, disk, since>>
        /\ \/ /\ resume' = {[seq |-> applied, at |-> last_at, first |-> inbox = {}]}
              /\ fenced' = FALSE /\ unsynced' = {}
           \/ fenced' = TRUE /\ UNCHANGED <<resume, unsynced>>
    BY <1>1 DEF FenceOk, FenceError, ErrorOf, storeVars
  <1>4. /\ d.hooks = {h \in db.hooks : \A u \in Uncovered : \A y \in u.hooks : y.seq # h.seq}
        /\ d.pen = db.pen
    BY UncoveredType, UndoneType, ZenonT(40) DEF TypeOK, StoreType
  <1> HIDE DEF d
  <1>5. db'.hooks \subseteq db.hooks /\ db'.pen = db.pen BY <1>3, <1>4 DEF WriteSync
  <1>6. \A h \in db.hooks : h.seq <= durable => h \in d.hooks
    <2>1. \A u \in Uncovered : \A y \in u.hooks : y.seq > durable
      BY DEF Uncovered, SeqInv, Boundary
    <2>2. \A u \in Uncovered : \A y \in u.hooks : y.seq \in Nat BY Numbers DEF Uncovered
    <2> QED BY <2>1, <2>2, <1>4, Numbers
  <1>7. \A m \in resume' : m.seq = applied /\ m.first = (inbox = {})
    <2> DEFINE x == [seq |-> applied, at |-> last_at, first |-> inbox = {}]
    <2>1. x.seq = applied /\ x.first = (inbox = {}) BY Zenon
    <2>2. resume' \subseteq {x} BY <1>2, <1>3
    <2> HIDE DEF x
    <2> QED BY <2>1, <2>2, Zenon
  <1>8. StoreInv' BY <1>1, <1>2, <1>3 DEF StoreInv, WriteSync
  <1>9. FenceInv' BY <1>1, <1>2, <1>3 DEF FenceInv
  <1>10. CallInv'
    <2>1. \A p \in Pens : reply'[p].kind = "committed" => \A y \in disk' : p \notin y.pen
      BY <1>1, <1>3, <1>4 DEF CallInv, StoreInv, WriteSync
    <2> QED BY <1>1, <2>1 DEF CallInv
  <1>11. \A y : Boundary(y) => Boundary(y)' BY <1>3 DEF Boundary
  <1>12. applied < next_seq /\ Boundary(applied) BY <1>1 DEF BatchInv
  <1>13. BatchInv' BY <1>1, <1>11, <1>12 DEF BatchInv, Boundary
  <1>14. SeqInv'
    <2>1. \A m \in resume' : m.seq < next_seq /\ Boundary(m.seq)'
      <3>1. \A m \in resume' : m.seq = applied BY <1>7, Zenon
      <3>2. unsynced' \subseteq unsynced BY <1>3
      <3> QED BY <3>1, <3>2, <1>12 DEF Boundary
    <2>2. durable < next_seq /\ Boundary(durable)' BY <1>1, <1>3 DEF SeqInv, Boundary
    <2>3. \A e \in inbox \cup syncing : e.upto < next_seq /\ Boundary(e.upto)' BY <1>11
        DEF SeqInv
    <2>4. \A u \in unsynced' : u.upto < next_seq BY <1>3 DEF SeqInv
    <2>5. \A h \in db'.hooks : h.seq < next_seq BY <1>5 DEF SeqInv
    <2> QED BY <1>1, <2>1, <2>2, <2>3, <2>4, <2>5 DEF SeqInv, Boundary
  <1>15. EntryInv'
    <2>1. Doomed' \/ inbox' = {} BY <1>1, <1>2, <1>7, ZenonT(40) DEF Doomed
    <2>2. \A e \in inbox \cup syncing : \A c \in Commits(e) : \A h \in db'.hooks : h.id = c => h.seq <= e.upto
      BY <1>5 DEF EntryInv
    <2>3. \A m \in resume' : m.first => inbox = {} BY <1>7, Zenon
    <2> QED BY <1>1, <1>2, <2>1, <2>2, <2>3 DEF EntryInv, Commits
  <1>16. AckInv'
    <2> SUFFICES ASSUME NEW c \in Calls, reply[c].kind = "committed"
                 PROVE  Safe(c)' /\ \A h \in db'.hooks : h.id = c => h.seq <= durable
      BY <1>1 DEF AckInv
    <2>1. Safe(c) /\ \A h \in db.hooks : h.id = c => h.seq <= durable BY DEF AckInv
    <2>2. c \in HookIds(db) \cup delivered BY <2>1 DEF Safe, StoreInv
    <2>3. c \in HookIds(d) \cup delivered BY <2>1, <2>2, <1>6 DEF HookIds
    <2>4. Safe(c)' BY <2>1, <2>3, <1>1, <1>3 DEF Safe, WriteSync, HookIds
    <2> QED BY <2>1, <2>4, <1>5
  <1> QED BY <1>8, <1>9, <1>10, <1>13, <1>14, <1>15, <1>16, PipelineWhole

-----------------------------------------------------------------------------
(* A writer that starts *)

LEMMA BootSteps ==
  ASSUME TypeOK, PipelineInv, Crash \/ WriterRestart
  PROVE  PipelineInv'
  <1> StoreInv /\ FenceInv /\ CallInv /\ BatchInv /\ SeqInv /\ EntryInv /\ AckInv BY PipelineParts
  <1>1. Boot(db') /\ db' \in disk' /\ disk' \subseteq disk /\ since' = {}
    BY DEF Crash, WriterRestart, PowerLoss, StoreInv, Boot
  <1>2. db' \in Contents BY <1>1 DEF TypeOK, StoreType
  <1>4. /\ \A h \in db'.hooks : h.seq < next_seq' /\ h.seq <= durable'
        /\ durable' < next_seq' /\ applied' < next_seq'
    BY <1>1, <1>2, BootFacts, ZenonT(40)
  <1>6. /\ unsynced' = {} /\ fenced' = FALSE /\ batch' = {}
        /\ inbox' = {} /\ resume' = {} /\ syncing' = {} /\ stalled' = FALSE /\ failed' = FALSE
        /\ delivered' = delivered
    BY <1>1 DEF Boot
  <1>7. \A c \in Calls : reply'[c].kind = "committed" => reply[c].kind = "committed"
    BY <1>1 DEF Boot, State
  <1>8. StoreInv' /\ FenceInv' BY <1>1, <1>6 DEF StoreInv, FenceInv
  <1>9. CallInv' BY <1>1, <1>6, <1>7 DEF CallInv, Calls
  <1>10. BatchInv' /\ SeqInv' BY <1>4, <1>6 DEF BatchInv, SeqInv, Boundary
  <1>11. EntryInv' BY <1>6 DEF EntryInv
  <1>12. AckInv'
    <2>1. \A c : Safe(c) => Safe(c)'
      <3>1. disk' \subseteq disk BY <1>1
      <3> QED BY <3>1, <1>6, Zenon DEF Safe
    <2> QED BY <1>4, <1>7, <2>1 DEF AckInv
  <1> QED BY <1>8, <1>9, <1>10, <1>11, <1>12, PipelineWhole

LEMMA InvInit == Init => IInv
  <1> SUFFICES ASSUME Init PROVE IInv OBVIOUS
  <1>1. TypeOK BY TypeInit
  <1>2. /\ db = EmptyStore /\ disk = {db} /\ since = {} /\ syncing = {} /\ inbox = {} /\ resume = {}
        /\ batch = {} /\ unsynced = {} /\ fenced = FALSE /\ failed = FALSE /\ stalled = FALSE
        /\ next_seq = 1 /\ durable = 0 /\ applied = 0
    BY DEF Init, StoreInit
  <1>3. \A c \in Calls : reply[c].kind # "committed" BY DEF Init, State
  <1>4. db.hooks = {} BY <1>2 DEF EmptyStore
  <1>5. StoreInv /\ FenceInv BY <1>2 DEF StoreInv, FenceInv
  <1>6. CallInv BY <1>2, <1>3 DEF CallInv, Calls
  <1>7. BatchInv /\ SeqInv BY <1>2, <1>4 DEF BatchInv, SeqInv, Boundary
  <1>8. EntryInv BY <1>2 DEF EntryInv
  <1>9. AckInv BY <1>3 DEF AckInv
  <1> QED BY <1>1, <1>5, <1>6, <1>7, <1>8, <1>9 DEF IInv, PipelineInv

-----------------------------------------------------------------------------
(* Counting *)

(* Keys and calls are finite sets. *)
LEMMA Counting == Counts
  <1>1. ASSUME NEW S, S \subseteq Calls \/ S \subseteq Keys
        PROVE  Cardinality(S) \in Nat
    BY <1>1, FiniteAssumption, FS_Subset, FS_CardinalityType
  <1>2. ASSUME NEW n \in Nat, NEW S \in SUBSET (1..n)
        PROVE  /\ Cardinality(S) \in Nat
               /\ S # {} => Cardinality(S) > 0
               /\ \A i \in S : Cardinality({j \in S : j < i}) \in 0..(Cardinality(S) - 1)
               /\ \A i, k \in S : i < k => Cardinality({j \in S : j < i}) < Cardinality({j \in S : j < k})
    <2>0. IsFiniteSet(1..n) BY FS_Interval
    <2>1. IsFiniteSet(S) /\ Cardinality(S) \in Nat BY <2>0, FS_Subset, FS_CardinalityType, Zenon
    <2>2. ASSUME NEW i \in S PROVE Cardinality({j \in S : j < i}) \in 0..(Cardinality(S) - 1)
      <3> DEFINE T == {j \in S : j < i}
      <3>1. T \subseteq S \ {i} OBVIOUS
      <3>2. IsFiniteSet(S \ {i}) /\ Cardinality(S \ {i}) = Cardinality(S) - 1
        BY <2>1, FS_RemoveElement
      <3>3. Cardinality(T) <= Cardinality(S \ {i}) BY <3>1, <3>2, FS_Subset
      <3>4. IsFiniteSet(T) /\ Cardinality(T) \in Nat BY <3>1, <3>2, FS_Subset, FS_CardinalityType
      <3> QED BY <2>1, <3>2, <3>3, <3>4
    <2>3. S # {} => Cardinality(S) > 0 BY <2>1, FS_EmptySet
    <2>4. ASSUME NEW i \in S, NEW k \in S, i < k
          PROVE  Cardinality({j \in S : j < i}) < Cardinality({j \in S : j < k})
      <3> DEFINE T == {j \in S : j < i}
                 U == {j \in S : j < k}
      <3>1. IsFiniteSet(U) /\ Cardinality(U) \in Nat BY <2>1, FS_Subset, FS_CardinalityType
      <3>a. \A j \in S : j \in Int /\ ~(j < j) /\ (j < i => j < k) BY <2>4
      <3>2. T \subseteq U \ {i} /\ i \in U BY <2>4, <3>a, Zenon
      <3>3. IsFiniteSet(U \ {i}) /\ Cardinality(U \ {i}) = Cardinality(U) - 1
        BY <3>1, <3>2, FS_RemoveElement
      <3>4. IsFiniteSet(T) /\ Cardinality(T) <= Cardinality(U \ {i}) BY <3>2, <3>3, FS_Subset
      <3>5. Cardinality(T) \in Nat BY <3>4, FS_CardinalityType
      <3> QED BY <3>1, <3>3, <3>4, <3>5
    <2> QED BY <2>1, <2>2, <2>3, <2>4
  <1> QED BY <1>1, <1>2, Zenon DEF Counts

-----------------------------------------------------------------------------
(* The theorems *)

LEMMA InvStep == ASSUME Counts PROVE IInv /\ [Next]_vars => IInv'
  <1> SUFFICES ASSUME TypeOK, PipelineInv, [Next]_vars PROVE PipelineInv'
    BY TypeStep DEF IInv
  <1>1. CASE \E r \in Reqs : Enqueue(r) \/ EnqueueUnavailable(r)
    BY <1>1, CallerSteps
  <1>2. CASE WriterNext
    <2>1. CASE \E g \in Groups : CommitDuplicates(g) \/ Stage(g)
      BY <2>1, DuplicatesSteps, StageSteps
    <2>2. CASE StagedOk \/ StagedError
      BY <2>2, StagedOkSteps, StagedErrorSteps
    <2>3. CASE \E p \in Pens : ReleaseDuplicate(p) \/ ReleaseFresh(p)
      BY <2>3, ReleaseDuplicateSteps, ReleaseFreshSteps
    <2>4. CASE \E x \in Redrives : Redrive(x)
      BY <2>4, RedriveSteps
    <2>5. CASE ExpireDedupe
      BY <2>5, ExpireSteps
    <2>6. CASE ExpireRefused
      <3>1. UNCHANGED <<coreVars, reply>>
        BY <2>6 DEF ExpireRefused, coreVars, storeVars, callVars, markVars, writerVars, syncerVars, dispatchVars
      <3> QED BY <3>1, QuietSteps
    <2>7. CASE HandleSyncFailed \/ RetryFence
      BY <2>7, FenceSteps
    <2>8. CASE \E r \in Reqs : RefuseFenced(r) \/ Expired(r)
      BY <2>8, CallerSteps
    <2> QED BY <1>2, <2>1, <2>2, <2>3, <2>4, <2>5, <2>6, <2>7, <2>8 DEF WriterNext
  <1>3. CASE SyncerNext
    BY <1>3, SyncRefuseSteps, SyncCoveredSteps, SyncBeginSteps, SyncOkSteps, SyncErrorSteps, ResumeSteps
       DEF SyncerNext
  <1>4. CASE DispatchNext
    <2>1. CASE ScanBegin \/ ScanClaim
      <3>1. UNCHANGED <<coreVars, reply>>
        BY <2>1 DEF ScanBegin, ScanClaim, coreVars, storeVars, callVars, markVars, writerVars, syncerVars
      <3> QED BY <3>1, QuietSteps
    <2>2. CASE \E h \in db.hooks : Deliver(h)
      BY <2>2, DeliverSteps, ZenonT(40)
    <2> QED BY <1>4, <2>1, <2>2 DEF DispatchNext
  <1>5. CASE SweepScan \/ Tick \/ StepBack \/ GateMoved \/ UNCHANGED vars
    <2>1. UNCHANGED <<coreVars, reply>>
      BY <1>5 DEF SweepScan, Tick, StepBack, GateMoved, vars, coreVars, storeVars, callVars, markVars,
                  writerVars, syncerVars, dispatchVars
    <2> QED BY <2>1, QuietSteps
  <1>6. CASE Crash \/ WriterRestart
    BY <1>6, BootSteps
  <1> QED BY <1>1, <1>2, <1>3, <1>4, <1>5, <1>6 DEF Next, EnvNext

(* What a step leaves of the store, when it is no write to it. *)
Idle == UNCHANGED <<db, disk, unsynced, delivered>>

LEMMA CursorStep ==
  ASSUME Counts, TypeOK, PipelineInv, CursorInv, [Next]_vars
  PROVE  CursorInv'
  <1> StoreInv /\ FenceInv BY PipelineParts
  <1>1. CASE \E r \in Reqs : Enqueue(r) \/ EnqueueUnavailable(r)
    <2>1. Idle BY <1>1 DEF Idle, Enqueue, EnqueueUnavailable, storeVars, writerVars, dispatchVars
    <2> QED BY <2>1, QuietCursor DEF Idle
  <1>2. CASE WriterNext
    <2>1. CASE \E g \in Groups : CommitDuplicates(g) \/ Stage(g)
      <3>1. Idle BY <2>1 DEF Idle, CommitDuplicates, Stage, storeVars, writerVars, dispatchVars
      <3> QED BY <3>1, QuietCursor DEF Idle
    <2>2. CASE StagedError \/ ExpireRefused
      <3>1. Idle BY <2>2 DEF Idle, StagedError, ExpireRefused, storeVars, writerVars, dispatchVars
      <3> QED BY <3>1, QuietCursor DEF Idle
    <2>3. CASE StagedOk BY <2>3, StagedCursor
    <2>4. CASE \E p \in Pens : ReleaseDuplicate(p) \/ ReleaseFresh(p) BY <2>4, ReleaseCursor
    <2>5. CASE \E x \in Redrives : Redrive(x) BY <2>5, RedriveCursor
    <2>6. CASE ExpireDedupe BY <2>6, ExpireCursor
    <2>7. CASE HandleSyncFailed \/ RetryFence BY <2>7, FenceCursor
    <2>8. CASE \E r \in Reqs : RefuseFenced(r) \/ Expired(r)
      <3>1. Idle BY <2>8 DEF Idle, RefuseFenced, Expired, storeVars, writerVars, dispatchVars
      <3> QED BY <3>1, QuietCursor DEF Idle
    <2> QED BY <1>2, <2>1, <2>2, <2>3, <2>4, <2>5, <2>6, <2>7, <2>8 DEF WriterNext
  <1>3. CASE SyncerNext
    <2>1. disk' \subseteq disk /\ UNCHANGED <<db, unsynced, delivered>>
      BY <1>3 DEF SyncerNext, SyncRefuse, SyncCovered, SyncBegin, SyncOk, SyncError, Resume, SyncWalBegin,
                  SyncWalOk, SyncWalError, storeVars, writerVars, dispatchVars, StoreInv, FenceInv
    <2> QED BY <2>1, CursorShrinks
  <1>4. CASE DispatchNext
    <2>1. CASE ScanBegin \/ ScanClaim
      <3>1. Idle BY <2>1 DEF Idle, ScanBegin, ScanClaim, storeVars, writerVars
      <3> QED BY <3>1, QuietCursor DEF Idle
    <2>2. CASE \E h \in db.hooks : Deliver(h) BY <2>2, DeliverCursor
    <2> QED BY <1>4, <2>1, <2>2 DEF DispatchNext
  <1>5. CASE SweepScan \/ Tick \/ StepBack \/ GateMoved \/ UNCHANGED vars
    <2>1. Idle
      BY <1>5 DEF Idle, SweepScan, Tick, StepBack, GateMoved, vars, storeVars, writerVars, dispatchVars
    <2> QED BY <2>1, QuietCursor DEF Idle
  <1>6. CASE Crash \/ WriterRestart
    <2>1. disk' \subseteq disk /\ unsynced' = {} /\ UNCHANGED delivered
      BY <1>6 DEF Crash, WriterRestart, PowerLoss, StoreInv, Boot
    <2> QED BY <2>1, CursorShrinks
  <1> QED BY <1>1, <1>2, <1>3, <1>4, <1>5, <1>6 DEF Next, EnvNext

LEMMA SeqsStep ==
  ASSUME Counts, TypeOK, PipelineInv, SeqsInv, [Next]_vars
  PROVE  SeqsInv'
  <1>1. CASE \E r \in Reqs : Enqueue(r) \/ EnqueueUnavailable(r) BY <1>1, CallerSeqs
  <1>2. CASE WriterNext
    <2>1. CASE \E g \in Groups : CommitDuplicates(g) \/ Stage(g) BY <2>1, DuplicatesSeqs, StageSeqs
    <2>2. CASE StagedOk \/ StagedError BY <2>2, StagedOkSeqs, StagedErrorSeqs
    <2>3. CASE \E p \in Pens : ReleaseDuplicate(p) \/ ReleaseFresh(p)
      BY <2>3, ReleaseDuplicateSeqs, ReleaseFreshSeqs
    <2>4. CASE \E x \in Redrives : Redrive(x) BY <2>4, RedriveSeqs
    <2>5. CASE ExpireDedupe BY <2>5, ExpireSeqs
    <2>6. CASE ExpireRefused
      <3>1. UNCHANGED <<coreVars, reply>>
        BY <2>6 DEF ExpireRefused, coreVars, storeVars, callVars, markVars, writerVars, syncerVars, dispatchVars
      <3> QED BY <3>1, IdleSeqs
    <2>7. CASE HandleSyncFailed \/ RetryFence BY <2>7, FenceSeqs
    <2>8. CASE \E r \in Reqs : RefuseFenced(r) \/ Expired(r) BY <2>8, CallerSeqs
    <2> QED BY <1>2, <2>1, <2>2, <2>3, <2>4, <2>5, <2>6, <2>7, <2>8 DEF WriterNext
  <1>3. CASE SyncerNext
    BY <1>3, SyncRefusedSeqs, SyncCoveredSeqs, SyncBeginSeqs, SyncOkSeqs, ResumeSeqs DEF SyncerNext
  <1>4. CASE DispatchNext
    <2>1. CASE ScanBegin \/ ScanClaim
      <3>1. UNCHANGED <<coreVars, reply>>
        BY <2>1 DEF ScanBegin, ScanClaim, coreVars, storeVars, callVars, markVars, writerVars, syncerVars
      <3> QED BY <3>1, IdleSeqs
    <2>2. CASE \E h \in db.hooks : Deliver(h) BY <2>2, DeliverSeqs
    <2> QED BY <1>4, <2>1, <2>2 DEF DispatchNext
  <1>5. CASE SweepScan \/ Tick \/ StepBack \/ GateMoved \/ UNCHANGED vars
    <2>1. UNCHANGED <<coreVars, reply>>
      BY <1>5 DEF SweepScan, Tick, StepBack, GateMoved, vars, coreVars, storeVars, callVars, markVars,
                  writerVars, syncerVars, dispatchVars
    <2> QED BY <2>1, IdleSeqs
  <1>6. CASE Crash \/ WriterRestart BY <1>6, BootSeqs
  <1> QED BY <1>1, <1>2, <1>3, <1>4, <1>5, <1>6 DEF Next, EnvNext

(* Every variable of the writer, the syncer, the store and the callers keeps its *)
(* type through every handler, fault and restart.                                *)
THEOREM TypeCorrect == Spec => []TypeOK
  <1>1. TypeOK /\ [Next]_vars => TypeOK' BY Counting, TypeStep
  <1> QED BY <1>1, TypeInit, PTL DEF Spec

(* What the writer, the syncer and the store agree on between the write of a     *)
(* group and its ack survives every interleaving of Queue.Writer, Queue.Syncer   *)
(* and their callers with failed writes and fsyncs, fences, restarts and power   *)
(* losses.                                                                       *)
THEOREM PipelineInvariant == Spec => []IInv
  <1>1. IInv /\ [Next]_vars => IInv' BY Counting, InvStep
  <1> QED BY <1>1, InvInit, PTL DEF Spec

(* No enqueue call and no quarantine release is answered `committed` (201) while *)
(* a power loss could take its hook: Queue.Syncer answers after the fsync that   *)
(* covers the group, and the fence deletes no group it answered.                 *)
THEOREM Durability == Spec => []CommittedDurable
  <1>1. IInv => CommittedDurable BY PipelineParts DEF IInv, AckInv, CommittedDurable
  <1> QED BY <1>1, PipelineInvariant, PTL

(* Queue.redrive/3 moves an archived hook back once: in everything a power loss   *)
(* may leave, its row and its place in the job's cursor are there together until  *)
(* it is delivered, and it has no second row. The cursor and the row are one      *)
(* synced write, and a fence deletes only rows of groups it could not sync, whose *)
(* seqs no redriven row has.                                                      *)
THEOREM RedrivesAreExact == Spec => []CursorExact
  <1>1. Init => CursorInv BY CursorInit
  <1>2. IInv /\ CursorInv /\ [Next]_vars => CursorInv' BY Counting, CursorStep DEF IInv
  <1>3. CursorInv => CursorExact BY DEF CursorInv
  <1> QED BY <1>1, <1>2, <1>3, PipelineInvariant, PTL DEF Spec

(* No two calls are ever told the same seq, the writer's restarts and power       *)
(* losses included: each batch carries the next_seq marker with its hooks, a call *)
(* is answered when no power loss can take the marker back past its seq, and      *)
(* Queue.Writer.init/1 goes on from the marker.                                   *)
THEOREM SeqsAreDistinct == Spec => []SeqsDistinct
  <1>1. IInv /\ SeqsInv /\ [Next]_vars => SeqsInv' BY Counting, SeqsStep DEF IInv
  <1>2. SeqsInv => SeqsDistinct BY DEF SeqsInv, AckSeqs
  <1> QED BY <1>1, <1>2, SeqsInit, PipelineInvariant, PTL DEF Spec
=============================================================================
