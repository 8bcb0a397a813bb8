----------------------------- MODULE QueueSteps -----------------------------
(***************************************************************************)
(* The writer and the syncer keep PipelineInv: a group from its staging to *)
(* its ack.                                                                *)
(***************************************************************************)
EXTENDS QueueFacts

(* The provers of a step that names none, in the order they are tried. *)
USE ZenonT(3), SMTT(8), ZenonT(20), Z3T(30), SMTT(30)

-----------------------------------------------------------------------------
(* A write to the store outside the batch *)

(* A synced write adds the hooks `H`, none of an enqueue call, and the mark may be *)
(* raised to the last seq of them.                                                 *)
LEMMA SyncedSteps ==
  ASSUME TypeOK, PipelineInv, batch = {}, NEW d, NEW H, WriteSync(d),
         d.hooks = db.hooks \cup H, d.pen \subseteq db.pen,
         next_seq' \in Nat, next_seq' >= next_seq,
         \A h \in H : h.id \notin Reqs /\ h.seq \in Nat /\ next_seq <= h.seq /\ h.seq < next_seq',
         durable' = durable \/ durable' = next_seq' - 1,
         \A r \in Reqs : reply'[r] = reply[r],
         \A p \in Pens : reply'[p].kind = "committed" =>
             /\ p \notin d.pen
             /\ \/ reply[p].kind = "committed" /\ \A h \in H : h.id # p
                \/ durable' = next_seq' - 1 /\ \E h \in H : h.id = p,
         UNCHANGED <<applied, unsynced, fenced, batch, syncerVars, delivered>>
  PROVE  PipelineInv'
  <1> StoreInv /\ FenceInv /\ CallInv /\ BatchInv /\ SeqInv /\ EntryInv /\ AckInv BY PipelineParts
  <1>1. next_seq \in Nat /\ durable \in Nat /\ durable < next_seq BY Numbers DEF SeqInv
  <1>2. durable' \in Nat /\ durable <= durable' /\ durable' < next_seq' BY <1>1
  <1>3. db' = d /\ disk' = {d} BY DEF WriteSync
  <1>4. Keeps(d) BY DEF Keeps, Stored, HookIds
  <1>5. /\ StoreInv'
        /\ \A c : Stored(c, db) => Stored(c, db)'
        /\ \A c : Safe(c) => Safe(c)'
        /\ \A c : (\A x \in since : Stored(c, x)) => \A x \in since' : Stored(c, x)'
    <2>1. syncing' = syncing BY DEF syncerVars
    <2> QED BY <1>4, <2>1, KeepWrite, Zenon
  <1>6. \A c : Stored(c, db) => Safe(c)' BY <1>4, KeepSync, Zenon
  <1>7. \A h \in db'.hooks : h \in db.hooks \/ h \in H BY <1>3
  <1>8. FenceInv' BY DEF FenceInv, syncerVars
  <1>9. CallInv'
    <2>1. \A p \in Pens : reply'[p].kind = "committed" => \A x \in disk' : p \notin x.pen BY <1>3
    <2> QED BY <2>1 DEF CallInv, syncerVars
  <1>10. \A u \in unsynced : u.upto \in Nat /\ u.upto < next_seq BY Numbers DEF SeqInv
  <1>11. BatchInv' BY <1>1, Numbers DEF BatchInv, Boundary
  <1>12. SeqInv'
    <2>1. Boundary(durable)'
      <3>1. Boundary(durable) BY DEF SeqInv
      <3>2. CASE durable' = durable BY <3>1, <3>2, Zenon DEF Boundary
      <3>3. CASE durable' = next_seq' - 1
        <4>1. \A u \in unsynced' : ~(u.upto > durable') BY <3>3, <1>1, <1>10
        <4> QED BY <4>1, Zenon DEF Boundary
      <3> QED BY <3>2, <3>3
    <2>2. \A h \in db'.hooks : h.seq < next_seq' BY <1>1, <1>7, Numbers DEF SeqInv
    <2> QED BY <1>1, <1>2, <2>1, <2>2, Numbers DEF SeqInv, Boundary, syncerVars
  <1>13. EntryInv'
    <2>1. \A e \in inbox \cup syncing : \A c \in Commits(e) : c \in Reqs
      BY DEF CallInv, Commits
    <2>2. ~Doomed' => \A e \in inbox \cup syncing : \A c \in Commits(e) : Stored(c, db)' /\ Safe(c)'
      <3>1. Doomed' = Doomed BY DEF Doomed, syncerVars
      <3>2. ~Doomed => \A e \in inbox \cup syncing : \A c \in Commits(e) : Stored(c, db)
        BY DEF EntryInv
      <3> QED BY <3>1, <3>2, <1>5, <1>6
    <2>3. \A e \in syncing : \A c \in Commits(e) : \A x \in since' : Stored(c, x)'
      <3>1. \A e \in syncing : \A c \in Commits(e) : \A x \in since : Stored(c, x)
        BY DEF EntryInv
      <3> QED BY <3>1, <1>5
    <2>4. \A e \in inbox \cup syncing : \A c \in Commits(e) : \A h \in db'.hooks :
             h.id = c => h.seq <= e.upto
      BY <2>1, <1>7 DEF EntryInv
    <2>5. /\ \A e \in inbox, f \in syncing : Commits(e) = {} \/ e.upto > f.upto
          /\ \A e \in inbox, m \in resume : m.first => Commits(e) = {} \/ e.upto > m.seq
      BY DEF EntryInv
    <2>6. inbox' = inbox /\ syncing' = syncing /\ resume' = resume BY DEF syncerVars
    <2> QED BY <2>2, <2>3, <2>4, <2>5, <2>6, Zenon DEF EntryInv, Commits
  <1>14. AckInv'
    <2> SUFFICES ASSUME NEW c \in Calls, reply'[c].kind = "committed"
                 PROVE  Safe(c)' /\ \A h \in db'.hooks : h.id = c => h.seq <= durable'
      BY DEF AckInv
    <2>1. CASE reply[c].kind = "committed" /\ \A h \in H : h.id # c
      <3>1. Safe(c) /\ \A h \in db.hooks : h.id = c => h.seq <= durable BY <2>1 DEF AckInv
      <3>2. \A h \in db'.hooks : h.id = c => h \in db.hooks BY <2>1, <1>7
      <3> QED BY <3>1, <3>2, <1>1, <1>2, <1>5, Numbers
    <2>2. CASE durable' = next_seq' - 1 /\ \E h \in H : h.id = c
      <3>1. Safe(c)' BY <2>2, <1>3 DEF Safe, HookIds
      <3>2. \A h \in db'.hooks : h.seq \in Nat /\ h.seq < next_seq'
        BY <1>1, <1>7, Numbers DEF SeqInv
      <3> QED BY <2>2, <3>1, <3>2
    <2>3. c \in Reqs => reply[c].kind = "committed" /\ \A h \in H : h.id # c OBVIOUS
    <2> QED BY <2>1, <2>2, <2>3 DEF Calls
  <1> QED BY <1>5, <1>8, <1>9, <1>11, <1>12, <1>13, <1>14, PipelineWhole

LEMMA CommittedInStore ==
  ASSUME PipelineInv, NEW p \in Pens, p \in db.pen
  PROVE  reply[p].kind # "committed"
  BY PipelineParts DEF CallInv, StoreInv

LEMMA PlainSteps ==
  ASSUME PipelineInv, NEW d, Write(d), Keeps(d), d.hooks \subseteq db.hooks, d.pen = db.pen,
         UNCHANGED <<reply, durable, applied, next_seq, unsynced, fenced, batch, syncerVars>>
  PROVE  PipelineInv'
  <1> StoreInv /\ FenceInv /\ CallInv /\ BatchInv /\ SeqInv /\ EntryInv /\ AckInv BY PipelineParts
  <1>1. db' = d /\ disk' = disk \cup {d} BY DEF Write
  <1>2. /\ StoreInv'
        /\ \A c : Stored(c, db) => Stored(c, db)'
        /\ \A c : Safe(c) => Safe(c)'
        /\ \A c : (\A x \in since : Stored(c, x)) => \A x \in since' : Stored(c, x)'
    <2>1. syncing' = syncing BY DEF syncerVars
    <2> QED BY <2>1, KeepWrite, Zenon
  <1>3. FenceInv' BY DEF FenceInv, syncerVars
  <1>4. CallInv' BY <1>1 DEF CallInv, StoreInv, syncerVars
  <1>5. BatchInv' BY BatchFrame
  <1>6. SeqInv' BY <1>1 DEF SeqInv, Boundary, syncerVars
  <1>7. EntryInv'
    <2>1. inbox' = inbox /\ syncing' = syncing /\ resume' = resume /\ durable' = durable BY DEF syncerVars
    <2>2. Doomed' = Doomed BY DEF Doomed, syncerVars
    <2>3. \A h \in db'.hooks : h \in db.hooks BY <1>1
    <2> QED BY <2>1, <2>2, <2>3, <1>2, Zenon DEF EntryInv, Commits
  <1>8. AckInv' BY <1>1, <1>2 DEF AckInv
  <1> QED BY <1>2, <1>3, <1>4, <1>5, <1>6, <1>7, <1>8, PipelineWhole

-----------------------------------------------------------------------------
(* A group is staged *)

LEMMA DuplicatesSteps ==
  ASSUME Counts, TypeOK, PipelineInv, NEW g \in Groups, CommitDuplicates(g)
  PROVE  PipelineInv'
  <1> StoreInv /\ FenceInv /\ CallInv /\ BatchInv /\ SeqInv /\ EntryInv /\ AckInv BY PipelineParts
  <1> DEFINE b == Build(g, Begun, TRUE)
             new == [upto |-> applied, at |-> last_at, reply |-> b.reply]
  <1>1. BuiltFor(b, CallsOf(g)) BY GroupFacts, Zenon
  <1>2. /\ batch = {} /\ b.hooks = {}
        /\ \/ reply' = Waiting(CallsOf(g)) /\ inbox' = inbox \cup {new}
           \/ reply' = Answer(b.reply) /\ inbox' = inbox
        /\ UNCHANGED <<db, disk, since, durable, applied, next_seq, unsynced, fenced, batch, resume,
                       syncing, stalled, failed, delivered>>
    BY Zenon DEF CommitDuplicates, Ready, storeVars, markVars, dispatchVars
  <1>3. DOMAIN b.reply = CallsOf(g) /\ Commits(b) = {} BY <1>1, <1>2, Zenon DEF BuiltFor
  <1>4. CallsOf(g) \subseteq Queued /\ CallsOf(g) \subseteq Reqs BY GroupType
  <1> HIDE DEF b
  <1>5. Commits(new) = {} BY <1>3 DEF Commits
  <1>6. new.upto = applied /\ DOMAIN new.reply = CallsOf(g) BY <1>3
  <1> HIDE DEF new
  <1>7. \A c \in CallsOf(g) : reply[c].kind = "queued" BY <1>4 DEF Queued
  <1>8. \A c \in Calls : reply'[c].kind = "committed" => reply[c].kind = "committed"
    BY <1>2, <1>3 DEF Waiting, Answer, State, Commits
  <1>9. \A c \in Calls : reply[c].kind = "waiting" => reply'[c].kind = "waiting"
    BY <1>2, <1>3, <1>7 DEF Waiting, Answer, State
  <1>10. inbox' # inbox => \A c \in CallsOf(g) : reply'[c].kind = "waiting"
    BY <1>2, <1>4 DEF Waiting, State, Calls
  <1>11. inbox' \subseteq inbox \cup {new} BY <1>2
  <1>12. StoreInv' BY <1>2 DEF StoreInv
  <1>13. FenceInv' BY <1>2 DEF FenceInv
  <1>14. CallInv'
    <2>1. \A e \in inbox' \cup syncing' : \A c \in DOMAIN e.reply : c \in Reqs /\ reply'[c].kind = "waiting"
      <3> SUFFICES ASSUME NEW e \in inbox' \cup syncing', NEW c \in DOMAIN e.reply
                   PROVE  c \in Reqs /\ reply'[c].kind = "waiting"
        OBVIOUS
      <3>1. CASE e \in inbox \cup syncing BY <3>1, <1>9 DEF CallInv, Calls
      <3>2. CASE e \notin inbox \cup syncing
        <4>1. e = new /\ inbox' # inbox BY <3>2, <1>2, <1>11, ZenonT(40)
        <4> QED BY <4>1, <1>6, <1>10, <1>4
      <3> QED BY <3>1, <3>2
    <2>2. \A p \in Pens : reply'[p].kind = "committed" => \A d \in disk' : p \notin d.pen
      BY <1>2, <1>8, ZenonT(40) DEF CallInv, Calls
    <2>3. \A e \in inbox', f \in syncing : DOMAIN e.reply \cap DOMAIN f.reply = {}
      <3>1. \A f \in syncing : \A c \in DOMAIN f.reply : reply[c].kind = "waiting"
        BY DEF CallInv
      <3>2. \A f \in syncing : DOMAIN new.reply \cap DOMAIN f.reply = {} BY <3>1, <1>6, <1>7
      <3> QED BY <3>2, <1>11 DEF CallInv
    <2> QED BY <1>2, <2>1, <2>2, <2>3 DEF CallInv
  <1>15. BatchInv' BY <1>2 DEF BatchInv, Boundary
  <1>16. SeqInv'
    <2>1. applied < next_seq /\ Boundary(applied) BY <1>2 DEF BatchInv
    <2> QED BY <1>2, <1>6, <1>11, <2>1 DEF SeqInv, Boundary
  <1>17. EntryInv'
    <2>1. \A e \in inbox' \cup syncing' : e \in inbox \cup syncing \/ Commits(e) = {}
      BY <1>2, <1>5, <1>11
    <2>2. UNCHANGED <<db, disk, since, durable, delivered, syncing, resume, Doomed>> BY <1>2 DEF Doomed
    <2>3. \A e \in inbox' : e \in inbox \/ Commits(e) = {} BY <1>5, <1>11
    <2> QED BY <2>1, <2>2, <2>3 DEF EntryInv, Stored, Safe, HookIds, Commits
  <1>18. AckInv' BY <1>2, <1>8 DEF AckInv, Safe, HookIds
  <1> QED BY <1>12, <1>13, <1>14, <1>15, <1>16, <1>17, <1>18, PipelineWhole

LEMMA StageSteps ==
  ASSUME Counts, TypeOK, PipelineInv, NEW g \in Groups, Stage(g)
  PROVE  PipelineInv'
  <1> StoreInv /\ FenceInv /\ CallInv /\ BatchInv /\ SeqInv /\ EntryInv /\ AckInv BY PipelineParts
  <1> DEFINE b == Build(g, Begun, TRUE)
  <1>1. BuiltFor(b, CallsOf(g)) BY GroupFacts, Zenon
  <1>2. /\ batch = {} /\ b.hooks # {} /\ reply' = Waiting(CallsOf(g)) /\ batch' = {b} /\ applied' = b.upto
        /\ UNCHANGED <<db, disk, since, durable, next_seq, unsynced, fenced, syncerVars, delivered>>
    BY Zenon DEF Stage, Ready, storeVars, dispatchVars
  <1>3. CallsOf(g) \subseteq Queued /\ CallsOf(g) \subseteq Reqs BY GroupType
  <1> HIDE DEF b
  <1>4. \A c \in CallsOf(g) : reply[c].kind = "queued" BY <1>3 DEF Queued
  <1>5. \A c \in Calls : reply'[c].kind = "committed" => reply[c].kind = "committed"
    BY <1>2 DEF Waiting, State
  <1>6. \A c \in Calls : reply[c].kind = "waiting" \/ c \in CallsOf(g) => reply'[c].kind = "waiting"
    BY <1>2 DEF Waiting, State
  <1>7. StoreInv' /\ FenceInv' BY <1>2 DEF StoreInv, FenceInv, syncerVars
  <1>8. CallInv'
    <2>1. DOMAIN b.reply = CallsOf(g) BY <1>1 DEF BuiltFor
    <2>2. \A e \in inbox \cup syncing : \A c \in DOMAIN e.reply : c \in Reqs /\ reply[c].kind = "waiting"
      BY DEF CallInv
    <2>3. \A e \in inbox \cup syncing \cup {b} : \A c \in DOMAIN e.reply : c \in Reqs /\ reply'[c].kind = "waiting"
      BY <2>1, <2>2, <1>3, <1>6 DEF Calls
    <2>4. \A e \in inbox \cup syncing : DOMAIN b.reply \cap DOMAIN e.reply = {}
      BY <2>1, <2>2, <1>4
    <2>5. \A p \in Pens : reply'[p].kind = "committed" => \A d \in disk : p \notin d.pen
      BY <1>5 DEF CallInv, Calls
    <2>6. \A e \in inbox, f \in syncing : DOMAIN e.reply \cap DOMAIN f.reply = {}
      BY DEF CallInv
    <2> QED BY <1>2, <2>3, <2>4, <2>5, <2>6, ZenonT(40) DEF CallInv, syncerVars
  <1>9. BatchInv'
    <2>1. applied < next_seq /\ Boundary(applied) BY <1>2, ZenonT(40) DEF BatchInv
    <2> QED BY <1>1, <1>2, <2>1 DEF BatchInv, BuiltFor, Boundary, Commits
  <1>10. SeqInv' BY <1>2 DEF SeqInv, Boundary, syncerVars
  <1>11. EntryInv'
    <2>1. UNCHANGED Doomed BY <1>2 DEF Doomed, syncerVars
    <2> QED BY <1>2, <2>1, Zenon DEF EntryInv, Stored, Safe, HookIds, Commits, syncerVars
  <1>12. AckInv' BY <1>2, <1>5 DEF AckInv, Safe, HookIds
  <1> QED BY <1>7, <1>8, <1>9, <1>10, <1>11, <1>12, PipelineWhole

-----------------------------------------------------------------------------
(* The write of a group *)

LEMMA StagedErrorSteps ==
  ASSUME TypeOK, PipelineInv, StagedError
  PROVE  PipelineInv'
  <1> StoreInv /\ FenceInv /\ CallInv /\ BatchInv /\ SeqInv /\ EntryInv /\ AckInv BY PipelineParts
  <1>1. PICK b \in batch :
          /\ next_seq' = b.upto + 1 /\ applied' = b.prev /\ reply' = RefuseAll({b}) /\ batch' = {}
          /\ UNCHANGED <<db, disk, since, durable, unsynced, fenced, syncerVars, delivered>>
    BY Zenon DEF StagedError, storeVars, dispatchVars
  <1>2. b.upto \in Nat /\ b.prev \in Nat /\ next_seq \in Nat BY Numbers
  <1>3. b.upto >= next_seq /\ b.prev < next_seq /\ Boundary(b.prev) BY DEF BatchInv
  <1>4. \A c \in Calls : reply'[c].kind = "committed" => reply[c].kind = "committed"
    BY <1>1 DEF RefuseAll, State
  <1>5. \A c \in Calls : c \notin DOMAIN b.reply => reply'[c] = reply[c] BY <1>1 DEF RefuseAll
  <1>6. StoreInv' /\ FenceInv' BY <1>1 DEF StoreInv, FenceInv, syncerVars
  <1>7. CallInv'
    <2>1. \A e \in inbox \cup syncing : \A c \in DOMAIN e.reply :
             c \in Reqs /\ reply[c].kind = "waiting" /\ c \notin DOMAIN b.reply
      BY DEF CallInv
    <2>2. \A e \in inbox \cup syncing : \A c \in DOMAIN e.reply : c \in Reqs /\ reply'[c].kind = "waiting"
      BY <2>1, <1>5 DEF Calls
    <2>3. \A p \in Pens : reply'[p].kind = "committed" => \A d \in disk : p \notin d.pen
      BY <1>4 DEF CallInv, Calls
    <2>4. \A e \in inbox, f \in syncing : DOMAIN e.reply \cap DOMAIN f.reply = {}
      BY DEF CallInv
    <2> QED BY <1>1, <2>2, <2>3, <2>4, Zenon DEF CallInv, syncerVars
  <1>8. BatchInv' BY <1>1, <1>2, <1>3 DEF BatchInv, Boundary
  <1>9. SeqInv' BY <1>1, <1>2, <1>3, Numbers DEF SeqInv, Boundary, syncerVars
  <1>10. EntryInv'
    BY <1>1, Zenon DEF EntryInv, Doomed, Stored, Safe, HookIds, Commits, syncerVars
  <1>11. AckInv' BY <1>1, <1>4, Zenon DEF AckInv, Safe, HookIds
  <1> QED BY <1>6, <1>7, <1>8, <1>9, <1>10, <1>11, PipelineWhole

LEMMA StagedOkSteps ==
  ASSUME Counts, TypeOK, PipelineInv, StagedOk
  PROVE  PipelineInv'
  <1> StoreInv /\ FenceInv /\ CallInv /\ BatchInv /\ SeqInv /\ EntryInv /\ AckInv BY PipelineParts
  <1>1. PICK b \in batch :
          /\ Write(Applied(db, b))
          /\ next_seq' = b.upto + 1
          /\ inbox' = inbox \cup {Entry(b)}
          /\ unsynced' = {u \in unsynced : u.upto > durable} \cup {b}
          /\ batch' = {}
          /\ UNCHANGED <<reply, durable, applied, fenced, resume, syncing, stalled, failed, delivered>>
    BY Zenon DEF StagedOk, callVars, markVars, dispatchVars
  <1>2. IsBatch(b) /\ db \in Contents BY DEF TypeOK, StoreType, WriterType
  <1>3. Applied(db, b).hooks = db.hooks \cup b.hooks /\ Applied(db, b).pen = db.pen
    BY <1>2, AppliedType
  <1>4. b.upto \in Nat /\ next_seq \in Nat /\ durable \in Nat BY Numbers
  <1>5. db' = Applied(db, b) /\ disk' = disk \cup {Applied(db, b)} BY <1>1 DEF Write
  <1>6. /\ b.upto >= next_seq /\ applied = b.upto
        /\ \A h \in b.hooks : h.id \in DOMAIN b.reply /\ next_seq <= h.seq /\ h.seq <= b.upto
        /\ \A c \in Commits(b) : \E h \in b.hooks : h.id = c
    BY DEF BatchInv
  <1>7. Keeps(Applied(db, b)) BY <1>1, <1>3 DEF Keeps, Stored, HookIds
  <1>8. /\ StoreInv'
        /\ \A c : Stored(c, db) => Stored(c, db)'
        /\ \A c : Safe(c) => Safe(c)'
        /\ \A c : (\A x \in since : Stored(c, x)) => \A x \in since' : Stored(c, x)'
    BY <1>1, <1>7, KeepWrite, Zenon
  <1>9. /\ Entry(b).upto = b.upto /\ DOMAIN Entry(b).reply = DOMAIN b.reply
        /\ Commits(Entry(b)) = Commits(b)
    BY DEF Entry, Commits
  <1>10. \A h \in db'.hooks : h \in db.hooks \/ h \in b.hooks BY <1>3, <1>5
  <1>11. /\ \A e \in inbox \cup syncing \cup batch : \A c \in DOMAIN e.reply :
             c \in Reqs /\ reply[c].kind = "waiting"
         /\ \A e \in inbox \cup syncing : DOMAIN b.reply \cap DOMAIN e.reply = {}
    BY DEF CallInv
  <1>12. FenceInv' BY <1>1 DEF FenceInv
  <1>13. CallInv'
    <2>1. \A e \in inbox' \cup syncing' : \A c \in DOMAIN e.reply : c \in Reqs /\ reply'[c].kind = "waiting"
      BY <1>1, <1>9, <1>11
    <2>2. \A e \in inbox', f \in syncing' : DOMAIN e.reply \cap DOMAIN f.reply = {}
      BY <1>1, <1>9, <1>11 DEF CallInv
    <2>3. \A p \in Pens : reply'[p].kind = "committed" => \A d \in disk' : p \notin d.pen
      BY <1>1, <1>3, <1>5 DEF CallInv, StoreInv
    <2> QED BY <1>1, <2>1, <2>2, <2>3 DEF CallInv
  <1>14. \A u \in unsynced' : u \in unsynced \/ u = b BY <1>1
  <1>15. \A x \in Nat : x < next_seq /\ Boundary(x) => Boundary(x)'
    BY <1>4, <1>6, <1>14, Numbers DEF Boundary
  <1>16. \A u \in unsynced : u.upto < next_seq BY DEF SeqInv
  <1>17. BatchInv'
    <2>1. Boundary(applied)' BY <1>1, <1>4, <1>6, <1>14, <1>16, Numbers DEF Boundary
    <2> QED BY <1>1, <1>4, <1>6, <2>1 DEF BatchInv
  <1>18. SeqInv'
    <2>1. durable' < next_seq' /\ Boundary(durable)'
      BY <1>1, <1>4, <1>6, <1>15, Numbers DEF SeqInv
    <2>2. \A h \in db'.hooks : h.seq < next_seq'
      BY <1>1, <1>4, <1>6, <1>10, Numbers DEF SeqInv
    <2>3. \A u \in unsynced' : u.upto < next_seq'
      BY <1>1, <1>4, <1>6, <1>14, <1>16, Numbers
    <2>4. \A e \in inbox \cup syncing : e.upto < next_seq' /\ Boundary(e.upto)'
      BY <1>1, <1>4, <1>6, <1>15, Numbers DEF SeqInv
    <2>5. b.upto < next_seq' /\ Boundary(b.upto)'
      BY <1>1, <1>4, <1>6, <1>14, <1>16, Numbers DEF Boundary
    <2>6. \A e \in inbox' \cup syncing' : e.upto < next_seq' /\ Boundary(e.upto)'
      BY <1>1, <1>9, <2>4, <2>5
    <2>7. \A m \in resume' : m.seq < next_seq' /\ Boundary(m.seq)'
      BY <1>1, <1>4, <1>6, <1>15, Numbers DEF SeqInv
    <2> QED BY <2>1, <2>2, <2>3, <2>6, <2>7 DEF SeqInv, Boundary
  <1>21. /\ \A e \in inbox \cup syncing : e.upto < next_seq /\ e.upto \in Nat
         /\ \A m \in resume : m.seq < next_seq /\ m.seq \in Nat
    BY Numbers DEF SeqInv
  <1>19. EntryInv'
    <2>1. \A c \in Commits(b) : Stored(c, db)'
      BY <1>3, <1>5, <1>6 DEF Stored, HookIds
    <2>2. ~Doomed' => \A e \in inbox' \cup syncing' : \A c \in Commits(e) :
             Stored(c, db)' /\ (e.upto <= durable' => Safe(c)')
      <3> SUFFICES ASSUME ~Doomed, NEW e \in inbox' \cup syncing', NEW c \in Commits(e)
                   PROVE  Stored(c, db)' /\ (e.upto <= durable => Safe(c)')
        BY <1>1 DEF Doomed
      <3>1. CASE e \in inbox \cup syncing
        <4>1. Stored(c, db) /\ (e.upto <= durable => Safe(c)) BY <3>1 DEF EntryInv
        <4> QED BY <4>1, <1>8
      <3>2. CASE e = Entry(b)
        <4>1. ~(e.upto <= durable) BY <3>2, <1>4, <1>6, <1>9 DEF SeqInv
        <4> QED BY <3>2, <4>1, <2>1, <1>9
      <3> QED BY <1>1, <3>1, <3>2
    <2>3. \A e \in syncing' : \A c \in Commits(e) : \A d \in since' : Stored(c, d)'
      <3>1. \A e \in syncing : \A c \in Commits(e) : \A d \in since : Stored(c, d)
        BY DEF EntryInv
      <3> QED BY <1>1, <1>8, <3>1
    <2>4. \A e \in inbox' \cup syncing' : \A c \in Commits(e) : \A h \in db'.hooks :
             h.id = c => h.seq <= e.upto
      <3> SUFFICES ASSUME NEW e \in inbox' \cup syncing', NEW c \in Commits(e), NEW h \in db'.hooks, h.id = c
                   PROVE  h.seq <= e.upto
        OBVIOUS
      <3>1. CASE e = Entry(b)
        <4>1. CASE h \in b.hooks BY <4>1, <3>1, <1>6, <1>9
        <4>2. CASE h \in db.hooks BY <4>2, <3>1, <1>4, <1>6, <1>9, Numbers
            DEF SeqInv
        <4> QED BY <4>1, <4>2, <1>10
      <3>2. CASE e \in inbox \cup syncing
        <4>1. h \notin b.hooks BY <3>2, <1>6, <1>11 DEF Commits
        <4> QED BY <4>1, <3>2, <1>10 DEF EntryInv
      <3> QED BY <1>1, <3>1, <3>2
    <2>5. \A e \in inbox', f \in syncing' : Commits(e) = {} \/ e.upto > f.upto
      <3>1. \A f \in syncing : b.upto > f.upto BY <1>4, <1>6, <1>21
      <3>2. \A e \in inbox, f \in syncing : Commits(e) = {} \/ e.upto > f.upto BY Zenon
          DEF EntryInv
      <3> QED BY <3>1, <3>2, <1>1, <1>9, Zenon
    <2>6. \A e \in inbox', m \in resume' : m.first => Commits(e) = {} \/ e.upto > m.seq
      <3>1. \A m \in resume : b.upto > m.seq BY <1>4, <1>6, <1>21
      <3>2. \A e \in inbox, m \in resume : m.first => Commits(e) = {} \/ e.upto > m.seq
        BY Zenon DEF EntryInv
      <3> QED BY <3>1, <3>2, <1>1, <1>9, Zenon
    <2> QED BY <2>2, <2>3, <2>4, <2>5, <2>6, Zenon DEF EntryInv, Commits
  <1>20. AckInv'
    <2> SUFFICES ASSUME NEW c \in Calls, reply[c].kind = "committed"
                 PROVE  Safe(c)' /\ \A h \in db'.hooks : h.id = c => h.seq <= durable
      BY <1>1 DEF AckInv
    <2>1. Safe(c) /\ \A h \in db.hooks : h.id = c => h.seq <= durable BY DEF AckInv
    <2>2. \A h \in b.hooks : h.id # c BY <1>6, <1>11
    <2> QED BY <2>1, <2>2, <1>8, <1>10
  <1> QED BY <1>8, <1>12, <1>13, <1>17, <1>18, <1>19, <1>20, PipelineWhole

-----------------------------------------------------------------------------
(* Redrives, deliveries, releases, expired keys *)

LEMMA RedriveSteps ==
  ASSUME TypeOK, PipelineInv, NEW x \in Redrives, Redrive(x)
  PROVE  PipelineInv'
  <1> DEFINE d == Redriven(x)
             H == {[id |-> x, seq |-> next_seq, at |-> Now]}
  <1>1. /\ batch = {} /\ next_seq' = next_seq + 1
        /\ \/ WriteSync(d) /\ MarkDurable(next_seq, Now)
           \/ WriteSync(d) /\ UNCHANGED durable
           \/ UNCHANGED <<db, disk, since, durable>>
        /\ UNCHANGED <<reply, applied, unsynced, fenced, batch, syncerVars, delivered>>
    BY ZenonT(40) DEF Redrive, Redriven, Ready, ErrorOf, storeVars, callVars, dispatchVars
  <1>2. d.hooks = db.hooks \cup H /\ d.pen \subseteq db.pen BY RedrivenType
  <1>3. next_seq \in Nat /\ durable \in Nat /\ durable < next_seq BY Numbers, PipelineParts DEF SeqInv
  <1>4. next_seq' \in Nat /\ next_seq' >= next_seq BY <1>1, <1>3
  <1>5. \A h \in H : h.id \notin Reqs /\ h.seq \in Nat /\ next_seq <= h.seq /\ h.seq < next_seq'
    BY <1>1, <1>3, IdsAssumption DEF Calls
  <1>6. \A h \in H : h.id \notin Pens BY IdsAssumption DEF Calls
  <1> HIDE DEF d, H
  <1>7. \A q \in Pens : reply'[q].kind = "committed" =>
           /\ q \notin d.pen
           /\ \/ reply[q].kind = "committed" /\ \A h \in H : h.id # q
              \/ durable' = next_seq' - 1 /\ \E h \in H : h.id = q
    BY <1>1, <1>2, <1>6, CommittedInStore
  <1>8. MarkDurable(next_seq, Now) => durable' = next_seq' - 1
    BY <1>1, <1>3 DEF MarkDurable, Max2
  <1>9. CASE WriteSync(d) /\ (MarkDurable(next_seq, Now) \/ UNCHANGED durable)
    BY <1>1, <1>2, <1>4, <1>5, <1>7, <1>8, <1>9, SyncedSteps, Zenon
  <1>10. CASE UNCHANGED <<db, disk, since, durable>>
    BY <1>1, <1>4, <1>10, SpentSteps
  <1> QED BY <1>1, <1>9, <1>10

LEMMA DeliverSteps ==
  ASSUME TypeOK, PipelineInv, NEW h \in db.hooks, Deliver(h)
  PROVE  PipelineInv'
  <1> DEFINE d == [db EXCEPT !.hooks = @ \ {h}]
  <1>1. Write(d) /\ delivered' = delivered \cup {h.id} BY DEF Deliver
  <1>2. UNCHANGED <<reply, durable, applied, next_seq, unsynced, fenced, batch, syncerVars>>
    BY DEF Deliver, callVars, markVars, writerVars
  <1>3. d.hooks = db.hooks \ {h} /\ d.pen = db.pen BY DEF TypeOK, StoreType, Contents
  <1> HIDE DEF d
  <1>4. Keeps(d) BY <1>1, <1>3 DEF Keeps, Stored, HookIds
  <1> QED BY <1>1, <1>2, <1>3, <1>4, PlainSteps

LEMMA ReleaseDuplicateSteps ==
  ASSUME Counts, TypeOK, PipelineInv, NEW p \in Pens, ReleaseDuplicate(p)
  PROVE  PipelineInv'
  <1> DEFINE b == Build(<<p>>, Begun, FALSE)
             d == Released(p, db)
  <1>1. /\ batch = {} /\ b.hooks = {}
        /\ \/ WriteSync(d) /\ reply' \in {Answer(b.reply), reply}
           \/ UNCHANGED <<db, disk, since, reply>>
        /\ UNCHANGED <<durable, applied, next_seq, unsynced, fenced, batch, syncerVars, delivered>>
    BY Zenon DEF ReleaseDuplicate, Ready, ErrorOf, storeVars, markVars, dispatchVars
  <1>2. BuiltFor(b, {p}) BY PenFacts, ZenonT(40)
  <1>3. d.hooks = db.hooks \cup {} /\ d.pen \subseteq db.pen
    BY ReleasedType, Zenon DEF TypeOK, StoreType
  <1>4. Commits(b) = {} /\ DOMAIN b.reply = {p} BY <1>1, <1>2, ZenonT(40) DEF BuiltFor
  <1>5. next_seq \in Nat /\ next_seq' = next_seq BY <1>1, Numbers, Zenon
  <1> HIDE DEF b, d
  <1>6. CASE WriteSync(d) /\ reply' \in {Answer(b.reply), reply}
    <2>1. \A r \in Reqs : reply'[r] = reply[r]
      BY <1>4, <1>6, IdsAssumption DEF Answer, Calls
    <2>2. \A q \in Pens : reply'[q].kind = "committed" => reply[q].kind = "committed"
      BY <1>4, <1>6 DEF Answer, Calls, Commits
    <2>3. \A q \in Pens : reply'[q].kind = "committed" => q \notin d.pen
      BY <2>2, <1>3, CommittedInStore
    <2> DEFINE H == {}
    <2>4. d.hooks = db.hooks \cup H BY <1>3
    <2>5. \A q \in Pens : reply'[q].kind = "committed" =>
             /\ q \notin d.pen
             /\ \/ reply[q].kind = "committed" /\ \A h \in H : h.id # q
                \/ durable' = next_seq' - 1 /\ \E h \in H : h.id = q
      BY <2>2, <2>3
    <2>6. \A h \in H : h.id \notin Reqs /\ h.seq \in Nat /\ next_seq <= h.seq /\ h.seq < next_seq' OBVIOUS
    <2>7. next_seq' \in Nat /\ next_seq' >= next_seq BY <1>5
    <2> HIDE DEF H
    <2>8. durable' = durable \/ durable' = next_seq' - 1 BY <1>1
    <2> QED BY <1>1, <1>3, <1>6, <2>1, <2>4, <2>5, <2>6, <2>7, <2>8, SyncedSteps, Zenon
  <1>7. CASE UNCHANGED <<db, disk, since, reply>>
    <2>1. next_seq' \in Nat /\ next_seq' >= next_seq BY <1>5
    <2> QED BY <1>1, <1>7, <2>1, SpentSteps
  <1> QED BY <1>1, <1>6, <1>7

LEMMA ReleaseFreshSteps ==
  ASSUME Counts, TypeOK, PipelineInv, NEW p \in Pens, ReleaseFresh(p)
  PROVE  PipelineInv'
  <1> DEFINE b == Build(<<p>>, Begun, FALSE)
             d == Released(p, Applied(db, b))
  <1>1. /\ batch = {} /\ b.hooks # {} /\ p \in db.pen /\ next_seq' = b.upto + 1
        /\ \/ WriteSync(d) /\ MarkDurable(b.upto, b.at) /\ reply' = Answer(b.reply)
           \/ WriteSync(d) /\ UNCHANGED <<reply, durable>>
           \/ UNCHANGED <<db, disk, since, reply, durable>>
        /\ UNCHANGED <<applied, unsynced, fenced, batch, syncerVars, delivered>>
    BY Zenon DEF ReleaseFresh, Ready, ErrorOf, storeVars, dispatchVars
  <1>2. BuiltFor(b, {p}) BY PenFacts, ZenonT(40)
  <1>3. /\ IsBatch(b) /\ DOMAIN b.reply = {p} /\ b.upto >= next_seq
        /\ \A h \in b.hooks : h.id = p /\ next_seq <= h.seq /\ h.seq <= b.upto
        /\ \A c \in Commits(b) : \E h \in b.hooks : h.id = c
    BY <1>1, <1>2, Zenon DEF BuiltFor
  <1>4. d.hooks = db.hooks \cup b.hooks /\ d.pen = db.pen \ {p}
    <2>1. db \in Contents BY Zenon DEF TypeOK, StoreType
    <2>2. /\ Applied(db, b) \in Contents
          /\ Applied(db, b).hooks = db.hooks \cup b.hooks /\ Applied(db, b).pen = db.pen
      BY <2>1, <1>3, AppliedType, ZenonT(40)
    <2> QED BY <2>2, ReleasedType, ZenonT(40)
  <1>5. b.upto \in Nat /\ \A h \in b.hooks : h.seq \in Nat BY <1>3, Zenon DEF IsBatch, IsEntry, Hook
  <1> HIDE DEF b, d
  <1>6. next_seq \in Nat /\ durable \in Nat /\ durable < next_seq BY Numbers, PipelineParts, Zenon
      DEF SeqInv
  <1>7. next_seq' \in Nat /\ next_seq' >= next_seq
    <2>1. next_seq' = b.upto + 1 /\ b.upto >= next_seq BY <1>1, <1>3, Zenon
    <2> QED BY <2>1, <1>5, <1>6
  <1>8. \A h \in b.hooks : h.id \notin Reqs /\ h.seq \in Nat /\ next_seq <= h.seq /\ h.seq < next_seq'
    <2>1. next_seq' = b.upto + 1 BY <1>1, Zenon
    <2>2. \A h \in b.hooks : next_seq <= h.seq /\ h.seq <= b.upto BY <1>3, Zenon
    <2>3. \A h \in b.hooks : h.seq < next_seq' BY <2>1, <2>2, <1>5
    <2>4. \A h \in b.hooks : h.id \notin Reqs BY <1>3, IdsAssumption
    <2> QED BY <2>2, <2>3, <2>4, <1>5, Zenon
  <1>9. p \notin Reqs /\ p \in Calls BY IdsAssumption DEF Calls
  <1>10. CASE WriteSync(d) /\ MarkDurable(b.upto, b.at) /\ reply' = Answer(b.reply)
    <2>1. durable' = next_seq' - 1 BY <1>1, <1>3, <1>5, <1>6, <1>10 DEF MarkDurable, Max2
    <2>2. \A c \in Calls \ {p} : reply'[c] = reply[c] BY <1>3, <1>10 DEF Answer
    <2>3. reply'[p].kind = "committed" => \E h \in b.hooks : h.id = p
      BY <1>3, <1>9, <1>10 DEF Answer, Commits
    <2>4. \A q \in Pens : reply'[q].kind = "committed" =>
             /\ q \notin d.pen
             /\ \/ reply[q].kind = "committed" /\ \A h \in b.hooks : h.id # q
                \/ durable' = next_seq' - 1 /\ \E h \in b.hooks : h.id = q
      <3> SUFFICES ASSUME NEW q \in Pens, reply'[q].kind = "committed"
                   PROVE  /\ q \notin d.pen
                          /\ \/ reply[q].kind = "committed" /\ \A h \in b.hooks : h.id # q
                             \/ durable' = next_seq' - 1 /\ \E h \in b.hooks : h.id = q
        OBVIOUS
      <3>1. CASE q = p BY <3>1, <2>1, <2>3, <1>4
      <3>2. CASE q # p
        <4>1. reply[q].kind = "committed" BY <3>2, <2>2 DEF Calls
        <4>2. q \notin db.pen BY <4>1, CommittedInStore
        <4> QED BY <3>2, <4>1, <4>2, <1>3, <1>4
      <3> QED BY <3>1, <3>2
    <2>5. \A r \in Reqs : reply'[r] = reply[r] BY <2>2, <1>9 DEF Calls
    <2>6. d.pen \subseteq db.pen BY <1>4
    <2> QED BY <1>1, <1>4, <1>7, <1>8, <1>10, <2>1, <2>4, <2>5, <2>6, SyncedSteps, ZenonT(40)
  <1>11. CASE WriteSync(d) /\ UNCHANGED <<reply, durable>>
    <2>1. \A q \in Pens : reply'[q].kind = "committed" =>
             /\ q \notin d.pen
             /\ \/ reply[q].kind = "committed" /\ \A h \in b.hooks : h.id # q
                \/ durable' = next_seq' - 1 /\ \E h \in b.hooks : h.id = q
      BY <1>1, <1>3, <1>4, <1>11, CommittedInStore
    <2>2. d.pen \subseteq db.pen BY <1>4
    <2> QED BY <1>1, <1>4, <1>7, <1>8, <1>11, <2>1, <2>2, SyncedSteps, ZenonT(40)
  <1>12. CASE UNCHANGED <<db, disk, since, reply, durable>>
    BY <1>1, <1>7, <1>12, SpentSteps, ZenonT(40)
  <1> QED BY <1>1, <1>10, <1>11, <1>12

LEMMA ExpireSteps ==
  ASSUME Counts, TypeOK, PipelineInv, ExpireDedupe
  PROVE  PipelineInv'
  <1>1. PICK d \in Contents : Write(d) /\ d.hooks = db.hooks /\ d.pen = db.pen BY ExpireFacts
  <1>2. UNCHANGED <<reply, durable, applied, next_seq, unsynced, fenced, batch, syncerVars, delivered>>
    BY ExpireFacts DEF callVars, markVars, dispatchVars
  <1>3. Keeps(d) BY <1>1, <1>2 DEF Keeps, Stored, HookIds
  <1> QED BY <1>1, <1>2, <1>3, PlainSteps, ZenonT(40)

-----------------------------------------------------------------------------
(* The syncer *)

LEMMA SyncRefuseSteps ==
  ASSUME TypeOK, PipelineInv, SyncRefuse
  PROVE  PipelineInv'
  <1> StoreInv /\ FenceInv /\ CallInv /\ BatchInv /\ SeqInv /\ EntryInv /\ AckInv BY PipelineParts
  <1>1. /\ stalled /\ syncing = {} /\ reply' = RefuseAll(inbox) /\ inbox' = {}
        /\ resume' = {[m EXCEPT !.first = TRUE] : m \in resume}
        /\ UNCHANGED <<db, disk, since, durable, applied, next_seq, unsynced, fenced, batch, syncing,
                       stalled, failed, delivered>>
    BY DEF SyncRefuse, Takes, storeVars, markVars, writerVars, dispatchVars
  <1>2. \A n \in resume' : \E m \in resume : n.seq = m.seq
    BY <1>1 DEF TypeOK, SyncerType
  <1>3. \A c \in Calls : reply'[c].kind = "committed" => reply[c].kind = "committed"
    BY <1>1 DEF RefuseAll, State
  <1>4. \A c \in Calls : (\A e \in inbox : c \notin DOMAIN e.reply) => reply'[c] = reply[c]
    BY <1>1 DEF RefuseAll
  <1>5. StoreInv' BY <1>1 DEF StoreInv
  <1>6. FenceInv' BY <1>1 DEF FenceInv
  <1>7. CallInv'
    <2>1. \A b \in batch : \A c \in DOMAIN b.reply :
             c \in Reqs /\ reply[c].kind = "waiting" /\ \A e \in inbox : c \notin DOMAIN e.reply
      BY DEF CallInv
    <2>2. \A b \in batch : \A c \in DOMAIN b.reply : c \in Reqs /\ reply'[c].kind = "waiting"
      BY <2>1, <1>4 DEF Calls
    <2>3. \A p \in Pens : reply'[p].kind = "committed" => \A d \in disk : p \notin d.pen
      BY <1>3 DEF CallInv, Calls
    <2> QED BY <1>1, <2>2, <2>3 DEF CallInv
  <1>8. BatchInv' BY <1>1, BatchFrame
  <1>9. SeqInv' BY <1>1, <1>2 DEF SeqInv, Boundary
  <1>10. EntryInv' BY <1>1 DEF EntryInv
  <1>11. AckInv' BY <1>1, <1>3 DEF AckInv, Safe, HookIds
  <1> QED BY <1>5, <1>6, <1>7, <1>8, <1>9, <1>10, <1>11, PipelineWhole

(* The answers to the callers of the entries `S`: each is an entry's own. *)
LEMMA Answers ==
  ASSUME PipelineInv, NEW S \in SUBSET (inbox \cup syncing), reply' = AnswerAll(S)
  PROVE  /\ \A c \in Calls : reply'[c].kind = "committed" =>
               reply[c].kind = "committed" \/ \E e \in S : c \in Commits(e)
         /\ \A c \in Calls : (\A e \in S : c \notin DOMAIN e.reply) => reply'[c] = reply[c]
         /\ \A p \in Pens : reply'[p] = reply[p]
  <1>1. \A c \in Calls : \/ \E e \in S : c \in DOMAIN e.reply /\ reply'[c] = e.reply[c]
                         \/ (\A e \in S : c \notin DOMAIN e.reply) /\ reply'[c] = reply[c]
    BY DEF AnswerAll
  <1>2. \A p \in Pens : \A e \in S : p \notin DOMAIN e.reply
    BY IdsAssumption, PipelineParts DEF CallInv
  <1>3. \A p \in Pens : p \in Calls BY DEF Calls
  <1> QED BY <1>1, <1>2, <1>3, Zenon DEF Commits

LEMMA SyncCoveredSteps ==
  ASSUME TypeOK, PipelineInv, SyncCovered
  PROVE  PipelineInv'
  <1> StoreInv /\ FenceInv /\ CallInv /\ BatchInv /\ SeqInv /\ EntryInv /\ AckInv BY PipelineParts
  <1>1. /\ ~stalled /\ syncing = {} /\ reply' = AnswerAll(inbox) /\ inbox' = {}
        /\ \A e \in inbox : e.upto <= durable
        /\ UNCHANGED <<db, disk, since, durable, applied, next_seq, unsynced, fenced, batch, resume,
                       syncing, stalled, failed, delivered>>
    BY DEF SyncCovered, Takes, storeVars, markVars, writerVars, dispatchVars
  <1>2. /\ \A c \in Calls : reply'[c].kind = "committed" =>
               reply[c].kind = "committed" \/ \E e \in inbox : c \in Commits(e)
        /\ \A c \in Calls : (\A e \in inbox : c \notin DOMAIN e.reply) => reply'[c] = reply[c]
        /\ \A p \in Pens : reply'[p] = reply[p]
    BY <1>1, Answers
  <1>3. StoreInv' /\ FenceInv' BY <1>1 DEF StoreInv, FenceInv
  <1>4. CallInv'
    <2>1. \A b \in batch : \A c \in DOMAIN b.reply :
             c \in Reqs /\ reply[c].kind = "waiting" /\ \A e \in inbox : c \notin DOMAIN e.reply
      BY DEF CallInv
    <2>2. \A b \in batch : \A c \in DOMAIN b.reply : c \in Reqs /\ reply'[c].kind = "waiting"
      BY <2>1, <1>2 DEF Calls
    <2>3. \A p \in Pens : reply'[p].kind = "committed" => \A d \in disk : p \notin d.pen
      BY <1>2 DEF CallInv
    <2> QED BY <1>1, <2>2, <2>3 DEF CallInv
  <1>5. BatchInv' BY <1>1, BatchFrame
  <1>6. SeqInv' BY <1>1 DEF SeqInv, Boundary
  <1>7. EntryInv' BY <1>1 DEF EntryInv
  <1>8. AckInv'
    <2> SUFFICES ASSUME NEW c \in Calls, reply'[c].kind = "committed"
                 PROVE  Safe(c) /\ \A h \in db.hooks : h.id = c => h.seq <= durable
      BY <1>1 DEF AckInv, Safe, HookIds
    <2>1. CASE reply[c].kind = "committed" BY <2>1 DEF AckInv
    <2>2. ASSUME NEW e \in inbox, c \in Commits(e)
          PROVE  Safe(c) /\ \A h \in db.hooks : h.id = c => h.seq <= durable
      <3>1. ~Doomed BY <1>1 DEF Doomed
      <3>2. Safe(c) BY <1>1, <2>2, <3>1 DEF EntryInv
      <3>3. \A h \in db.hooks : h.id = c => h.seq <= e.upto BY <2>2 DEF EntryInv
      <3> QED BY <1>1, <3>2, <3>3, Numbers
    <2> QED BY <1>2, <2>1, <2>2
  <1> QED BY <1>3, <1>4, <1>5, <1>6, <1>7, <1>8, PipelineWhole

LEMMA SyncBeginSteps ==
  ASSUME TypeOK, PipelineInv, SyncBegin
  PROVE  PipelineInv'
  <1> StoreInv /\ FenceInv /\ CallInv /\ BatchInv /\ SeqInv /\ EntryInv /\ AckInv BY PipelineParts
  <1>1. /\ ~stalled /\ syncing = {} /\ inbox # {} /\ inbox' = {} /\ syncing' = inbox /\ since' = {db}
        /\ UNCHANGED <<db, disk, reply, durable, applied, next_seq, unsynced, fenced, batch, resume,
                       stalled, failed, delivered>>
    BY DEF SyncBegin, SyncWalBegin, Takes, callVars, markVars, writerVars, dispatchVars
  <1>2. StoreInv' BY <1>1 DEF StoreInv
  <1>3. FenceInv' BY <1>1 DEF FenceInv
  <1>4. CallInv' BY <1>1 DEF CallInv
  <1>5. BatchInv' BY <1>1, BatchFrame
  <1>6. SeqInv' BY <1>1 DEF SeqInv, Boundary
  <1>7. EntryInv'
    <2>1. ~Doomed BY <1>1 DEF Doomed
    <2>2. \A e \in inbox : \A c \in Commits(e) : Stored(c, db) /\ (e.upto <= durable => Safe(c))
      BY <2>1 DEF EntryInv
    <2>3. \A e \in inbox : \A c \in Commits(e) : \A h \in db.hooks : h.id = c => h.seq <= e.upto
      BY DEF EntryInv
    <2> QED BY <1>1, <2>2, <2>3 DEF EntryInv, Stored, Safe, HookIds, Commits
  <1>8. AckInv' BY <1>1 DEF AckInv, Safe, HookIds
  <1> QED BY <1>2, <1>3, <1>4, <1>5, <1>6, <1>7, <1>8, PipelineWhole
=============================================================================
