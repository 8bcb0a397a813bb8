----------------------------- MODULE QueueTypes -----------------------------
(***************************************************************************)
(* Every action of Queue keeps TypeOK; those that write the redrive cursor *)
(* or rows it stands for keep CursorInv, the syncer and a starting writer  *)
(* keep SeqsInv.                                                           *)
(***************************************************************************)
EXTENDS QueueFacts

(* The provers of a step that names none, in the order they are tried. *)
USE ZenonT(3), SMTT(8), ZenonT(20), Z3T(30), SMTT(30)

-----------------------------------------------------------------------------
(* Redrives, the sweep, the syncer, deliveries and the clock *)

LEMMA RedriveTypes == ASSUME TypeOK, NEW x \in Redrives, Redrive(x) PROVE TypeOK'
  <1>1. /\ next_seq' = next_seq + 1 /\ last_at' = Now
        /\ \/ WriteSync(Redriven(x)) /\ MarkDurable(next_seq, Now) /\ UNCHANGED faults
           \/ ErrorOf(Redriven(x)) /\ UNCHANGED <<durable, durable_at>>
        /\ UNCHANGED <<callVars, applied, unsynced, fenced, recent, batch, syncerVars, mono, skew,
                       gate, sweep, dispatchVars>>
    BY DEF Redrive, Redriven
  <1>2. Redriven(x) \in Contents /\ Now \in Nat BY RedrivenType, NowType, Zenon
  <1>3. StoreType' /\ faults' \in Nat BY <1>1, <1>2, WriteType, ErrorType DEF TypeOK, EnvType
  <1>4. WriterType' BY <1>1, <1>2 DEF TypeOK, WriterType
  <1>5. MarkType' BY <1>1, <1>2, MarkedType DEF TypeOK, MarkType, WriterType
  <1>6. EnvType' BY <1>1, <1>3, EnvKept, Zenon
  <1> QED BY <1>1, <1>3, <1>4, <1>5, <1>6, TypeFrame, Zenon DEF TypeOK

LEMMA SweepTypes == ASSUME TypeOK, SweepScan \/ ExpireRefused PROVE TypeOK'
  <1>1. sweep' \subseteq Keys \X Nat
    BY DEF TypeOK, StoreType, Contents, DispatchType, SweepScan, ExpireRefused
  <1>2. faults' \in Nat
    <2>1. faults' \in {faults, faults + 1} BY Zenon DEF envVars, SweepScan, ExpireRefused, Fault
    <2> QED BY <2>1 DEF TypeOK, EnvType
  <1>3. UNCHANGED <<storeVars, callVars, markVars, writerVars, syncerVars, mono, skew, gate, dispatchVars>>
    BY Zenon DEF SweepScan, ExpireRefused, envVars
  <1>4. EnvType' BY <1>2, <1>3, EnvKept, Zenon
  <1>5. DispatchType' BY <1>1, <1>3 DEF TypeOK, DispatchType, dispatchVars
  <1> QED BY <1>3, <1>4, <1>5, TypeFrame, Zenon DEF TypeOK

LEMMA SyncTypes == ASSUME TypeOK, SyncRefuse \/ SyncCovered \/ SyncBegin PROVE TypeOK'
  <1>1. UNCHANGED <<pre, markVars, writerVars, stalled, failed, envVars, sweep, dispatchVars>>
    BY DEF SyncRefuse, SyncCovered, SyncBegin, callVars
  <1>2. StoreType'
    BY DEF SyncRefuse, SyncCovered, SyncBegin, SyncWalBegin, TypeOK, StoreType, storeVars
  <1>3. CallType'
    <2>1. CallType /\ \A e \in inbox : IsEntry(e) BY DEF TypeOK, SyncerType
    <2>2. reply' \in {RefuseAll(inbox), AnswerAll(inbox), reply}
      BY DEF SyncRefuse, SyncCovered, SyncBegin, callVars
    <2>3. reply' \in [Calls -> Reply] BY <2>1, <2>2, ReplyType DEF CallType
    <2> QED BY <1>1, <2>1, <2>3 DEF CallType
  <1>4. inbox' = {} /\ syncing' \subseteq inbox \cup syncing BY DEF SyncRefuse, SyncCovered, SyncBegin
  <1>5. resume' \subseteq [seq : Nat, at : Nat, first : BOOLEAN]
    <2>1. resume \subseteq [seq : Nat, at : Nat, first : BOOLEAN] BY DEF TypeOK, SyncerType
    <2>2. CASE SyncRefuse
      <3>1. resume' = {[m EXCEPT !.first = TRUE] : m \in resume} BY <2>2 DEF SyncRefuse
      <3>2. \A m \in resume : [m EXCEPT !.first = TRUE] \in [seq : Nat, at : Nat, first : BOOLEAN]
        BY <2>1, Zenon
      <3> QED BY <3>1, <3>2
    <2>3. CASE SyncCovered \/ SyncBegin BY <2>1, <2>3 DEF SyncCovered, SyncBegin
    <2> QED BY <2>2, <2>3
  <1>6. SyncerType' BY <1>1, <1>4, <1>5 DEF TypeOK, SyncerType
  <1> QED BY <1>1, <1>2, <1>3, <1>6, TypeFrame, Zenon DEF TypeOK

LEMMA SyncedTypes == ASSUME TypeOK, SyncOk \/ SyncError \/ Resume PROVE TypeOK'
  <1>1. UNCHANGED <<pre, applied, writerVars, inbox, mono, skew, gate, sweep, dispatchVars>>
    BY DEF SyncOk, SyncError, Resume, callVars, markVars, envVars
  <1>2. faults' \in Nat BY DEF SyncOk, SyncError, Resume, envVars, Fault, TypeOK, EnvType
  <1>3. StoreType'
    BY DEF SyncOk, SyncError, Resume, SyncWalOk, SyncWalError, TypeOK, StoreType, storeVars
  <1>4. CallType'
    <2>1. CallType /\ \A e \in syncing : IsEntry(e) BY DEF TypeOK, SyncerType
    <2>2. reply' \in {RefuseAll(syncing), AnswerAll(syncing), reply}
      BY DEF SyncOk, SyncError, Resume, callVars
    <2>3. reply' \in [Calls -> Reply] BY <2>1, <2>2, ReplyType DEF CallType
    <2> QED BY <1>1, <2>1, <2>3 DEF CallType
  <1>5. MarkType'
    <2>1. CASE SyncOk
      <3>1. PICK e \in syncing, f \in syncing : MarkDurable(e.upto, f.at) BY <2>1 DEF SyncOk
      <3>2. e.upto \in Nat /\ f.at \in Nat BY DEF TypeOK, SyncerType, IsEntry
      <3> QED BY <1>1, <3>1, <3>2, MarkedType DEF TypeOK, MarkType
    <2>2. CASE SyncError BY <2>2 DEF SyncError, markVars, TypeOK, MarkType
    <2>3. CASE Resume
      <3>1. PICK m \in resume : MarkDurable(m.seq, m.at) BY <2>3 DEF Resume
      <3>2. m.seq \in Nat /\ m.at \in Nat BY DEF TypeOK, SyncerType
      <3> QED BY <1>1, <3>1, <3>2, MarkedType DEF TypeOK, MarkType
    <2> QED BY <2>1, <2>2, <2>3
  <1>6. /\ syncing' \subseteq syncing /\ resume' \subseteq resume
        /\ stalled' \in BOOLEAN /\ failed' \in BOOLEAN
    BY Zenon DEF SyncOk, SyncError, Resume, TypeOK, SyncerType
  <1>7. SyncerType' BY <1>1, <1>6 DEF TypeOK, SyncerType
  <1>8. EnvType' BY <1>1, <1>2, EnvKept, Zenon
  <1> QED BY <1>1, <1>3, <1>4, <1>5, <1>7, <1>8, TypeFrame, Zenon DEF TypeOK

LEMMA DispatchTypes ==
  ASSUME TypeOK, ScanBegin \/ ScanClaim \/ \E h \in db.hooks : Deliver(h)
  PROVE  TypeOK'
  <1>1. UNCHANGED <<callVars, markVars, writerVars, syncerVars, envVars, sweep>>
    BY Zenon DEF ScanBegin, ScanClaim, Deliver
  <1>2. StoreType' /\ delivered' \subseteq Ids
    <2>1. CASE ScanBegin \/ ScanClaim
      BY <2>1, Zenon DEF ScanBegin, ScanClaim, storeVars, TypeOK, StoreType, DispatchType
    <2>2. CASE \E h \in db.hooks : Deliver(h)
      <3>1. PICK h \in db.hooks : Deliver(h) BY <2>2
      <3> DEFINE d == [db EXCEPT !.hooks = @ \ {h}]
      <3>2. d \in Contents BY DEF TypeOK, StoreType, Contents
      <3>3. Write(d) BY <3>1 DEF Deliver
      <3>4. h.id \in Ids BY DEF TypeOK, StoreType, Contents, Hook
      <3>5. StoreType' BY <3>2, <3>3, WriteType DEF TypeOK
      <3>6. delivered' \subseteq Ids BY <3>1, <3>4 DEF Deliver, TypeOK, DispatchType
      <3> QED BY <3>5, <3>6
    <2> QED BY <2>1, <2>2
  <1>3. scan' \in Int \cup {None}
    <2>1. Visible(Wall) \in Int BY NowType DEF Visible, TypeOK, MarkType
    <2>2. scan' \in {Visible(Wall), None, scan} BY Zenon DEF ScanBegin, ScanClaim, Deliver
    <2> QED BY <2>1, <2>2 DEF TypeOK, DispatchType
  <1>4. claimed' \subseteq Ids
    <2>1. \A h \in db.hooks : h.id \in Ids BY DEF TypeOK, StoreType, Contents, Hook
    <2>2. CASE ScanClaim BY <2>1, <2>2, Zenon DEF ScanClaim, TypeOK, DispatchType
    <2>3. CASE ScanBegin \/ \E h \in db.hooks : Deliver(h)
      BY <2>3, Zenon DEF ScanBegin, Deliver, TypeOK, DispatchType
    <2> QED BY <2>2, <2>3
  <1>5. DispatchType'
    <2>1. sweep' \subseteq Keys \X Nat BY <1>1 DEF TypeOK, DispatchType
    <2> QED BY <1>2, <1>3, <1>4, <2>1, Zenon DEF DispatchType
  <1> QED BY <1>1, <1>2, <1>5, TypeFrame, Zenon DEF TypeOK

LEMMA ClockTypes == ASSUME TypeOK, Tick \/ StepBack \/ GateMoved PROVE TypeOK'
  <1>1. UNCHANGED <<storeVars, callVars, markVars, writerVars, syncerVars, sweep, dispatchVars>>
    BY DEF Tick, StepBack, GateMoved
  <1>2. gate' \in BOOLEAN BY Zenon DEF Tick, StepBack, GateMoved, TypeOK, EnvType
  <1>3. mono' \in Nat /\ skew' \in 0..mono' /\ faults' \in Nat
    <2>1. mono \in Nat /\ skew \in 0..mono /\ faults \in Nat BY DEF TypeOK, EnvType
    <2>2. CASE Tick BY <2>1, <2>2 DEF Tick
    <2>3. CASE StepBack BY <2>1, <2>3 DEF StepBack, Fault
    <2>4. CASE GateMoved BY <2>1, <2>4 DEF GateMoved, Fault
    <2> QED BY <2>2, <2>3, <2>4
  <1>4. EnvType' BY <1>2, <1>3, Zenon DEF EnvType
  <1> QED BY <1>1, <1>4, TypeFrame, Zenon DEF TypeOK

LEMMA BootTypes == ASSUME TypeOK, Crash \/ WriterRestart PROVE TypeOK'
  <1>1. faults' \in Nat BY DEF Crash, WriterRestart, Fault, TypeOK, EnvType
  <1>2. PICK d \in Contents : Boot(d) /\ db' = d /\ disk' \subseteq Contents /\ since' = {}
    BY DEF Crash, WriterRestart, PowerLoss, TypeOK, StoreType
  <1>3. StoreType' BY <1>2 DEF StoreType
  <1> QED BY <1>1, <1>2, <1>3, BootFacts, Zenon DEF TypeOK, EnvType

LEMMA TypeInit == Init => TypeOK
  <1> SUFFICES ASSUME Init PROVE TypeOK OBVIOUS
  <1>1. State("idle") \in Reply BY DEF State, Reply
  <1>k. NoKeys \in [Keys -> Value] BY AbsentType, Zenon
  <1>s. 0 \in Int /\ 1 \in Nat \ {0} OBVIOUS
  <1>2. EmptyStore \in Contents BY <1>k, <1>s, ZenonT(30) DEF EmptyStore, Contents
  <1>3. StoreType BY <1>2 DEF Init, StoreInit, StoreType
  <1>4. CallType BY <1>1, AbsentType DEF Init, CallType
  <1>a. [cur |-> NoKeys, old |-> NoKeys, gen_at |-> 1, since |-> 1] \in Window BY <1>k DEF Window
  <1>b. next_seq = 1 /\ last_at = 0 /\ durable = 0 /\ applied = 0 /\ durable_at = 1
    BY Zenon DEF Init
  <1>c. mono = 1 /\ skew = 0 /\ faults = 0 BY Zenon DEF Init
  <1>d. recent = [cur |-> NoKeys, old |-> NoKeys, gen_at |-> 1, since |-> 1] BY Zenon DEF Init
  <1>e. /\ gate \in BOOLEAN /\ fenced \in BOOLEAN
        /\ \A b \in unsynced \cup batch : IsBatch(b)
    BY Zenon DEF Init
  <1>5. WriterType
    <2>1. next_seq \in Nat \ {0} /\ last_at \in Nat BY <1>b
    <2> QED BY <1>a, <1>d, <1>e, <2>1, Zenon DEF WriterType
  <1>6. MarkType BY <1>b DEF MarkType
  <1>f. EnvType
    <2>1. mono \in Nat /\ skew \in 0..mono /\ faults \in Nat BY <1>c
    <2> QED BY <1>e, <2>1, Zenon DEF EnvType
  <1>7. SyncerType /\ DispatchType BY Zenon DEF Init, SyncerType, DispatchType
  <1> QED BY <1>3, <1>4, <1>5, <1>6, <1>f, <1>7, Zenon DEF TypeOK

-----------------------------------------------------------------------------
(* The writer's groups *)

LEMMA DuplicatesTypes == ASSUME Counts, TypeOK, NEW g \in Groups, CommitDuplicates(g) PROVE TypeOK'
  <1> DEFINE b == Build(g, Begun, TRUE)
             e == [upto |-> applied, at |-> last_at, reply |-> b.reply]
  <1>1. IsBatch(b) BY GroupFacts, Zenon DEF BuiltFor
  <1>2. reply' = Waiting(CallsOf(g)) \/ reply' = Answer(b.reply) BY Zenon DEF CommitDuplicates
  <1>3. inbox' = inbox \/ inbox' = inbox \cup {e} BY Zenon DEF CommitDuplicates
  <1>4. recent' = Begun /\ gate' = FALSE /\ pre' = Forget(CallsOf(g)) BY Zenon DEF CommitDuplicates
  <1>5. UNCHANGED <<storeVars, markVars, next_seq, last_at, unsynced, fenced, batch, resume,
                    syncing, stalled, failed, mono, skew, faults, sweep, dispatchVars>>
    BY Zenon DEF CommitDuplicates
  <1> HIDE DEF b
  <1>a. applied \in Nat /\ last_at \in Nat /\ CallType BY DEF TypeOK, MarkType, WriterType
  <1>b. IsEntry(b) BY <1>1 DEF IsBatch
  <1>6. IsEntry(e) BY <1>a, <1>b DEF IsEntry
  <1>7. CallType'
    <2>a. Waiting(CallsOf(g)) \in [Calls -> Reply] BY <1>a, ReplyType, Zenon
    <2>b. Answer(b.reply) \in [Calls -> Reply] BY <1>a, <1>b, ReplyType, Zenon
    <2>1. reply' \in [Calls -> Reply] BY <1>2, <2>a, <2>b
    <2>2. pre' \in [Reqs -> [val : Value, at : Nat]] BY <1>4, <1>a, ReplyType, Zenon
    <2> QED BY <2>1, <2>2 DEF CallType
  <1> HIDE DEF e
  <1>8. SyncerType' BY <1>3, <1>5, <1>6 DEF TypeOK, SyncerType
  <1>9. WriterType' BY <1>4, <1>5, WindowType DEF TypeOK, WriterType
  <1>10. EnvType'
    <2>1. faults' \in Nat BY <1>5 DEF TypeOK, EnvType
    <2> QED BY <1>4, <1>5, <2>1, EnvKept, Zenon
  <1> QED BY <1>5, <1>7, <1>8, <1>9, <1>10, TypeFrame, Zenon DEF TypeOK

LEMMA StageTypes == ASSUME Counts, TypeOK, NEW g \in Groups, Stage(g) PROVE TypeOK'
  <1> DEFINE b == Build(g, Begun, TRUE)
  <1>1. IsBatch(b) BY GroupFacts, Zenon DEF BuiltFor
  <1>2. /\ reply' = Waiting(CallsOf(g)) /\ recent' = Begun /\ gate' = FALSE
        /\ pre' = Forget(CallsOf(g)) /\ batch' = {b} /\ applied' = b.upto
    BY Zenon DEF Stage
  <1>3. UNCHANGED <<storeVars, durable, durable_at, next_seq, last_at, unsynced, fenced,
                    syncerVars, mono, skew, faults, sweep, dispatchVars>>
    BY DEF Stage
  <1> HIDE DEF b
  <1>4. CallType' BY <1>2, ReplyType DEF TypeOK, CallType
  <1>5. MarkType' BY <1>1, <1>2, <1>3, Zenon DEF TypeOK, MarkType, IsBatch, IsEntry
  <1>6. WriterType' BY <1>1, <1>2, <1>3, WindowType DEF TypeOK, WriterType
  <1>7. EnvType'
    <2>1. faults' \in Nat BY <1>3 DEF TypeOK, EnvType
    <2> QED BY <1>2, <1>3, <2>1, EnvKept, Zenon
  <1> QED BY <1>3, <1>4, <1>5, <1>6, <1>7, TypeFrame, Zenon DEF TypeOK

LEMMA StagedTypes == ASSUME Counts, TypeOK, StagedOk \/ StagedError PROVE TypeOK'
  <1>1. CASE StagedOk
    <2>1. PICK b \in batch :
            /\ Write(Applied(db, b))
            /\ next_seq' = b.upto + 1 /\ last_at' = b.at
            /\ recent' = Recorded(recent, b.puts)
            /\ inbox' = inbox \cup {Entry(b)}
            /\ unsynced' \subseteq unsynced \cup {b}
            /\ batch' = {}
            /\ UNCHANGED <<callVars, markVars, fenced, resume, syncing, stalled, failed, envVars,
                           sweep, dispatchVars>>
      BY <1>1 DEF StagedOk
    <2>2. IsBatch(b) BY DEF TypeOK, WriterType
    <2>3. b.upto \in Nat /\ b.at \in Nat /\ b.puts \in [Keys -> Value] BY <2>2 DEF IsBatch, IsEntry
    <2>a. StoreType /\ db \in Contents /\ recent \in Window BY DEF TypeOK, StoreType, WriterType
    <2>4. StoreType'
      <3>1. Applied(db, b) \in Contents BY <2>2, <2>a, AppliedType, Zenon
      <3>2. Write(Applied(db, b)) BY <2>1, Zenon
      <3> QED BY <2>a, <3>1, <3>2, WriteType, Zenon
    <2>5. recent' \in Window
      <3>1. recent' = Recorded(recent, b.puts) BY <2>1, Zenon
      <3> QED BY <3>1, <2>3, <2>a, RecordedType, Zenon
    <2>6. WriterType' BY <2>1, <2>2, <2>3, <2>5 DEF TypeOK, WriterType
    <2>7. IsEntry(Entry(b)) BY <2>2 DEF IsBatch, IsEntry, Entry
    <2>8. SyncerType' BY <2>1, <2>7 DEF TypeOK, SyncerType
    <2> QED BY <2>1, <2>4, <2>6, <2>8, TypeFrame, Zenon DEF TypeOK
  <1>2. CASE StagedError
    <2>1. PICK b \in batch :
            /\ Fault("write")
            /\ next_seq' = b.upto + 1 /\ last_at' = b.at
            /\ applied' = b.prev
            /\ reply' = RefuseAll({b})
            /\ batch' = {}
            /\ UNCHANGED <<storeVars, pre, durable, durable_at, unsynced, fenced, recent, syncerVars,
                           mono, skew, gate, sweep, dispatchVars>>
      BY <1>2 DEF StagedError
    <2>2. IsBatch(b) BY DEF TypeOK, WriterType
    <2>3. b.upto \in Nat /\ b.at \in Nat /\ b.prev \in Nat BY <2>2 DEF IsBatch, IsEntry
    <2>4. CallType' BY <2>1, ReplyType DEF TypeOK, CallType
    <2>5. WriterType' BY <2>1, <2>3 DEF TypeOK, WriterType
    <2>6. MarkType' BY <2>1, <2>3 DEF TypeOK, MarkType
    <2>7. EnvType' BY <2>1 DEF TypeOK, EnvType, Fault
    <2> QED BY <2>1, <2>4, <2>5, <2>6, <2>7, TypeFrame, Zenon DEF TypeOK
  <1> QED BY <1>1, <1>2

LEMMA ReleaseTypes ==
  ASSUME Counts, TypeOK, NEW p \in Pens, ReleaseDuplicate(p) \/ ReleaseFresh(p)
  PROVE  TypeOK'
  <1> DEFINE b == Build(<<p>>, Begun, FALSE)
  <1>1. IsBatch(b) BY PenFacts, Zenon DEF BuiltFor
  <1>2. gate' = FALSE /\ UNCHANGED <<pre, applied, unsynced, fenced, batch, syncerVars, mono, skew, sweep,
                                     dispatchVars>>
    BY Zenon DEF ReleaseDuplicate, ReleaseFresh, markVars
  <1>3. CASE ReleaseDuplicate(p)
    <2>1. /\ recent' = Begun
          /\ \/ WriteSync(Released(p, db)) /\ reply' = Answer(b.reply) /\ UNCHANGED faults
             \/ ErrorOf(Released(p, db)) /\ UNCHANGED reply
          /\ UNCHANGED <<markVars, next_seq, last_at>>
      BY <1>3, Zenon DEF ReleaseDuplicate
    <2> HIDE DEF b
    <2>2. Released(p, db) \in Contents BY ReleasedType DEF TypeOK, StoreType
    <2>3. StoreType' /\ faults' \in Nat
      BY <2>1, <2>2, WriteType, ErrorType DEF TypeOK, EnvType
    <2>a. CallType /\ Answer(b.reply) \in [Calls -> Reply] BY <1>1, ReplyType DEF TypeOK, IsBatch
    <2>b. reply' \in {Answer(b.reply), reply} /\ pre' = pre BY <1>2, <2>1, Zenon
    <2>4. CallType' BY <2>a, <2>b DEF CallType
    <2>5. WriterType' BY <1>2, <2>1, WindowType DEF TypeOK, WriterType
    <2>6. EnvType' BY <1>2, <2>3, EnvKept, Zenon
    <2> QED BY <1>2, <2>1, <2>3, <2>4, <2>5, <2>6, TypeFrame, Zenon DEF TypeOK
  <1>4. CASE ReleaseFresh(p)
    <2> DEFINE d == Released(p, Applied(db, b))
    <2>1. /\ next_seq' = b.upto + 1 /\ last_at' = b.at
          /\ \/ WriteSync(d) /\ recent' = Recorded(Begun, b.puts) /\ MarkDurable(b.upto, b.at)
                /\ reply' = Answer(b.reply) /\ UNCHANGED faults
             \/ ErrorOf(d) /\ recent' = Begun /\ UNCHANGED <<reply, durable, durable_at>>
      BY <1>4, Zenon DEF ReleaseFresh
    <2> HIDE DEF b
    <2>2. d \in Contents BY <1>1, ReleasedType, AppliedType DEF TypeOK, StoreType
    <2> HIDE DEF d
    <2>3. StoreType' /\ faults' \in Nat
      BY <2>1, <2>2, WriteType, ErrorType DEF TypeOK, EnvType
    <2>a. CallType /\ Answer(b.reply) \in [Calls -> Reply] BY <1>1, ReplyType DEF TypeOK, IsBatch
    <2>b. reply' \in {Answer(b.reply), reply} /\ pre' = pre BY <1>2, <2>1, Zenon
    <2>4. CallType' BY <2>a, <2>b DEF CallType
    <2>5. b.upto \in Nat /\ b.at \in Nat /\ b.puts \in [Keys -> Value] BY <1>1 DEF IsBatch, IsEntry
    <2>6. recent' \in Window BY <2>1, <2>5, RecordedType, WindowType, Zenon
    <2>c. next_seq' \in Nat \ {0} /\ last_at' \in Nat
      <3>1. next_seq' = b.upto + 1 /\ last_at' = b.at BY <2>1, Zenon
      <3> QED BY <2>5, <3>1
    <2>7. WriterType' BY <1>2, <2>6, <2>c DEF TypeOK, WriterType
    <2>8. MarkType' BY <1>2, <2>1, <2>5, MarkedType, Zenon DEF TypeOK, MarkType
    <2>9. EnvType' BY <1>2, <2>3, EnvKept, Zenon
    <2> QED BY <1>2, <2>3, <2>4, <2>7, <2>8, <2>9, TypeFrame, Zenon DEF TypeOK
  <1> QED BY <1>3, <1>4

LEMMA ExpireTypes == ASSUME Counts, TypeOK, ExpireDedupe PROVE TypeOK'
  <1>1. StoreType' BY ExpireFacts, WriteType DEF TypeOK
  <1>2. WriterType' BY ExpireFacts DEF TypeOK, WriterType
  <1>3. DispatchType' BY ExpireFacts DEF TypeOK, DispatchType, dispatchVars
  <1> QED BY <1>1, <1>2, <1>3, ExpireFacts, TypeFrame, ZenonT(40) DEF TypeOK

LEMMA FenceTypes == ASSUME Counts, TypeOK, HandleSyncFailed \/ RetryFence PROVE TypeOK'
  <1>1. Undone(db, Uncovered) \in Contents
    BY UncoveredType, UndoneType DEF TypeOK, StoreType
  <1>2. FenceOk \/ FenceError BY DEF HandleSyncFailed, RetryFence
  <1>3. UNCHANGED <<callVars, markVars, next_seq, last_at, batch, inbox, syncing, stalled, mono, skew, gate,
                    sweep, dispatchVars>>
    BY DEF HandleSyncFailed, RetryFence
  <1>4. StoreType' /\ faults' \in Nat
    <2>1. CASE FenceOk
      <3>1. UNCHANGED storeVars \/ WriteSync(Undone(db, Uncovered)) BY <2>1 DEF FenceOk
      <3>2. faults' = faults BY <2>1 DEF FenceOk
      <3>3. CASE UNCHANGED storeVars BY <3>2, <3>3 DEF TypeOK, StoreType, EnvType, storeVars
      <3>4. CASE WriteSync(Undone(db, Uncovered)) BY <1>1, <3>2, <3>4, WriteType DEF TypeOK, EnvType
      <3> QED BY <3>1, <3>3, <3>4
    <2>2. CASE FenceError BY <1>1, <2>2, ErrorType DEF FenceError, TypeOK, EnvType
    <2> QED BY <1>2, <2>1, <2>2
  <1>5. recent' \in Window /\ failed' \in BOOLEAN
    BY WindowType, Zenon DEF HandleSyncFailed, RetryFence, TypeOK, WriterType, SyncerType
  <1>6. fenced' \in BOOLEAN /\ unsynced' \subseteq unsynced BY <1>2, Zenon DEF FenceOk, FenceError
  <1>7. resume' \subseteq [seq : Nat, at : Nat, first : BOOLEAN]
    <2>1. applied \in Nat /\ last_at \in Nat /\ resume \subseteq [seq : Nat, at : Nat, first : BOOLEAN]
      BY DEF TypeOK, SyncerType, MarkType, WriterType
    <2>2. CASE FenceOk
      <3> DEFINE f == inbox = {}
      <3>1. f \in BOOLEAN OBVIOUS
      <3>2. resume' = {[seq |-> applied, at |-> last_at, first |-> f]} BY <2>2 DEF FenceOk
      <3> HIDE DEF f
      <3> QED BY <2>1, <3>1, <3>2
    <2>3. CASE FenceError BY <2>1, <2>3 DEF FenceError
    <2> QED BY <1>2, <2>2, <2>3
  <1>8. WriterType' BY <1>3, <1>5, <1>6 DEF TypeOK, WriterType
  <1>9. SyncerType' BY <1>3, <1>5, <1>7 DEF TypeOK, SyncerType
  <1>10. EnvType' BY <1>3, <1>4, EnvKept, Zenon
  <1> QED BY <1>3, <1>4, <1>8, <1>9, <1>10, TypeFrame, Zenon DEF TypeOK

LEMMA TypeStep == ASSUME Counts PROVE TypeOK /\ [Next]_vars => TypeOK'
  <1> SUFFICES ASSUME TypeOK, [Next]_vars PROVE TypeOK' OBVIOUS
  <1>1. CASE UNCHANGED vars
    BY <1>1, TypeFrame, Zenon DEF vars, TypeOK
  <1>2. CASE \E r \in Reqs : Enqueue(r) \/ EnqueueUnavailable(r) BY <1>2, CallerTypes
  <1>3. CASE WriterNext
    BY <1>3, CallerTypes, DuplicatesTypes, StageTypes, StagedTypes, ReleaseTypes, RedriveTypes, SweepTypes,
       ExpireTypes, FenceTypes DEF WriterNext
  <1>4. CASE SyncerNext BY <1>4, SyncTypes, SyncedTypes DEF SyncerNext
  <1>5. CASE SweepScan BY <1>5, SweepTypes
  <1>6. CASE DispatchNext BY <1>6, DispatchTypes DEF DispatchNext
  <1>7. CASE EnvNext BY <1>7, ClockTypes, BootTypes DEF EnvNext
  <1> QED BY <1>1, <1>2, <1>3, <1>4, <1>5, <1>6, <1>7 DEF Next

-----------------------------------------------------------------------------
(* The redrive cursor *)

(* The rows of redriven hooks. *)
Moved(d) == {h \in d.hooks : h.id \in Redrives}

(* The cursor of the contents `d` is exact, when the hooks `out` are delivered. *)
Exact(d, out) ==
    \A x \in Redrives :
        /\ x \in d.cursor => x \in HookIds(d) \cup out
        /\ x \in HookIds(d) => x \in d.cursor
        /\ \A g, h \in d.hooks : g.id = x /\ h.id = x => g = h

LEMMA ExactParts ==
  /\ CursorExact <=> \A d \in disk : Exact(d, delivered)
  /\ CursorExact' <=> \A d \in disk' : Exact(d, delivered')
  BY Zenon DEF CursorExact, Exact, HookIds

(* A write that leaves the redriven rows and the cursor alone. *)
LEMMA ExactKept ==
  ASSUME NEW d, NEW e, NEW out, Exact(d, out), Moved(e) = Moved(d), e.cursor = d.cursor
  PROVE  Exact(e, out)
  <1>1. \A h : h.id \in Redrives => (h \in e.hooks <=> h \in d.hooks) BY Zenon DEF Moved
  <1>2. \A x \in Redrives : x \in HookIds(e) <=> x \in HookIds(d) BY <1>1, Zenon DEF HookIds
  <1> QED BY <1>1, <1>2, Zenon DEF Exact

LEMMA CursorShrinks ==
  ASSUME CursorInv, disk' \subseteq disk, UNCHANGED delivered,
         (db' = db /\ unsynced' = unsynced) \/ unsynced' = {}
  PROVE  CursorInv'
  <1>1. CursorExact' BY ExactParts DEF CursorInv
  <1>2. RedriveApart' BY DEF CursorInv, RedriveApart
  <1> QED BY <1>1, <1>2 DEF CursorInv

LEMMA CursorWrites ==
  ASSUME StoreInv, CursorInv, NEW d, UNCHANGED storeVars \/ Write(d) \/ WriteSync(d), UNCHANGED delivered,
         Moved(d) = Moved(db), d.cursor = db.cursor,
         \A u \in unsynced' : u \in unsynced \/
             \A g \in u.hooks : g.seq <= u.upto /\ \A h \in db.hooks : g.seq # h.seq
  PROVE  CursorInv'
  <1>1. disk' \subseteq disk \cup {d} /\ db' \in {db, d} BY DEF storeVars, Write, WriteSync
  <1>2. Exact(d, delivered) BY ExactParts, ExactKept, Zenon DEF CursorInv, StoreInv
  <1>3. CursorExact' BY <1>1, <1>2, ExactParts, Zenon DEF CursorInv
  <1>4. ASSUME NEW h \in db'.hooks, h.id \in Redrives PROVE h \in db.hooks
    BY <1>1, <1>4, Zenon DEF Moved
  <1>5. RedriveApart' BY <1>4, Zenon DEF CursorInv, RedriveApart
  <1> QED BY <1>3, <1>5 DEF CursorInv

(* The rows of calls are not those of redriven hooks. *)
LEMMA CallsApart ==
  ASSUME NEW d, NEW e, NEW H, \A h \in H : h.id \in Calls, e.hooks = d.hooks \cup H
  PROVE  Moved(e) = Moved(d)
  BY IdsAssumption DEF Moved

LEMMA StagedCursor ==
  ASSUME Counts, TypeOK, PipelineInv, CursorInv, StagedOk
  PROVE  CursorInv'
  <1> StoreInv /\ CallInv /\ BatchInv /\ SeqInv BY PipelineParts
  <1>1. PICK b \in batch : /\ Write(Applied(db, b))
                           /\ unsynced' = {u \in unsynced : u.upto > durable} \cup {b}
                           /\ UNCHANGED delivered
    BY DEF StagedOk, dispatchVars
  <1>2. IsBatch(b) /\ db \in Contents BY DEF TypeOK, WriterType, StoreType
  <1>3. PICK d : d = Applied(db, b) BY Zenon
  <1>4. d.hooks = db.hooks \cup b.hooks /\ d.cursor = db.cursor BY <1>2, <1>3, AppliedType
  <1>5. \A h \in b.hooks : h.id \in Calls BY DEF BatchInv, CallInv, Calls
  <1>6. Moved(d) = Moved(db) BY <1>4, <1>5, CallsApart
  <1>7. ASSUME NEW g \in b.hooks PROVE g.seq <= b.upto /\ \A h \in db.hooks : g.seq # h.seq
    <2>1. next_seq <= g.seq /\ g.seq <= b.upto BY DEF BatchInv
    <2>2. \A h \in db.hooks : h.seq < next_seq BY DEF SeqInv
    <2> QED BY <2>1, <2>2, Numbers
  <1>8. \A u \in unsynced' : u \in unsynced \/
             \A g \in u.hooks : g.seq <= u.upto /\ \A h \in db.hooks : g.seq # h.seq
    BY <1>1, <1>7
  <1> QED BY <1>1, <1>3, <1>4, <1>6, <1>8, CursorWrites

LEMMA ReleaseCursor ==
  ASSUME Counts, TypeOK, PipelineInv, CursorInv, NEW p \in Pens, ReleaseDuplicate(p) \/ ReleaseFresh(p)
  PROVE  CursorInv'
  <1> StoreInv BY PipelineParts
  <1>0. UNCHANGED <<delivered, unsynced>> BY DEF ReleaseDuplicate, ReleaseFresh, dispatchVars
  <1>1. db \in Contents BY DEF TypeOK, StoreType
  <1>2. CASE ReleaseDuplicate(p)
    <2>1. PICK d : d = Released(p, db) BY Zenon
    <2>2. UNCHANGED storeVars \/ WriteSync(d) BY <1>2, <2>1 DEF ReleaseDuplicate, ErrorOf
    <2>3. d.hooks = db.hooks /\ d.cursor = db.cursor BY <1>1, <2>1, ReleasedType
    <2> QED BY <1>0, <2>2, <2>3, CursorWrites DEF Moved
  <1>3. CASE ReleaseFresh(p)
    <2>1. PICK b : b = Build(<<p>>, Begun, FALSE) BY Zenon
    <2>2. PICK a : a = Applied(db, b) BY Zenon
    <2>3. PICK d : d = Released(p, a) BY Zenon
    <2>4. UNCHANGED storeVars \/ WriteSync(d) BY <1>3, <2>1, <2>2, <2>3 DEF ReleaseFresh, ErrorOf
    <2>5. IsBatch(b) /\ \A h \in b.hooks : h.id \in {p} BY <2>1, PenFacts, Zenon DEF BuiltFor
    <2>6. a \in Contents /\ a.hooks = db.hooks \cup b.hooks /\ a.cursor = db.cursor
      BY <1>1, <2>2, <2>5, AppliedType
    <2>7. d.hooks = db.hooks \cup b.hooks /\ d.cursor = db.cursor BY <2>3, <2>6, ReleasedType
    <2>8. \A h \in b.hooks : h.id \in Calls BY <2>5 DEF Calls
    <2>9. Moved(d) = Moved(db) BY <2>7, <2>8, CallsApart
    <2> QED BY <1>0, <2>4, <2>7, <2>9, CursorWrites
  <1> QED BY <1>2, <1>3

LEMMA RedriveCursor ==
  ASSUME TypeOK, PipelineInv, CursorInv, NEW x \in Redrives, Redrive(x)
  PROVE  CursorInv'
  <1> StoreInv /\ SeqInv BY PipelineParts
  <1> DEFINE h == [id |-> x, seq |-> next_seq, at |-> Now]
  <1>1. PICK d : d = Redriven(x) BY Zenon
  <1>2. /\ UNCHANGED <<delivered, unsynced>> /\ x \notin db.cursor
        /\ UNCHANGED storeVars \/ WriteSync(d)
    BY <1>1 DEF Redrive, Redriven, ErrorOf, dispatchVars
  <1>3. d.hooks = db.hooks \cup {h} /\ d.cursor = db.cursor \cup {x} BY <1>1, RedrivenType
  <1>a. h.id = x /\ h.seq = next_seq OBVIOUS
  <1> HIDE DEF h
  <1>4. Exact(db, delivered) BY ExactParts DEF CursorInv, StoreInv
  <1>5. \A g \in db.hooks : g.id # x BY <1>2, <1>4 DEF Exact, HookIds
  <1>6. Exact(d, delivered)
    <2> SUFFICES ASSUME NEW y \in Redrives
                 PROVE  /\ y \in d.cursor => y \in HookIds(d) \cup delivered
                        /\ y \in HookIds(d) => y \in d.cursor
                        /\ \A g, e \in d.hooks : g.id = y /\ e.id = y => g = e
      BY DEF Exact
    <2>1. \A z : z \in HookIds(d) <=> z \in HookIds(db) \/ z = x BY <1>3, <1>a DEF HookIds
    <2>2. /\ y \in db.cursor => y \in HookIds(db) \cup delivered
          /\ y \in HookIds(db) => y \in db.cursor
          /\ \A g, e \in db.hooks : g.id = y /\ e.id = y => g = e
      BY <1>4 DEF Exact
    <2> QED BY <1>3, <1>a, <1>5, <2>1, <2>2
  <1>7. CursorExact'
    <2>1. disk' \subseteq disk \cup {d} BY <1>2 DEF storeVars, WriteSync
    <2> QED BY <1>2, <1>6, <2>1, ExactParts DEF CursorInv
  <1>8. RedriveApart'
    <2>1. db'.hooks \subseteq db.hooks \cup {h} BY <1>2, <1>3 DEF storeVars, WriteSync
    <2>2. ASSUME NEW u \in unsynced, NEW g \in u.hooks PROVE g.seq <= u.upto /\ g.seq # h.seq
      <3>1. u.upto < next_seq /\ g.seq <= u.upto BY DEF SeqInv, CursorInv, RedriveApart
      <3> QED BY <1>a, <3>1, Numbers
    <2> QED BY <1>2, <2>1, <2>2 DEF CursorInv, RedriveApart
  <1> QED BY <1>7, <1>8 DEF CursorInv

LEMMA FenceCursor ==
  ASSUME Counts, TypeOK, PipelineInv, CursorInv, HandleSyncFailed \/ RetryFence
  PROVE  CursorInv'
  <1> StoreInv BY PipelineParts
  <1>1. PICK d : d = Undone(db, Uncovered) BY Zenon
  <1>2. UNCHANGED storeVars \/ WriteSync(d)
    BY <1>1 DEF HandleSyncFailed, RetryFence, FenceOk, FenceError, ErrorOf
  <1>3. UNCHANGED delivered /\ unsynced' \in {{}, unsynced}
    BY DEF HandleSyncFailed, RetryFence, FenceOk, FenceError, dispatchVars
  <1>4. /\ d.hooks = {h \in db.hooks : \A u \in Uncovered : \A g \in u.hooks : g.seq # h.seq}
        /\ d.cursor = db.cursor
    <2>1. db \in Contents BY DEF TypeOK, StoreType
    <2> QED BY <1>1, <2>1, UncoveredType, UndoneType
  <1>5. Moved(d) = Moved(db)
    <2>1. \A u \in Uncovered : u \in unsynced BY DEF Uncovered
    <2> QED BY <1>4, <2>1 DEF CursorInv, RedriveApart, Moved
  <1> QED BY <1>2, <1>3, <1>4, <1>5, CursorWrites

LEMMA DeliverCursor ==
  ASSUME TypeOK, PipelineInv, CursorInv, NEW h \in db.hooks, Deliver(h)
  PROVE  CursorInv'
  <1> StoreInv BY PipelineParts
  <1>1. PICK d : d = [db EXCEPT !.hooks = @ \ {h}] BY Zenon
  <1>2. db' = d /\ disk' = disk \cup {d} /\ delivered' = delivered \cup {h.id} /\ UNCHANGED unsynced
    BY <1>1 DEF Deliver, Write, writerVars
  <1>3. d.hooks = db.hooks \ {h} /\ d.cursor = db.cursor BY <1>1 DEF TypeOK, StoreType, Contents
  <1>4. \A e, out : Exact(e, out) => Exact(e, out \cup {h.id}) BY DEF Exact
  <1>5. Exact(d, delivered')
    <2>1. Exact(db, delivered) BY ExactParts DEF CursorInv, StoreInv
    <2>2. \A z : z \in HookIds(db) => z \in HookIds(d) \/ z = h.id BY <1>3 DEF HookIds
    <2>3. \A z : z \in HookIds(d) => z \in HookIds(db) BY <1>3 DEF HookIds
    <2> QED BY <1>2, <1>3, <2>1, <2>2, <2>3 DEF Exact
  <1>6. CursorExact' BY <1>2, <1>4, <1>5, ExactParts DEF CursorInv
  <1>7. RedriveApart' BY <1>2, <1>3 DEF CursorInv, RedriveApart
  <1> QED BY <1>6, <1>7 DEF CursorInv

LEMMA ExpireCursor ==
  ASSUME Counts, TypeOK, PipelineInv, CursorInv, ExpireDedupe
  PROVE  CursorInv'
  <1> StoreInv BY PipelineParts
  <1>1. PICK d \in Contents : Write(d) /\ d.hooks = db.hooks /\ d.cursor = db.cursor BY ExpireFacts, Zenon
  <1>2. UNCHANGED <<delivered, unsynced>> BY DEF ExpireDedupe, dispatchVars
  <1>3. Moved(d) = Moved(db) BY <1>1, Zenon DEF Moved
  <1> QED BY <1>1, <1>2, <1>3, CursorWrites

LEMMA CursorInit == Init => CursorInv
  <1> SUFFICES ASSUME Init PROVE CursorInv OBVIOUS
  <1>1. db = EmptyStore /\ disk = {db} /\ unsynced = {} BY DEF Init, StoreInit
  <1>2. db.hooks = {} /\ db.cursor = {} BY <1>1 DEF EmptyStore
  <1>3. CursorExact BY <1>1, <1>2 DEF CursorExact, HookIds
  <1> QED BY <1>1, <1>3 DEF CursorInv, RedriveApart

LEMMA QuietCursor ==
  ASSUME CursorInv, UNCHANGED <<db, disk, unsynced, delivered>>
  PROVE  CursorInv'
  BY CursorShrinks

-----------------------------------------------------------------------------
(* The seqs the syncer answers *)

(* The syncer answers the entries `S`, whose markers no power loss takes back. *)
LEMMA AnswerSeqs ==
  ASSUME TypeOK, PipelineInv, SeqsInv, NEW S \in SUBSET (inbox \cup syncing), reply' = AnswerAll(S),
         UNCHANGED <<db, next_seq, batch>>, disk' \subseteq disk,
         inbox' \subseteq inbox, syncing' = {},
         \A e \in S : Commits(e) # {} => Below(e.upto, disk'),
         \A e \in inbox', f \in S : DOMAIN e.reply \cap DOMAIN f.reply = {},
         \A e \in inbox' : Commits(e) # {} /\ e.upto <= durable' => e.upto <= durable
  PROVE  SeqsInv'
  <1>0. AckSeqs /\ BatchSeqs /\ EntrySeqs BY DEF SeqsInv
  <1>1. ASSUME NEW c \in Calls, reply'[c].kind = "committed"
        PROVE  \/ reply[c].kind = "committed" /\ reply'[c] = reply[c]
               \/ \E e \in S : c \in Commits(e) /\ reply'[c] = e.reply[c]
    <2>1. CASE \E e \in S : c \in DOMAIN e.reply
      <3>1. PICK e \in S : c \in DOMAIN e.reply /\ reply'[c] = e.reply[c] BY <2>1 DEF AnswerAll
      <3> QED BY <1>1, <3>1 DEF Commits
    <2>2. CASE ~\E e \in S : c \in DOMAIN e.reply
      <3>1. reply'[c] = reply[c] BY <2>2 DEF AnswerAll
      <3> QED BY <1>1, <3>1
    <2> QED BY <2>1, <2>2
  <1>2. /\ \A e, f \in inbox \cup syncing : \A c \in Commits(e), k \in Commits(f) :
              k # c => f.reply[k].seq # e.reply[c].seq
        /\ \A e \in inbox \cup syncing : \A c \in Commits(e) :
              \A k \in Calls : reply[k].kind = "committed" => reply[k].seq # e.reply[c].seq
        /\ \A e \in inbox \cup syncing : \A c \in Commits(e) : e.reply[c].seq <= e.upto
    BY <1>0 DEF EntrySeqs
  <1>3. SeqsDistinct'
    <2> SUFFICES ASSUME NEW c \in Calls, NEW k \in Calls, c # k,
                        reply'[c].kind = "committed", reply'[k].kind = "committed"
                 PROVE  reply'[c].seq # reply'[k].seq
      BY DEF SeqsDistinct
    <2>1. CASE reply[c].kind = "committed" /\ reply'[c] = reply[c]
      <3>1. CASE reply[k].kind = "committed" /\ reply'[k] = reply[k]
        BY <1>0, <2>1, <3>1 DEF AckSeqs, SeqsDistinct
      <3>2. CASE \E e \in S : k \in Commits(e) /\ reply'[k] = e.reply[k] BY <1>2, <2>1, <3>2
      <3> QED BY <1>1, <3>1, <3>2
    <2>2. CASE \E e \in S : c \in Commits(e) /\ reply'[c] = e.reply[c]
      <3>1. CASE reply[k].kind = "committed" /\ reply'[k] = reply[k] BY <1>2, <2>2, <3>1
      <3>2. CASE \E e \in S : k \in Commits(e) /\ reply'[k] = e.reply[k] BY <1>2, <2>2, <3>2
      <3> QED BY <1>1, <3>1, <3>2
    <2> QED BY <1>1, <2>1, <2>2
  <1>4. ASSUME NEW c \in Calls, reply'[c].kind = "committed" PROVE Below(reply'[c].seq, disk')
    <2>1. CASE reply[c].kind = "committed" /\ reply'[c] = reply[c]
      BY <1>0, <2>1 DEF AckSeqs, Below
    <2>2. CASE \E e \in S : c \in Commits(e) /\ reply'[c] = e.reply[c]
      <3>1. PICK e \in S : c \in Commits(e) /\ reply'[c] = e.reply[c] BY <2>2
      <3>2. e.reply[c].seq <= e.upto /\ Below(e.upto, disk') BY <1>2, <3>1
      <3>3. e.reply[c].seq \in Nat /\ e.upto \in Nat /\ \A d \in disk' : d.next_seq \in Nat
        BY <3>1, SeqNumbers, Numbers
      <3> QED BY <3>1, <3>2, <3>3 DEF Below
    <2> QED BY <1>1, <1>4, <2>1, <2>2
  <1>5. AckSeqs' BY <1>0, <1>3, <1>4 DEF AckSeqs, Below
  <1>6. BatchSeqs' BY <1>0, BatchSeqsKept
  <1>7. EntrySeqs'
    <2>1. ASSUME NEW e \in inbox', NEW c \in Commits(e), NEW k \in Calls, reply'[k].kind = "committed"
          PROVE  reply'[k].seq # e.reply[c].seq
      <3>1. CASE reply[k].kind = "committed" /\ reply'[k] = reply[k] BY <1>2, <3>1
      <3>2. CASE \E f \in S : k \in Commits(f) /\ reply'[k] = f.reply[k]
        <4>1. PICK f \in S : k \in Commits(f) /\ reply'[k] = f.reply[k] BY <3>2
        <4>2. k # c BY <4>1 DEF Commits
        <4> QED BY <1>2, <4>1, <4>2
      <3> QED BY <1>1, <2>1, <3>1, <3>2
    <2>2. ASSUME NEW e \in inbox', Commits(e) # {}
          PROVE  e.upto < db'.next_seq /\ (e.upto <= durable' => Below(e.upto, disk'))
      BY <1>0, <2>2 DEF EntrySeqs, Below
    <2>3. \A e, f \in inbox' : \A c \in Commits(e), k \in Commits(f) : k # c => f.reply[k].seq # e.reply[c].seq
      BY <1>2
    <2>4. \A e \in inbox' : \A c \in Commits(e) : e.reply[c].seq <= e.upto BY <1>2
    <2>5. inbox' \cup syncing' = inbox' BY Zenon
    <2>6. ASSUME NEW e \in inbox', NEW c \in Commits(e)
          PROVE  /\ e.reply[c].seq <= e.upto
                 /\ \A f \in inbox' : \A k \in Commits(f) : k # c => f.reply[k].seq # e.reply[c].seq
                 /\ \A k \in Calls : reply'[k].kind = "committed" => reply'[k].seq # e.reply[c].seq
      BY <2>1, <2>3, <2>4, Zenon
    <2>7. /\ \A e \in inbox' \cup syncing' : Commits(e) # {} =>
                e.upto < db'.next_seq /\ (e.upto <= durable' => Below(e.upto, disk'))
          /\ \A e \in inbox' \cup syncing' : \A c \in Commits(e) :
                /\ e.reply[c].seq <= e.upto
                /\ \A f \in inbox' \cup syncing' : \A k \in Commits(f) : k # c => f.reply[k].seq # e.reply[c].seq
                /\ \A k \in Calls : reply'[k].kind = "committed" => reply'[k].seq # e.reply[c].seq
      BY <2>2, <2>5, <2>6
    <2> QED BY <2>7, Zenon DEF EntrySeqs, Below, Commits
  <1> QED BY <1>5, <1>6, <1>7 DEF SeqsInv

LEMMA SyncBeginSeqs ==
  ASSUME TypeOK, PipelineInv, SeqsInv, SyncBegin
  PROVE  SeqsInv'
  <1>0. AckSeqs /\ BatchSeqs /\ EntrySeqs BY DEF SeqsInv
  <1>1. /\ syncing = {} /\ syncing' = inbox /\ inbox' = {} /\ since' = {db}
        /\ UNCHANGED <<db, disk, durable, next_seq, batch, reply>>
    BY DEF SyncBegin, Takes, SyncWalBegin, callVars, markVars, writerVars
  <1>2. AckSeqs' BY <1>0, <1>1 DEF AckSeqs, SeqsDistinct, Below
  <1>3. BatchSeqs' BY <1>0, <1>1, BatchSeqsKept
  <1>4. inbox' \cup syncing' = inbox \cup syncing BY <1>1
  <1>5. \A e \in syncing' : Commits(e) # {} => Below(e.upto, since') BY <1>0, <1>1 DEF EntrySeqs, Below
  <1>6. /\ \A e \in inbox' \cup syncing' : Commits(e) # {} =>
              e.upto < db'.next_seq /\ (e.upto <= durable' => Below(e.upto, disk'))
        /\ \A e \in inbox' \cup syncing' : \A c \in Commits(e) :
              /\ e.reply[c].seq <= e.upto
              /\ \A f \in inbox' \cup syncing' : \A k \in Commits(f) : k # c => f.reply[k].seq # e.reply[c].seq
              /\ \A k \in Calls : reply'[k].kind = "committed" => reply'[k].seq # e.reply[c].seq
    BY <1>0, <1>1, <1>4 DEF EntrySeqs
  <1>7. EntrySeqs' BY <1>5, <1>6, Zenon DEF EntrySeqs, Below, Commits
  <1> QED BY <1>2, <1>3, <1>7 DEF SeqsInv

LEMMA SyncOkSeqs ==
  ASSUME TypeOK, PipelineInv, SeqsInv, SyncOk
  PROVE  SeqsInv'
  <1> StoreInv /\ CallInv /\ EntryInv BY PipelineParts
  <1>1. /\ disk' = since /\ reply' = AnswerAll(syncing) /\ syncing' = {}
        /\ UNCHANGED <<db, next_seq, batch, inbox>>
    BY DEF SyncOk, SyncWalOk, writerVars
  <1>2. \E e \in syncing : durable' = Max2(durable, e.upto) BY DEF SyncOk, MarkDurable
  <1>3. \A e \in inbox : Commits(e) # {} /\ e.upto <= durable' => e.upto <= durable
    <2>1. \A e \in inbox, f \in syncing : Commits(e) = {} \/ e.upto > f.upto BY DEF EntryInv
    <2> QED BY <1>2, <2>1, Numbers DEF Max2
  <1>4. \A e \in syncing : Commits(e) # {} => Below(e.upto, disk') BY <1>1 DEF SeqsInv, EntrySeqs
  <1>5. disk' \subseteq disk BY <1>1 DEF StoreInv
  <1>6. \A e \in inbox, f \in syncing : DOMAIN e.reply \cap DOMAIN f.reply = {} BY DEF CallInv
  <1> QED BY <1>1, <1>3, <1>4, <1>5, <1>6, AnswerSeqs

LEMMA SyncCoveredSeqs ==
  ASSUME TypeOK, PipelineInv, SeqsInv, SyncCovered
  PROVE  SeqsInv'
  <1>1. /\ reply' = AnswerAll(inbox) /\ inbox' = {} /\ syncing = {} /\ \A e \in inbox : e.upto <= durable
        /\ UNCHANGED <<db, disk, next_seq, batch, syncing>>
    BY DEF SyncCovered, Takes, storeVars, writerVars
  <1>2. \A e \in inbox : Commits(e) # {} => Below(e.upto, disk') BY <1>1 DEF SeqsInv, EntrySeqs
  <1> QED BY <1>1, <1>2, AnswerSeqs

LEMMA SyncRefusedSeqs ==
  ASSUME TypeOK, PipelineInv, SeqsInv, SyncRefuse \/ SyncError
  PROVE  SeqsInv'
  <1>1. /\ UNCHANGED <<db, disk, durable, next_seq, batch>> /\ since' \subseteq since
        /\ inbox' \subseteq inbox /\ syncing' \subseteq syncing
        /\ \E S : reply' = RefuseAll(S)
    BY DEF SyncRefuse, SyncError, SyncWalError, storeVars, markVars, writerVars
  <1>2. \A c \in Calls : reply'[c].kind = "committed" => reply'[c] = reply[c]
    BY <1>1 DEF RefuseAll, State
  <1> QED BY <1>1, <1>2, SeqsQuiet, Numbers

LEMMA ResumeSeqs ==
  ASSUME TypeOK, PipelineInv, SeqsInv, Resume
  PROVE  SeqsInv'
  <1> EntryInv BY PipelineParts
  <1>1. PICK m \in resume : m.first /\ MarkDurable(m.seq, m.at) BY DEF Resume
  <1>2. syncing = {} /\ UNCHANGED <<db, disk, since, next_seq, batch, reply, inbox, syncing>>
    BY DEF Resume, storeVars, callVars, writerVars
  <1>3. \A e \in inbox : Commits(e) # {} /\ e.upto <= durable' => e.upto <= durable
    <2>1. \A e \in inbox : Commits(e) = {} \/ e.upto > m.seq BY <1>1 DEF EntryInv
    <2> QED BY <1>1, <2>1, Numbers DEF MarkDurable, Max2
  <1>4. Onward(db) /\ Lands(db) /\ db.next_seq <= next_seq' /\ next_seq <= next_seq' /\ next_seq' \in Nat
    BY <1>2, SeqNumbers, Numbers DEF Onward, Lands, SeqsInv, AckSeqs
  <1> QED BY <1>2, <1>3, <1>4, SeqsKept

(* A writer starts past every seq it acked, whatever a power loss left. *)
LEMMA BootSeqs ==
  ASSUME TypeOK, PipelineInv, SeqsInv, Crash \/ WriterRestart
  PROVE  SeqsInv'
  <1> StoreInv BY PipelineParts
  <1>1. Boot(db') /\ db' \in disk' /\ disk' \subseteq disk
    BY DEF Crash, WriterRestart, PowerLoss, StoreInv, Boot
  <1>2. db' \in Contents BY <1>1 DEF TypeOK, StoreType
  <1>3. db'.next_seq <= next_seq' BY <1>1, <1>2, BootFacts, ZenonT(40)
  <1>4. batch' = {} /\ inbox' = {} /\ syncing' = {} BY <1>1, Zenon DEF Boot
  <1>5. \A c \in Calls : reply'[c].kind = "committed" => reply'[c] = reply[c]
    BY <1>1 DEF Boot, State
  <1>6. \A s \in Nat : Below(s, disk) => Below(s, disk') BY <1>1 DEF Below
  <1>7. AckSeqs' BY <1>3, <1>5, <1>6, AckSeqsKept, SeqNumbers, Zenon DEF SeqsInv
  <1> QED BY <1>4, <1>7, Zenon DEF SeqsInv, BatchSeqs, EntrySeqs

LEMMA IdleSeqs ==
  ASSUME TypeOK, PipelineInv, SeqsInv, UNCHANGED <<coreVars, reply>>
  PROVE  SeqsInv'
  <1>1. UNCHANGED <<db, disk, since, durable, next_seq, batch, inbox, syncing, reply>>
    BY DEF coreVars, syncerVars
  <1>2. next_seq' \in Nat /\ next_seq <= next_seq' BY <1>1, Numbers
  <1> QED BY <1>1, <1>2, SeqsQuiet

LEMMA SeqsInit == Init => SeqsInv
  <1> SUFFICES ASSUME Init PROVE SeqsInv OBVIOUS
  <1>1. db = EmptyStore /\ disk = {db} /\ syncing = {} /\ inbox = {} /\ batch = {} /\ next_seq = 1
    BY DEF Init, StoreInit
  <1>2. \A c \in Calls : reply[c].kind # "committed" BY DEF Init, State
  <1>3. db.next_seq = 1 BY <1>1 DEF EmptyStore
  <1>4. AckSeqs BY <1>1, <1>2, <1>3 DEF AckSeqs, SeqsDistinct
  <1> QED BY <1>1, <1>4 DEF SeqsInv, BatchSeqs, EntrySeqs
=============================================================================
