----------------------------- MODULE AmqpProofs -----------------------------
(* That the RabbitMQ consumers record what they ack, for any number of consumers    *)
(* and hooks, any messages, prefetch and faults: WorkerInv is inductive, and with it   *)
(* AckedRecorded is.                                                               *)
EXTENDS AmqpWorker, TLAPS

(* The provers of a step that names none, in the order they are tried. *)
USE ZenonT(3), SMTT(8), ZenonT(20), Z3T(30), SMTT(30)

Listed(k) == {rows[k].hook_ids[i] : i \in DOMAIN rows[k].hook_ids}

(* record/3 appends an id that is not listed and counts the delivery either way. *)
LEMMA UpsertSound ==
    ASSUME NEW S, NEW row \in [deliveries : Nat, hook_ids : Seq(S)], NEW id \in S
    PROVE  /\ Upsert(row, id) \in [deliveries : Nat, hook_ids : Seq(S)]
           /\ {Upsert(row, id).hook_ids[i] : i \in DOMAIN Upsert(row, id).hook_ids}
                = {row.hook_ids[i] : i \in DOMAIN row.hook_ids} \cup {id}
           /\ Len(row.hook_ids) <= row.deliveries =>
                Len(Upsert(row, id).hook_ids) <= Upsert(row, id).deliveries
           /\ (\A i, j \in DOMAIN row.hook_ids : row.hook_ids[i] = row.hook_ids[j] => i = j) =>
                \A i, j \in DOMAIN Upsert(row, id).hook_ids :
                    Upsert(row, id).hook_ids[i] = Upsert(row, id).hook_ids[j] => i = j
<1>. DEFINE ids == row.hook_ids
            new == Upsert(row, id).hook_ids
<1>1. ids \in Seq(S) /\ row.deliveries \in Nat /\ DOMAIN ids = 1..Len(ids) /\ Len(ids) \in Nat
  OBVIOUS
<1>2. Upsert(row, id).deliveries = row.deliveries + 1
  BY DEF Upsert
<1>3. CASE \E i \in DOMAIN ids : ids[i] = id
  <2>1. new = ids
    BY <1>3 DEF Upsert
  <2>2. Upsert(row, id) = [deliveries |-> row.deliveries + 1, hook_ids |-> ids]
    BY <1>3 DEF Upsert
  <2>3. Upsert(row, id) \in [deliveries : Nat, hook_ids : Seq(S)]
    BY <1>1, <2>2
  <2>4. {new[i] : i \in DOMAIN new} = {ids[i] : i \in DOMAIN ids} \cup {id}
    BY <1>3, <2>1
  <2>5. Len(ids) <= row.deliveries => Len(new) <= row.deliveries + 1
    BY <1>1, <2>1
  <2>. QED
    BY <1>2, <2>1, <2>3, <2>4, <2>5, ZenonT(20)
<1>4. CASE ~\E i \in DOMAIN ids : ids[i] = id
  <2>1. new = Append(ids, id)
    BY <1>4 DEF Upsert
  <2>2. Upsert(row, id) = [deliveries |-> row.deliveries + 1, hook_ids |-> Append(ids, id)]
    BY <1>4 DEF Upsert
  <2>3. /\ Append(ids, id) \in Seq(S) /\ Len(Append(ids, id)) = Len(ids) + 1
        /\ DOMAIN Append(ids, id) = 1..Len(ids) + 1
        /\ \A i \in 1..Len(ids) : Append(ids, id)[i] = ids[i]
        /\ Append(ids, id)[Len(ids) + 1] = id
    BY <1>1
  <2>4. {new[i] : i \in DOMAIN new} = {ids[i] : i \in DOMAIN ids} \cup {id}
    BY <1>1, <2>1, <2>3
  <2>5. (\A i, j \in DOMAIN ids : ids[i] = ids[j] => i = j) =>
           \A i, j \in DOMAIN new : new[i] = new[j] => i = j
    BY <1>1, <1>4, <2>1, <2>3
  <2>. QED
    BY <1>1, <1>2, <2>1, <2>2, <2>3, <2>4, <2>5
<1>. QED
  BY <1>3, <1>4

LEMMA RecordedListed ==
    ASSUME NEW h
    PROVE  Recorded(h) <=> IF database THEN Wire[h].id \in Listed(RowKey(h)) ELSE h \in printed
BY DEF Recorded, Listed

(* A final refusal of a claim says that no retry could redeem it. *)
LEMMA RefusalFinal ==
    ASSUME NEW h, NEW up \in BOOLEAN, NEW outcome, outcome = ResolveBody(Wire[h], Answer(h, up)),
           outcome # "ok", ~Retryable(outcome)
    PROVE  Hopeless(h)
<1>1. CASE up
  <2>1. Answer(h, up) = Answer(h, TRUE)
    BY <1>1 DEF Answer
  <2>. QED
    BY <2>1 DEF Hopeless
<1>2. CASE ~up
  <2>1. Answer(h, up).status = Unanswered
    BY <1>2 DEF Answer
  <2>2. FetchOutcome(Answer(h, up).status) = "unavailable"
    BY <2>1 DEF FetchOutcome, Unanswered
  <2>3. outcome = "invalid_ref" /\ ResolveBody(Wire[h], Answer(h, TRUE)) = "invalid_ref"
    BY <2>2 DEF ResolveBody, Redeem, Retryable
  <2>. QED
    BY <2>3 DEF Hopeless, Retryable
<1>. QED
  BY <1>1, <1>2

(* What is known of a hook stays known while the table, the output and the expired       *)
(* claims only grow.                                                                   *)
LEMMA KnownStays ==
    ASSUME NEW h \in Hooks, database' = database, printed \subseteq printed', gone \subseteq gone',
           Listed(RowKey(h)) \subseteq Listed(RowKey(h))'
    PROVE  /\ Recorded(h) => Recorded(h)'
           /\ Hopeless(h) => Hopeless(h)'
<1>1. Recorded(h) => Recorded(h)'
  BY DEF Recorded, Listed
<1>2. ASSUME Hopeless(h) PROVE Hopeless(h)'
  BY <1>2 DEF Hopeless, ResolveBody, Throws, Redeem, Retryable, Answer, FetchOutcome, VerifyIntegrity
<1>. QED
  BY <1>1, <1>2

-----------------------------------------------------------------------------
(* The clause of AckedRecorded for one hook. *)
Left(h) == h \in accepted /\ h \notin ready /\ owner[h] = None => Recorded(h) \/ (h \in dropped /\ Hopeless(h))

HookSound(h) == HandlerSound(h) /\ Left(h)

IInv == TypeOK /\ RowsSound /\ writes \subseteq accepted /\ \A h \in Hooks : HookSound(h)

LEMMA IInvMeans == IInv => WorkerInv /\ AckedRecorded
BY DEF IInv, HookSound, Left, WorkerInv, HandlersSound, AckedRecorded, Queued, TypeOK

(* A table that is not written stays sound while hooks are accepted. *)
LEMMA TableKept ==
    ASSUME RowsSound, rows' = rows, accepted \subseteq accepted'
    PROVE  RowsSound' /\ \A k : Listed(k)' = Listed(k)
BY DEF RowsSound, Listed

(* An upsert keeps the table sound, keeps what it lists and lists the hook. *)
LEMMA ApplySound ==
    ASSUME IInv, NEW h \in accepted, Apply(h), accepted' = accepted
    PROVE  /\ rows' \in [Keys -> Row] /\ RowsSound'
           /\ \A k \in Keys : Listed(k) \subseteq Listed(k)'
           /\ Wire[h].id \in Listed(RowKey(h))'
<1>. DEFINE key == RowKey(h)
            id == Wire[h].id
            S == {Wire[x].id : x \in Hooks}
<1>1. h \in Hooks /\ key \in Keys /\ id \in S /\ rows \in [Keys -> Row] /\ rows[key] \in Row
  BY DEF IInv, TypeOK, Keys
<1>2. rows' = [rows EXCEPT ![key] = Upsert(rows[key], id)]
  BY DEF Apply
<1>3. rows'[key] = Upsert(rows[key], id) /\ \A k \in Keys \ {key} : rows'[k] = rows[k]
  BY <1>1, <1>2
<1>4. /\ Upsert(rows[key], id) \in Row
      /\ Listed(key)' = Listed(key) \cup {id}
      /\ Len(rows[key].hook_ids) <= rows[key].deliveries =>
           Len(rows'[key].hook_ids) <= rows'[key].deliveries
      /\ (\A i, j \in DOMAIN rows[key].hook_ids : rows[key].hook_ids[i] = rows[key].hook_ids[j] => i = j) =>
           \A i, j \in DOMAIN rows'[key].hook_ids : rows'[key].hook_ids[i] = rows'[key].hook_ids[j] => i = j
  <2>1. rows[key] \in [deliveries : Nat, hook_ids : Seq(S)]
    BY <1>1 DEF Row
  <2>. DEFINE row == rows[key]
              new == Upsert(row, id)
  <2>2. id \in S /\ row \in [deliveries : Nat, hook_ids : Seq(S)]
    BY <1>1, <2>1
  <2>. HIDE DEF row, id, S
  <2>3. /\ new \in [deliveries : Nat, hook_ids : Seq(S)]
        /\ {new.hook_ids[i] : i \in DOMAIN new.hook_ids} = {row.hook_ids[i] : i \in DOMAIN row.hook_ids} \cup {id}
        /\ Len(row.hook_ids) <= row.deliveries => Len(new.hook_ids) <= new.deliveries
        /\ (\A i, j \in DOMAIN row.hook_ids : row.hook_ids[i] = row.hook_ids[j] => i = j) =>
             \A i, j \in DOMAIN new.hook_ids : new.hook_ids[i] = new.hook_ids[j] => i = j
    BY <2>2, UpsertSound, ZenonT(40)
  <2>4. rows'[key] = new
    BY <1>3 DEF row
  <2>. HIDE DEF new
  <2>5. Listed(key)' = Listed(key) \cup {id}
    BY <2>3, <2>4, ZenonT(40) DEF Listed, row
  <2>. QED
    BY <2>3, <2>4, <2>5, Zenon DEF row, new, Row, S
<1>5. rows' \in [Keys -> Row]
  BY <1>1, <1>2, <1>4
<1>6. \A k \in Keys \ {key} : Listed(k)' = Listed(k)
  BY <1>3 DEF Listed
<1>7. RowsSound'
  <2>1. ASSUME NEW k \in Keys \ {key}
        PROVE  /\ Len(rows'[k].hook_ids) <= rows'[k].deliveries
               /\ \A i \in DOMAIN rows'[k].hook_ids :
                    /\ \E x \in accepted : RowKey(x) = k /\ Wire[x].id = rows'[k].hook_ids[i]
                    /\ \A j \in DOMAIN rows'[k].hook_ids : rows'[k].hook_ids[i] = rows'[k].hook_ids[j] => i = j
    BY <1>3 DEF IInv, RowsSound
  <2>2. \A v \in Listed(key) : \E x \in accepted : RowKey(x) = key /\ Wire[x].id = v
    BY <1>1 DEF IInv, RowsSound, Listed
  <2>3. \A v \in Listed(key)' : \E x \in accepted : RowKey(x) = key /\ Wire[x].id = v
    BY <1>4, <2>2
  <2>4. Len(rows'[key].hook_ids) <= rows'[key].deliveries
    BY <1>1, <1>4 DEF IInv, RowsSound
  <2>5. \A i, j \in DOMAIN rows'[key].hook_ids : rows'[key].hook_ids[i] = rows'[key].hook_ids[j] => i = j
    BY <1>1, <1>4 DEF IInv, RowsSound
  <2>6. \A i \in DOMAIN rows'[key].hook_ids :
           \E x \in accepted : RowKey(x) = key /\ Wire[x].id = rows'[key].hook_ids[i]
    BY <2>3 DEF Listed
  <2>. HIDE DEF key, id
  <2>. QED
    BY <2>1, <2>4, <2>5, <2>6 DEF RowsSound
<1>. QED
  BY <1>4, <1>5, <1>6, <1>7

(* A hook that a step does not move keeps what is said of it. *)
LEMMA OthersKept ==
    ASSUME NEW x \in Hooks, HookSound(x), owner'[x] = owner[x], step'[x] = step[x],
           x \in ready' <=> x \in ready, x \in accepted' <=> x \in accepted,
           dropped \subseteq dropped', database' = database, printed \subseteq printed',
           gone \subseteq gone', Listed(RowKey(x)) \subseteq Listed(RowKey(x))'
    PROVE  HookSound(x)'
<1>1. (Recorded(x) => Recorded(x)') /\ (Hopeless(x) => Hopeless(x)')
  BY KnownStays
<1>2. HandlerSound(x)'
  BY <1>1 DEF HookSound, HandlerSound
<1>3. Left(x)'
  BY <1>1 DEF HookSound, Left
<1>. QED
  BY <1>2, <1>3 DEF HookSound

LEMMA InitSound == Init => IInv
<1>. SUFFICES ASSUME Init PROVE IInv
  OBVIOUS
<1>1. NoRow \in Row
  BY DEF NoRow, Row
<1>2. TypeOK
  <2>1. database \in BOOLEAN /\ bound \in BOOLEAN
    BY Zenon DEF Init
  <2>2. rows \in [Keys -> Row] /\ step \in [Hooks -> {"none", "resolve", "record", "acked"}]
    BY <1>1 DEF Init
  <2>3. attempt \in [Consumers -> 0..MaxAttempts] /\ faults \in 0..MaxFaults
    BY BoundsAssumption DEF Init
  <2>4. owner \in [Hooks -> Consumers \cup {None}] /\ state \in [Consumers -> {"down", "connecting", "consuming"}]
    BY DEF Init
  <2>. QED
    BY <2>1, <2>2, <2>3, <2>4, Zenon DEF Init, TypeOK
<1>3. RowsSound
  BY DEF Init, RowsSound, NoRow
<1>. QED
  BY <1>2, <1>3 DEF Init, IInv, HookSound, HandlerSound, Left

-----------------------------------------------------------------------------
(* The broker. *)

LEMMA PublishSound ==
    ASSUME IInv, NEW h \in Hooks, Publish(h)
    PROVE  IInv'
<1>1. /\ h \notin accepted /\ accepted' = accepted \cup {h} /\ ready' = ready \cup {h}
      /\ UNCHANGED <<database, bound, owner, step, state, attempt, writes, rows, printed, dropped, gone, faults>>
  BY DEF Publish
<1>2. TypeOK'
  BY <1>1 DEF IInv, TypeOK
<1>3. RowsSound' /\ \A k : Listed(k)' = Listed(k)
  BY <1>1, TableKept DEF IInv
<1>4. \A x \in Hooks \ {h} : HookSound(x)'
  BY <1>1, <1>3, OthersKept DEF IInv
<1>5. HookSound(h)'
  BY <1>1 DEF IInv, HookSound, HandlerSound, Left
<1>. QED
  BY <1>1, <1>2, <1>3, <1>4, <1>5 DEF IInv

LEMMA DeliverSound ==
    ASSUME IInv, NEW h \in Hooks, NEW c \in Consumers, Deliver(c, h)
    PROVE  IInv'
<1>1. /\ h \in ready /\ ready' = ready \ {h} /\ owner' = [owner EXCEPT ![h] = c]
      /\ step' = [step EXCEPT ![h] = "resolve"]
      /\ UNCHANGED <<database, bound, accepted, state, attempt, writes, rows, printed, dropped, gone, faults>>
  BY DEF Deliver, Goto
<1>2. TypeOK'
  BY <1>1 DEF IInv, TypeOK
<1>3. RowsSound' /\ \A k : Listed(k)' = Listed(k)
  BY <1>1, TableKept DEF IInv
<1>4. \A x \in Hooks \ {h} : HookSound(x)'
  BY <1>1, <1>3, OthersKept DEF IInv, TypeOK
<1>5. HookSound(h)'
  BY <1>1, BoundsAssumption DEF IInv, TypeOK, HookSound, HandlerSound, Left
<1>. QED
  BY <1>1, <1>2, <1>3, <1>4, <1>5 DEF IInv

(* An ack that arrives is one of a recorded hook, and the hook is recorded for good. *)
LEMMA AckArrivesSound ==
    ASSUME IInv, NEW h \in Hooks, AckArrives(h)
    PROVE  IInv'
<1>1. /\ step[h] = "acked" /\ owner' = [owner EXCEPT ![h] = None] /\ step' = [step EXCEPT ![h] = "none"]
      /\ UNCHANGED <<database, bound, accepted, ready, state, attempt, writes, rows, printed, dropped, gone, faults>>
  BY DEF AckArrives, Release, Goto
<1>2. TypeOK'
  BY <1>1 DEF IInv, TypeOK
<1>3. RowsSound' /\ \A k : Listed(k)' = Listed(k)
  BY <1>1, TableKept DEF IInv
<1>4. \A x \in Hooks \ {h} : HookSound(x)'
  BY <1>1, <1>3, OthersKept DEF IInv, TypeOK
<1>5. Recorded(h)'
  BY <1>1, <1>3, KnownStays DEF IInv, HookSound, HandlerSound
<1>6. HookSound(h)'
  BY <1>1, <1>5 DEF IInv, TypeOK, HookSound, HandlerSound, Left
<1>. QED
  BY <1>1, <1>2, <1>3, <1>4, <1>6 DEF IInv

LEMMA ClaimExpiresSound ==
    ASSUME IInv, NEW h \in Hooks, ClaimExpires(h)
    PROVE  IInv'
<1>1. /\ gone' = gone \cup {h}
      /\ UNCHANGED <<database, bound, accepted, ready, owner, step, state, attempt, writes, rows, printed, dropped, faults>>
  BY DEF ClaimExpires
<1>2. TypeOK'
  BY <1>1 DEF IInv, TypeOK
<1>3. RowsSound' /\ \A k : Listed(k)' = Listed(k)
  BY <1>1, TableKept DEF IInv
<1>4. \A x \in Hooks : HookSound(x)'
  BY <1>1, <1>3, OthersKept DEF IInv
<1>. QED
  BY <1>1, <1>2, <1>3, <1>4 DEF IInv

-----------------------------------------------------------------------------
(* A consumer's connection. *)

LEMMA ConnectionSound ==
    ASSUME IInv, NEW c \in Consumers, Boot(c) \/ Connect(c) \/ ConnectFails(c)
    PROVE  IInv'
<1>1. UNCHANGED <<database, accepted, ready, owner, step, writes, rows, printed, dropped, gone>>
  BY DEF Boot, Connect, ConnectFails
<1>2. bound' \in BOOLEAN
  BY Zenon DEF Boot, Connect, ConnectFails, IInv, TypeOK
<1>3. state' \in [Consumers -> {"down", "connecting", "consuming"}]
  BY DEF Boot, Connect, ConnectFails, IInv, TypeOK
<1>4. Attempts \in 1..MaxAttempts
  BY BoundsAssumption DEF Attempts, IInv, TypeOK
<1>5. attempt' \in [Consumers -> 0..MaxAttempts] /\ faults' \in 0..MaxFaults
  BY <1>4, BoundsAssumption DEF Boot, Connect, ConnectFails, Fault, IInv, TypeOK
<1>6. TypeOK'
  BY <1>1, <1>2, <1>3, <1>5 DEF IInv, TypeOK
<1>7. RowsSound' /\ \A k : Listed(k)' = Listed(k)
  BY <1>1, TableKept DEF IInv
<1>8. \A x \in Hooks : HookSound(x)'
  BY <1>1, <1>7, OthersKept DEF IInv
<1>. QED
  BY <1>1, <1>6, <1>7, <1>8 DEF IInv

(* A lost connection gives back to the queue what it held, whatever its handler had done. *)
LEMMA LoseSound ==
    ASSUME IInv, NEW c \in Consumers, Lose(c)
    PROVE  IInv'
<1>1. /\ state' = [state EXCEPT ![c] = "down"]
      /\ ready' = ready \cup Unacked(c)
      /\ writes' \subseteq writes \cup Unacked(c)
      /\ owner' = [h \in Hooks |-> IF owner[h] = c THEN None ELSE owner[h]]
      /\ step' = [h \in Hooks |-> IF owner[h] = c THEN "none" ELSE step[h]]
      /\ UNCHANGED <<database, bound, accepted, attempt, rows, printed, dropped, gone>>
  BY DEF Lose
<1>2. \A x \in Unacked(c) : x \in Hooks /\ owner[x] = c /\ x \in accepted
  BY BoundsAssumption DEF Unacked, IInv, HookSound, HandlerSound
<1>3. faults' \in 0..MaxFaults
  BY BoundsAssumption DEF Lose, Fault, IInv, TypeOK
<1>4. writes' \subseteq accepted' /\ ready' \subseteq accepted'
  BY <1>1, <1>2 DEF IInv, TypeOK
<1>5. TypeOK'
  BY <1>1, <1>3, <1>4 DEF IInv, TypeOK
<1>6. RowsSound' /\ \A k : Listed(k)' = Listed(k)
  BY <1>1, TableKept DEF IInv
<1>7. ASSUME NEW x \in Hooks, owner[x] # c PROVE HookSound(x)'
  BY <1>1, <1>6, <1>7, OthersKept DEF IInv, Unacked
<1>8. ASSUME NEW x \in Hooks, owner[x] = c PROVE HookSound(x)'
  BY <1>1, <1>8 DEF HookSound, HandlerSound, Left, Unacked
<1>. QED
  BY <1>4, <1>5, <1>6, <1>7, <1>8 DEF IInv

-----------------------------------------------------------------------------
(* The handler of one message. *)

(* A nack ends a delivery: the hook is back in the queue, or was dropped and is hopeless. *)
LEMMA NackSound ==
    ASSUME IInv, NEW h \in Hooks, step[h] # "none",
           Requeue(h) \/ (Reject(h) /\ Hopeless(h)),
           UNCHANGED <<database, bound, accepted, state, attempt, writes, printed, gone>>,
           rows' \in [Keys -> Row], RowsSound', \A k \in Keys : Listed(k) \subseteq Listed(k)',
           faults' \in 0..MaxFaults
    PROVE  IInv'
<1>1. owner' = [owner EXCEPT ![h] = None] /\ step' = [step EXCEPT ![h] = "none"]
  BY DEF Requeue, Reject, Release, Goto
<1>2. \/ ready' = ready \cup {h} /\ dropped' = dropped
      \/ ready' = ready /\ dropped' = dropped \cup {h} /\ Hopeless(h)
  BY DEF Requeue, Reject
<1>3. h \in accepted
  BY DEF IInv, HookSound, HandlerSound
<1>4. TypeOK'
  BY <1>1, <1>2, <1>3 DEF IInv, TypeOK
<1>5. \A x \in Hooks : RowKey(x) \in Keys
  BY DEF Keys
<1>6. \A x \in Hooks \ {h} : HookSound(x)'
  BY <1>1, <1>2, <1>5, OthersKept DEF IInv, TypeOK
<1>7. HookSound(h)'
  <2>1. Hopeless(h) => Hopeless(h)'
    BY <1>5, KnownStays
  <2>2. owner'[h] = None /\ step'[h] = "none"
    BY <1>1 DEF IInv, TypeOK
  <2>. QED
    BY <1>2, <2>1, <2>2 DEF HookSound, HandlerSound, Left
<1>. QED
  BY <1>4, <1>6, <1>7 DEF IInv

LEMMA ResolveSound ==
    ASSUME IInv, NEW h \in Hooks, Resolve(h)
    PROVE  IInv'
<1>1. /\ step[h] = "resolve"
      /\ UNCHANGED <<database, bound, accepted, state, attempt, writes, rows, printed, gone>>
  BY DEF Resolve
<1>2. PICK up \in BOOLEAN :
         /\ IF up THEN faults' = faults ELSE HasClaim(Wire[h]) /\ Fault
         /\ CASE ResolveBody(Wire[h], Answer(h, up)) = "ok" ->
                     Goto(h, "record") /\ UNCHANGED <<ready, owner, dropped>>
              [] Retryable(ResolveBody(Wire[h], Answer(h, up))) -> Requeue(h)
              [] OTHER -> Reject(h)
  BY DEF Resolve
<1>. DEFINE outcome == ResolveBody(Wire[h], Answer(h, up))
<1>3. faults' \in 0..MaxFaults
  BY <1>2, BoundsAssumption DEF Fault, IInv, TypeOK
<1>4. RowsSound' /\ \A k : Listed(k)' = Listed(k)
  BY <1>1, TableKept DEF IInv
<1>5. rows' \in [Keys -> Row]
  BY <1>1 DEF IInv, TypeOK
<1>6. CASE outcome = "ok"
  <2>1. step' = [step EXCEPT ![h] = "record"] /\ UNCHANGED <<ready, owner, dropped>>
    BY <1>2, <1>6 DEF Goto, Retryable
  <2>2. TypeOK'
    BY <1>1, <1>3, <2>1 DEF IInv, TypeOK
  <2>3. \A x \in Hooks \ {h} : HookSound(x)'
    BY <1>1, <1>4, <2>1, OthersKept DEF IInv, TypeOK
  <2>4. HookSound(h)'
    BY <1>1, <2>1 DEF IInv, TypeOK, HookSound, HandlerSound, Left
  <2>. QED
    BY <1>1, <1>4, <2>2, <2>3, <2>4 DEF IInv
<1>7. CASE outcome # "ok"
  <2>1. Requeue(h) \/ (Reject(h) /\ ~Retryable(outcome))
    BY <1>2, <1>7
  <2>2. Requeue(h) \/ (Reject(h) /\ Hopeless(h))
    BY <1>7, <2>1, RefusalFinal
  <2>. QED
    BY <1>1, <1>3, <1>4, <1>5, <2>2, NackSound
<1>. QED
  BY <1>6, <1>7

LEMMA HandleHookSound ==
    ASSUME IInv, NEW h \in Hooks, HandleHook(h)
    PROVE  IInv'
<1>1. /\ ~database /\ step[h] = "record"
      /\ printed' = printed \cup {h} /\ step' = [step EXCEPT ![h] = "acked"]
      /\ UNCHANGED <<database, bound, accepted, ready, owner, state, attempt, writes, rows, dropped, gone, faults>>
  BY DEF HandleHook, Goto
<1>2. TypeOK'
  BY <1>1 DEF IInv, TypeOK
<1>3. RowsSound' /\ \A k : Listed(k)' = Listed(k)
  BY <1>1, TableKept DEF IInv
<1>4. \A x \in Hooks \ {h} : HookSound(x)'
  BY <1>1, <1>3, OthersKept DEF IInv, TypeOK
<1>5. Recorded(h)'
  BY <1>1 DEF Recorded
<1>6. HookSound(h)'
  BY <1>1, <1>5 DEF IInv, TypeOK, HookSound, HandlerSound, Left
<1>. QED
  BY <1>1, <1>2, <1>3, <1>4, <1>6 DEF IInv

LEMMA RecordSound ==
    ASSUME IInv, NEW h \in Hooks, Record(h)
    PROVE  IInv'
<1>1. /\ database /\ step[h] = "record" /\ Apply(h)
      /\ step' = [step EXCEPT ![h] = "acked"]
      /\ UNCHANGED <<database, bound, accepted, ready, owner, state, attempt, writes, printed, dropped, gone, faults>>
  BY DEF Record, Goto
<1>2. h \in accepted
  BY <1>1 DEF IInv, HookSound, HandlerSound
<1>3. /\ rows' \in [Keys -> Row] /\ RowsSound'
      /\ \A k \in Keys : Listed(k) \subseteq Listed(k)'
      /\ Wire[h].id \in Listed(RowKey(h))'
  BY <1>1, <1>2, ApplySound
<1>4. TypeOK'
  BY <1>1, <1>3 DEF IInv, TypeOK
<1>5. \A x \in Hooks : RowKey(x) \in Keys
  BY DEF Keys
<1>6. \A x \in Hooks \ {h} : HookSound(x)'
  BY <1>1, <1>3, <1>5, OthersKept DEF IInv, TypeOK
<1>7. Recorded(h)'
  BY <1>1, <1>3 DEF Recorded, Listed
<1>8. HookSound(h)'
  BY <1>1, <1>7 DEF IInv, TypeOK, HookSound, HandlerSound, Left
<1>. QED
  BY <1>1, <1>3, <1>4, <1>6, <1>8 DEF IInv

(* A query whose result is lost may or may not have been applied; the hook is back in the  *)
(* queue either way.                                                                    *)
LEMMA RecordFailsSound ==
    ASSUME IInv, NEW h \in Hooks, RecordFails(h)
    PROVE  IInv'
<1>1. /\ step[h] = "record" /\ Fault /\ Requeue(h)
      /\ Apply(h) \/ rows' = rows
      /\ UNCHANGED <<database, bound, accepted, state, attempt, writes, printed, gone>>
  BY DEF RecordFails
<1>2. h \in accepted
  BY <1>1 DEF IInv, HookSound, HandlerSound
<1>3. rows' \in [Keys -> Row] /\ RowsSound' /\ \A k \in Keys : Listed(k) \subseteq Listed(k)'
  <2>1. CASE Apply(h)
    BY <1>1, <1>2, <2>1, ApplySound
  <2>2. CASE rows' = rows
    BY <1>1, <2>2, TableKept DEF IInv, TypeOK
  <2>. QED
    BY <1>1, <2>1, <2>2
<1>4. faults' \in 0..MaxFaults
  BY <1>1, BoundsAssumption DEF Fault, IInv, TypeOK
<1>. QED
  BY <1>1, <1>3, <1>4, NackSound

LEMMA RecordLateSound ==
    ASSUME IInv, NEW h \in Hooks, RecordLate(h)
    PROVE  IInv'
<1>1. /\ h \in writes /\ writes' = writes \ {h} /\ Apply(h)
      /\ UNCHANGED <<database, bound, accepted, ready, owner, step, state, attempt, printed, dropped, gone, faults>>
  BY DEF RecordLate
<1>2. h \in accepted
  BY <1>1 DEF IInv
<1>3. rows' \in [Keys -> Row] /\ RowsSound' /\ \A k \in Keys : Listed(k) \subseteq Listed(k)'
  BY <1>1, <1>2, ApplySound
<1>4. TypeOK'
  BY <1>1, <1>3 DEF IInv, TypeOK
<1>5. \A x \in Hooks : RowKey(x) \in Keys
  BY DEF Keys
<1>6. \A x \in Hooks : HookSound(x)'
  BY <1>1, <1>3, <1>5, OthersKept DEF IInv
<1>. QED
  BY <1>1, <1>3, <1>4, <1>6 DEF IInv

-----------------------------------------------------------------------------
LEMMA NextSound == IInv /\ [Next]_vars => IInv'
<1>. SUFFICES ASSUME IInv, [Next]_vars PROVE IInv'
  OBVIOUS
<1>1. CASE UNCHANGED vars
  <2>1. RowsSound' /\ \A k : Listed(k)' = Listed(k)
    BY <1>1, TableKept DEF vars, IInv
  <2>2. \A x \in Hooks : HookSound(x)'
    BY <1>1, <2>1, OthersKept DEF vars, IInv
  <2>3. TypeOK' /\ writes' \subseteq accepted'
    BY <1>1 DEF vars, IInv, TypeOK
  <2>. QED
    BY <2>1, <2>2, <2>3 DEF IInv
<1>2. ASSUME NEW h \in Hooks, Handler(h) \/ RecordFails(h) \/ RecordLate(h) PROVE IInv'
  BY <1>2, ResolveSound, HandleHookSound, RecordSound, RecordFailsSound, RecordLateSound DEF Handler
<1>3. ASSUME NEW h \in Hooks,
             Publish(h) \/ AckArrives(h) \/ ClaimExpires(h) \/ \E c \in Consumers : Deliver(c, h)
      PROVE  IInv'
  BY <1>3, PublishSound, AckArrivesSound, ClaimExpiresSound, DeliverSound
<1>4. ASSUME NEW c \in Consumers, Boot(c) \/ Connect(c) \/ ConnectFails(c) \/ Lose(c) PROVE IInv'
  BY <1>4, ConnectionSound, LoseSound
<1>. QED
  BY <1>1, <1>2, <1>3, <1>4 DEF Next

LEMMA Invariance == Spec => []IInv
BY InitSound, NextSound, PTL DEF Spec

(* WorkerInv in every state of every instance: a message waits in the queue or is with one  *)
(* consumer, its ack is sent only once it is recorded, and a row lists each hook of its key  *)
(* once, with no fewer deliveries than hooks (the handler of main, record).                *)
THEOREM WorkerIsSound == Spec => []WorkerInv
<1>1. IInv => WorkerInv
  BY IInvMeans
<1>. QED
  BY <1>1, Invariance, PTL

(* AckedRecorded in every state of every instance: what left the queue was recorded, or was *)
(* rejected because its claim can never be redeemed (the handler of main, record).          *)
THEOREM AckedIsRecorded == Spec => []AckedRecorded
<1>1. IInv => AckedRecorded
  BY IInvMeans
<1>. QED
  BY <1>1, Invariance, PTL
=============================================================================
