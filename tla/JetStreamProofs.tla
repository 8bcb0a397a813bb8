-------------------------- MODULE JetStreamProofs --------------------------
(* That the JetStream consumer keeps what it promises, for any number of        *)
(* replicas and hooks, any faults and any bounds: WorkerInv is inductive, it     *)
(* gives the four safety properties, and with it every step of the worker is a    *)
(* step of the abstract consumer or changes nothing there.                       *)
EXTENDS JetStreamWorker, TLAPS

(* The provers of a step that names none, in the order they are tried. *)
USE ZenonT(3), SMTT(8), ZenonT(20), Z3T(30), SMTT(30)

(* A sequence over a set is one over any larger set. *)
LEMMA SeqGrows ==
    ASSUME NEW S, NEW T, S \subseteq T, NEW s \in Seq(S)
    PROVE  s \in Seq(T)
OBVIOUS

(* remember/1 keeps keys of the memory and adds at most the new one. *)
LEMMA RememberKeeps ==
    ASSUME NEW S, NEW s \in Seq(S), NEW k \in S
    PROVE  Remember(s, k) \in Seq(S)
<1>1. Append(s, k) \in Seq(S)
  OBVIOUS
<1>2. \A t \in Seq(S) : Len(t) > DedupeCap => Tail(t) \in Seq(S)
  BY CapAssumption
<1>. QED
  BY <1>1, <1>2 DEF Remember

(* What is known of a hook stays known while the ledger, the dead-letter stream      *)
(* and the expired claims only grow.                                              *)
LEMMA KnownStays ==
    ASSUME ledger \subseteq ledger', dlq \subseteq dlq', gone \subseteq gone', NEW h
    PROVE  /\ Done(h) => Done(h)'
           /\ Vouched(h) => Vouched(h)'
           /\ Hopeless(h) => Hopeless(h)'
BY ZenonT(40) DEF Done, Vouched, Hopeless, EventOf, Verified, Readable, Key

(* A claim whose bytes verified from the store verifies again, and a refusal that is  *)
(* final says the claim is gone or its bytes are wrong.                             *)
LEMMA RedeemTells ==
    ASSUME NEW h, NEW up \in BOOLEAN, ~HasBody(Wire[h]),
           NEW outcome, outcome = Redeem(Wire[h].claim, Wire[h].sha, Answer(h, up))
    PROVE  /\ outcome = "ok" => Verified(h)
           /\ outcome # "ok" /\ ~Retryable(outcome) => h \in gone \/ ~Verified(h)
<1>1. CASE ~up
  <2>1. Answer(h, up) = [status |-> Unanswered, bytes |-> <<>>]
    BY <1>1 DEF Answer
  <2>2. FetchOutcome(Answer(h, up).status) = "unavailable"
    BY <2>1 DEF FetchOutcome, Unanswered
  <2>. QED
    BY <2>2 DEF Redeem, Retryable, Verified
<1>2. CASE up /\ h \in gone
  <2>1. Answer(h, up) = [status |-> 404, bytes |-> <<>>]
    BY <1>2 DEF Answer
  <2>2. FetchOutcome(Answer(h, up).status) = "not_found"
    BY <2>1 DEF FetchOutcome, Unanswered
  <2>. QED
    BY <1>2, <2>2, ZenonT(40) DEF Redeem
<1>3. CASE up /\ h \notin gone
  <2>1. Answer(h, up) = [status |-> 200, bytes |-> Object[h]]
    BY <1>3 DEF Answer
  <2>. QED
    BY <2>1 DEF Verified
<1>. QED
  BY <1>1, <1>2, <1>3

-----------------------------------------------------------------------------
(* What a step may never undo: the ledger, the dead-letter stream and the expired    *)
(* claims only grow, so whatever is left alone stays as sound as it was.             *)
LEMMA InitSound == Init => WorkerInv
<1>. SUFFICES ASSUME Init PROVE WorkerInv
  OBVIOUS
<1>. USE DEF Init
<1>1. TypeOK
  BY CapAssumption DEF TypeOK, Job
<1>2. seen \in [Replicas -> Seq(ledger)]
  OBVIOUS
<1>3. \A r \in Replicas : JobSound(r)
  BY DEF JobSound, Idle
<1>. QED
  BY <1>1, <1>2, <1>3 DEF WorkerInv, CountedVerified, DeadHopeless

LEMMA PublishSound ==
    ASSUME WorkerInv, NEW h \in Hooks, Publish(h)
    PROVE  WorkerInv'
<1>. USE DEF WorkerInv, Publish
<1>1. TypeOK'
  <2>1. \A r \in Replicas : buffer[r] \in Seq(accepted')
    BY SeqGrows DEF TypeOK
  <2>. QED
    BY <2>1 DEF TypeOK
<1>2. (\A g \in accepted : g \in stream \/ Done(g))'
  BY DEF Done
<1>3. (\A r \in Replicas : JobSound(r))'
  BY DEF JobSound, Vouched, Hopeless, Verified
<1>4. (\A g \in settling : Done(g))'
  BY DEF Done
<1>5. (\A g \in late : Vouched(g))'
  BY ZenonT(40) DEF Vouched, Verified
<1>6. (CountedVerified /\ DeadHopeless)'
  BY DEF CountedVerified, DeadHopeless, Hopeless, Verified
<1>. QED
  BY <1>1, <1>2, <1>3, <1>4, <1>5, <1>6

LEMMA DeliverSound ==
    ASSUME WorkerInv, NEW h \in Hooks, NEW r \in Replicas, Deliver(r, h)
    PROVE  WorkerInv'
<1>. USE DEF WorkerInv, Deliver
<1>1. TypeOK'
  <2>1. Append(buffer[r], h) \in Seq(accepted)
    BY DEF TypeOK
  <2>. QED
    BY <2>1 DEF TypeOK
<1>2. (\A g \in accepted : g \in stream \/ Done(g))' /\ (\A g \in settling : Done(g))'
  BY DEF Done
<1>3. (\A q \in Replicas : JobSound(q))'
  BY DEF JobSound, Vouched, Hopeless, Verified
<1>4. (\A g \in late : Vouched(g))'
  BY ZenonT(40) DEF Vouched, Verified
<1>5. (CountedVerified /\ DeadHopeless)'
  BY ZenonT(40) DEF CountedVerified, DeadHopeless, Hopeless, Verified
<1>. QED
  BY <1>1, <1>2, <1>3, <1>4, <1>5

(* An ack or term takes a hook out of the stream only when it is done. *)
LEMMA BrokerSound ==
    ASSUME WorkerInv, NEW h \in Hooks, Redeliver(h) \/ AckArrives(h) \/ AckLost(h) \/ ClaimExpires(h)
    PROVE  WorkerInv'
<1>. USE DEF WorkerInv
<1>0. /\ UNCHANGED <<topology, accepted, state, buffer, job, seen, late, ledger, dlq>>
      /\ gone \subseteq gone' /\ settling' \subseteq settling
      /\ stream' \in {stream, stream \ {h}} /\ (stream' # stream => h \in settling)
  BY DEF Redeliver, AckArrives, AckLost, ClaimExpires, Fault
<1>1. TypeOK'
  <2>1. due' \subseteq stream' /\ stream' \subseteq accepted
    BY DEF TypeOK, Redeliver, AckArrives, AckLost, ClaimExpires, Out
  <2>2. settling' \subseteq accepted /\ gone' \subseteq accepted
    BY DEF TypeOK, Redeliver, AckArrives, AckLost, ClaimExpires
  <2>3. faults' \in 0..MaxFaults
    BY CapAssumption DEF TypeOK, Redeliver, AckArrives, AckLost, ClaimExpires, Fault
  <2>. QED
    BY <1>0, <2>1, <2>2, <2>3 DEF TypeOK
<1>2. ASSUME NEW g
      PROVE  (Done(g) => Done(g)') /\ (Vouched(g) => Vouched(g)') /\ (Hopeless(g) => Hopeless(g)')
  BY <1>0, KnownStays
<1>3. (\A g \in accepted : g \in stream \/ Done(g))'
  BY <1>0, <1>2
<1>4. (\A g \in settling : Done(g))' /\ (\A g \in late : Vouched(g))'
  BY <1>0, <1>2
<1>5. (\A q \in Replicas : JobSound(q))'
  BY <1>0, <1>2 DEF JobSound
<1>6. (CountedVerified /\ DeadHopeless)'
  BY <1>0, <1>2 DEF CountedVerified, DeadHopeless, Verified
<1>. QED
  BY <1>0, <1>1, <1>3, <1>4, <1>5, <1>6

-----------------------------------------------------------------------------
(* A step of one replica is sound when what it adds is: its own job, the acks and    *)
(* announcements it sends, and what it has counted or buried.                        *)
LEMMA ReplicaStep ==
    ASSUME WorkerInv, NEW r \in Replicas,
           UNCHANGED <<accepted, stream, gone>>, ledger \subseteq ledger', dlq \subseteq dlq',
           TypeOK', seen' \in [Replicas -> Seq(ledger')],
           \A q \in Replicas \ {r} : job'[q] = job[q],
           JobSound(r)',
           \A g \in settling' : g \in settling \/ Done(g)',
           \A g \in late' : g \in late \/ Vouched(g)',
           ledger' = ledger \/ CountedVerified',
           \A g \in dlq' : g \in dlq \/ Hopeless(g)'
    PROVE  WorkerInv'
<1>1. ASSUME NEW g
      PROVE  (Done(g) => Done(g)') /\ (Vouched(g) => Vouched(g)') /\ (Hopeless(g) => Hopeless(g)')
  BY KnownStays
<1>2. (\A g \in accepted : g \in stream \/ Done(g))'
  BY <1>1 DEF WorkerInv
<1>3. (\A g \in settling : Done(g))' /\ (\A g \in late : Vouched(g))'
  BY <1>1 DEF WorkerInv
<1>4. ASSUME NEW q \in Replicas PROVE JobSound(q)'
  <2>1. CASE q = r
    BY <2>1
  <2>2. CASE q # r
    <3>1. JobSound(q) /\ job'[q] = job[q]
      BY <2>2 DEF WorkerInv
    <3>2. PICK g : g = job[q].hook
      OBVIOUS
    <3>3. job'[q].hook = g
      BY <3>1, <3>2
    <3>4. (Vouched(g) => Vouched(g)') /\ (Hopeless(g) => Hopeless(g)')
      BY <1>1
    <3>5. job'[q].step = "announce" => Vouched(g)' /\ (job'[q].heard => Key(g) \in ledger')
      BY <3>1, <3>2, <3>4 DEF JobSound
    <3>6. job'[q].step = "dead_letter" => Hopeless(g)'
      BY <3>1, <3>2, <3>4 DEF JobSound
    <3>7. /\ job'[q] # Idle => g \in accepted'
          /\ job'[q].step = "redeem" => Readable(g) /\ ~HasBody(Wire[g])
      BY <3>1, <3>2 DEF JobSound
    <3>. QED
      BY <3>3, <3>5, <3>6, <3>7 DEF JobSound
  <2>. QED
    BY <2>1, <2>2
<1>5. CountedVerified'
  BY ZenonT(40) DEF WorkerInv, CountedVerified, Verified
<1>6. DeadHopeless'
  BY <1>1 DEF WorkerInv, DeadHopeless
<1>. QED
  BY <1>2, <1>3, <1>4, <1>5, <1>6 DEF WorkerInv

LEMMA LedgerHearsLateSound ==
    ASSUME WorkerInv, NEW h \in Hooks, LedgerHearsLate(h)
    PROVE  WorkerInv'
<1>. USE DEF LedgerHearsLate, broker
<1>0. /\ UNCHANGED <<accepted, stream, gone, settling, job, dlq>> /\ ledger \subseteq ledger' /\ late' \subseteq late
  OBVIOUS
<1>1. ASSUME NEW g
      PROVE  (Done(g) => Done(g)') /\ (Vouched(g) => Vouched(g)') /\ (Hopeless(g) => Hopeless(g)')
  BY <1>0, KnownStays
<1>2. TypeOK'
  BY DEF WorkerInv, TypeOK
<1>3. (seen \in [Replicas -> Seq(ledger)])'
  <2>1. \A r \in Replicas : seen[r] \in Seq(ledger')
    BY <1>0, SeqGrows DEF WorkerInv
  <2>. QED
    BY <2>1 DEF WorkerInv
<1>4. (\A g \in accepted : g \in stream \/ Done(g))' /\ (\A g \in settling : Done(g))' /\ (\A g \in late : Vouched(g))'
  BY <1>0, <1>1 DEF WorkerInv
<1>5. (\A q \in Replicas : JobSound(q))'
  BY <1>0, <1>1 DEF WorkerInv, JobSound
<1>6. CountedVerified'
  <2>1. h \in accepted /\ Vouched(h)
    BY DEF WorkerInv, TypeOK
  <2>. QED
    BY <2>1 DEF WorkerInv, CountedVerified, Vouched, Verified
<1>7. DeadHopeless'
  BY <1>0, <1>1 DEF WorkerInv, DeadHopeless
<1>. QED
  BY <1>2, <1>3, <1>4, <1>5, <1>6, <1>7 DEF WorkerInv

(* A replica that is in the middle of a hook has one the stream took. *)
LEMMA AtHook ==
    ASSUME WorkerInv, NEW r \in Replicas, NEW step, step # "idle", At(r, step)
    PROVE  /\ job[r].hook \in accepted /\ job[r].hook \in Hooks
           /\ job \in [Replicas -> Job] /\ job[r] # Idle /\ JobSound(r)
BY DEF WorkerInv, TypeOK, JobSound, At, Idle

LEMMA BootSound ==
    ASSUME WorkerInv, NEW r \in Replicas, Boot(r) \/ Shutdown(r)
    PROVE  WorkerInv'
<1>. USE DEF Boot, Shutdown, broker
<1>1. UNCHANGED <<accepted, stream, due, settling, gone, job, seen, late, ledger, dlq>>
  OBVIOUS
<1>2. TypeOK'
  <2>1. topology' \subseteq {"stream", "dlq", "consumer"}
    BY ZenonT(40) DEF WorkerInv, TypeOK
  <2>2. state' \in [Replicas -> {"down", "consuming", "closing"}] /\ buffer' \in [Replicas -> Seq(accepted)]
    <3>1. state \in [Replicas -> {"down", "consuming", "closing"}] /\ buffer \in [Replicas -> Seq(accepted)]
      BY DEF WorkerInv, TypeOK
    <3>2. state' \in [Replicas -> {"down", "consuming", "closing"}]
      BY <3>1
    <3>3. buffer' \in {buffer, [buffer EXCEPT ![r] = <<>>]} /\ <<>> \in Seq(accepted)
      OBVIOUS
    <3>. QED
      BY <3>1, <3>2, <3>3, ZenonT(40)
  <2>3. faults' \in 0..MaxFaults
    BY CapAssumption DEF WorkerInv, TypeOK, Fault
  <2>. QED
    BY <1>1, <2>1, <2>2, <2>3 DEF WorkerInv, TypeOK
<1>3. JobSound(r)'
  BY <1>1 DEF WorkerInv, JobSound, Vouched, Hopeless, Verified
<1>. QED
  BY <1>1, <1>2, <1>3, ReplicaStep DEF WorkerInv

(* An announcement on its way when the process ends may still reach the ledger. *)
LEMMA DieSound ==
    ASSUME WorkerInv, NEW r \in Replicas, Exit(r) \/ Crash(r)
    PROVE  WorkerInv'
<1>. USE DEF Exit, Crash, Die, broker
<1>1. UNCHANGED <<topology, accepted, stream, due, settling, gone, ledger, dlq>>
  OBVIOUS
<1>2. job' = [job EXCEPT ![r] = Idle] /\ seen' = [seen EXCEPT ![r] = <<>>]
  OBVIOUS
<1>3. ASSUME NEW g \in late' PROVE g \in late \/ (g \in accepted /\ Vouched(g))
  <2>1. CASE job[r].step = "announce" /\ state[r] # "down"
    BY <2>1, <1>3, AtHook DEF At, JobSound
  <2>. QED
    BY <1>3, <2>1
<1>4. TypeOK'
  <2>1. state' \in [Replicas -> {"down", "consuming", "closing"}] /\ buffer' \in [Replicas -> Seq(accepted)]
    <3>1. state \in [Replicas -> {"down", "consuming", "closing"}] /\ buffer \in [Replicas -> Seq(accepted)]
      BY DEF WorkerInv, TypeOK
    <3>2. state' \in [Replicas -> {"down", "consuming", "closing"}]
      BY <3>1, ZenonT(40)
    <3>3. buffer' \in {buffer, [buffer EXCEPT ![r] = <<>>]} /\ <<>> \in Seq(accepted)
      OBVIOUS
    <3>. QED
      BY <3>1, <3>2, <3>3, ZenonT(40)
  <2>2. job' \in [Replicas -> Job] /\ DOMAIN seen' = Replicas
    BY <1>2 DEF WorkerInv, TypeOK, Job
  <2>3. faults' \in 0..MaxFaults
    BY CapAssumption DEF WorkerInv, TypeOK, Fault
  <2>4. late' \subseteq accepted
    BY <1>3 DEF WorkerInv, TypeOK
  <2>. QED
    BY <1>1, <2>1, <2>2, <2>3, <2>4 DEF WorkerInv, TypeOK
<1>5. JobSound(r)'
  BY <1>2 DEF WorkerInv, TypeOK, JobSound, Idle
<1>6. \A g \in late' : g \in late \/ Vouched(g)'
  BY <1>1, <1>3 DEF Vouched, Verified
<1>7. seen' \in [Replicas -> Seq(ledger')] /\ \A q \in Replicas \ {r} : job'[q] = job[q]
  BY <1>1, <1>2 DEF WorkerInv, TypeOK
<1>. QED
  BY <1>1, <1>4, <1>5, <1>6, <1>7, ReplicaStep

(* handle/1 announces at once only what it has the body of or remembers, and what it   *)
(* remembers is counted.                                                              *)
LEMMA StartSound ==
    ASSUME WorkerInv, NEW r \in Replicas, Start(r)
    PROVE  WorkerInv'
<1>. DEFINE h == Head(buffer[r])
            next == IF ~Readable(h) THEN "dead_letter"
                    ELSE IF Key(h) \in Range(seen[r]) \/ HasBody(Wire[h]) THEN "announce"
                    ELSE "redeem"
<1>1. /\ job' = [job EXCEPT ![r] = [hook |-> h, step |-> next, heard |-> FALSE]]
      /\ buffer' = [buffer EXCEPT ![r] = Tail(@)]
      /\ UNCHANGED <<topology, accepted, stream, due, settling, gone, state, seen, late, ledger, dlq, faults>>
  BY DEF Start, broker
<1>2. h \in accepted /\ Tail(buffer[r]) \in Seq(accepted)
  <2>1. buffer[r] \in Seq(accepted) /\ buffer[r] # <<>>
    BY DEF WorkerInv, TypeOK, Start
  <2>. QED
    BY <2>1
<1>3. next \in {"redeem", "announce", "dead_letter"} /\ h \in Hooks
  BY <1>2 DEF WorkerInv, TypeOK
<1>4. Key(h) \in Range(seen[r]) => Key(h) \in ledger
  <2>1. seen[r] \in Seq(ledger)
    BY DEF WorkerInv
  <2>. QED
    BY <2>1 DEF Range
<1>5. /\ next = "redeem" => Readable(h) /\ ~HasBody(Wire[h])
      /\ next = "announce" => Vouched(h)
      /\ next = "dead_letter" => Hopeless(h)
  BY <1>4 DEF Vouched, Verified, Hopeless
<1>. HIDE DEF h, next
<1>6. TypeOK'
  <2>1. job' \in [Replicas -> Job]
    BY <1>1, <1>3 DEF WorkerInv, TypeOK, Job
  <2>2. buffer' \in [Replicas -> Seq(accepted)]
    BY <1>1, <1>2 DEF WorkerInv, TypeOK
  <2>. QED
    BY <1>1, <2>1, <2>2 DEF WorkerInv, TypeOK
<1>7. JobSound(r)'
  <2>1. job'[r] = [hook |-> h, step |-> next, heard |-> FALSE]
    BY <1>1 DEF WorkerInv, TypeOK
  <2>. QED
    BY <1>1, <1>2, <1>5, <2>1 DEF JobSound, Vouched, Verified, Hopeless
<1>8. \A q \in Replicas \ {r} : job'[q] = job[q]
  BY <1>1 DEF WorkerInv, TypeOK
<1>. QED
  BY <1>1, <1>6, <1>7, <1>8, ReplicaStep DEF WorkerInv

(* A job that moves on, or ends, has a type and leaves the others alone. *)
LEMMA JobMoves ==
    ASSUME WorkerInv, NEW r \in Replicas,
           \/ Finish(r)
           \/ job[r] # Idle /\ (Goto(r, "announce") \/ Goto(r, "dead_letter"))
           \/ job[r] # Idle /\ job' = [job EXCEPT ![r].heard = TRUE]
    PROVE  job' \in [Replicas -> Job] /\ \A q \in Replicas \ {r} : job'[q] = job[q]
<1>1. job \in [Replicas -> Job]
  BY DEF WorkerInv, TypeOK
<1>2. job[r] # Idle => job[r].hook \in Hooks /\ job[r] \in Job \ {Idle}
  BY <1>1 DEF Job
<1>3. CASE Finish(r)
  BY <1>1, <1>3 DEF Finish, Job
<1>4. CASE job[r] # Idle /\ (Goto(r, "announce") \/ Goto(r, "dead_letter"))
  <2>1. job'[r] \in [hook : Hooks, step : {"redeem", "announce", "dead_letter"}, heard : BOOLEAN]
    BY <1>1, <1>2, <1>4 DEF Goto, Job
  <2>. QED
    BY <1>1, <1>4, <2>1 DEF Goto, Job
<1>5. CASE job[r] # Idle /\ job' = [job EXCEPT ![r].heard = TRUE]
  <2>1. job'[r] \in [hook : Hooks, step : {"redeem", "announce", "dead_letter"}, heard : BOOLEAN]
    BY <1>1, <1>2, <1>5, ZenonT(40) DEF Job
  <2>. QED
    BY <1>1, <1>5, <2>1 DEF Job
<1>. QED
  BY <1>3, <1>4, <1>5

(* A hook that ended leaves an idle job, which is sound whatever else changed. *)
LEMMA FinishSound ==
    ASSUME WorkerInv, NEW r \in Replicas, Finish(r)
    PROVE  JobSound(r)'
BY DEF WorkerInv, TypeOK, Finish, JobSound, Idle

(* resolveBody goes on to announce only verified bytes, and gives up only on a claim   *)
(* that is gone or damaged.                                                           *)
LEMMA ResolveBodySound ==
    ASSUME WorkerInv, NEW r \in Replicas, ResolveBody(r)
    PROVE  WorkerInv'
<1>. DEFINE h == job[r].hook
<1>1. PICK up \in BOOLEAN :
         LET outcome == Redeem(Wire[h].claim, Wire[h].sha, Answer(h, up))
         IN  /\ IF up THEN faults' = faults ELSE Fault
             /\ CASE outcome = "ok"     -> Goto(r, "announce")
                  [] Retryable(outcome) -> Finish(r)
                  [] OTHER              -> Goto(r, "dead_letter")
  BY DEF ResolveBody
<1>2. UNCHANGED <<topology, accepted, stream, due, settling, gone, state, buffer, seen, late, ledger, dlq>>
  BY DEF ResolveBody, broker
<1>3. PICK outcome : outcome = Redeem(Wire[h].claim, Wire[h].sha, Answer(h, up))
  OBVIOUS
<1>4. At(r, "redeem") /\ JobSound(r) /\ job \in [Replicas -> Job] /\ job[r] # Idle /\ h \in accepted
  BY AtHook DEF ResolveBody
<1>5. Readable(h) /\ ~HasBody(Wire[h])
  BY <1>4 DEF At, JobSound
<1>6. /\ outcome = "ok" => Vouched(h)
      /\ outcome # "ok" /\ ~Retryable(outcome) => Hopeless(h)
  BY <1>3, <1>5, RedeemTells DEF Vouched, Hopeless
<1>7. \/ Finish(r)
      \/ Goto(r, "announce") /\ Vouched(h)
      \/ Goto(r, "dead_letter") /\ Hopeless(h)
  BY <1>1, <1>3, <1>6
<1>8. TypeOK'
  <2>1. faults' \in 0..MaxFaults
    BY <1>1, CapAssumption DEF WorkerInv, TypeOK, Fault
  <2>2. job' \in [Replicas -> Job]
    BY <1>4, <1>7, JobMoves
  <2>. QED
    BY <1>2, <2>1, <2>2 DEF WorkerInv, TypeOK
<1>9. JobSound(r)'
  <2>1. CASE Finish(r)
    BY <2>1, FinishSound
  <2>2. CASE Goto(r, "announce") /\ Vouched(h)
    <3>1. job'[r].hook = h /\ job'[r].step = "announce" /\ job'[r].heard = FALSE
      BY <1>4, <2>2 DEF Goto, Job
    <3>. QED
      BY <1>2, <1>4, <2>2, <3>1, ZenonT(40) DEF JobSound, Vouched, Verified
  <2>3. CASE Goto(r, "dead_letter") /\ Hopeless(h)
    <3>1. job'[r].hook = h /\ job'[r].step = "dead_letter"
      BY <1>4, <2>3 DEF Goto, Job
    <3>. QED
      BY <1>2, <1>4, <2>3, <3>1, ZenonT(40) DEF JobSound, Hopeless, Verified
  <2>. QED
    BY <1>7, <2>1, <2>2, <2>3
<1>. QED
  BY <1>2, <1>4, <1>7, <1>8, <1>9, JobMoves, ReplicaStep DEF WorkerInv

(* The ledger counts what was announced, so a verified hook stands behind the count;    *)
(* a key announced from memory has been counted before.                                *)
LEMMA LedgerHearsSound ==
    ASSUME WorkerInv, NEW r \in Replicas, LedgerHears(r)
    PROVE  WorkerInv'
<1>. DEFINE h == job[r].hook
<1>1. /\ ledger' = ledger \cup {Key(h)} /\ job' = [job EXCEPT ![r].heard = TRUE]
      /\ UNCHANGED <<topology, accepted, stream, due, settling, gone, state, buffer, seen, late, dlq, faults>>
  BY DEF LedgerHears, broker
<1>2. /\ At(r, "announce") /\ JobSound(r) /\ job \in [Replicas -> Job] /\ job[r] # Idle
      /\ h \in accepted /\ Vouched(h)
  BY AtHook DEF LedgerHears, JobSound, At
<1>3. TypeOK'
  <2>1. job' \in [Replicas -> Job]
    BY <1>1, <1>2, JobMoves, ZenonT(40)
  <2>. QED
    BY <1>1, <2>1 DEF WorkerInv, TypeOK
<1>4. (seen \in [Replicas -> Seq(ledger)])'
  <2>1. \A q \in Replicas : seen[q] \in Seq(ledger')
    BY <1>1, SeqGrows DEF WorkerInv
  <2>. QED
    BY <1>1, <2>1 DEF WorkerInv
<1>5. JobSound(r)'
  <2>1. job'[r].hook = h /\ job'[r].step = "announce" /\ Key(h) \in ledger'
    BY <1>1, <1>2 DEF Job, At
  <2>. QED
    BY <1>1, <1>2, <2>1 DEF JobSound, Vouched, Verified
<1>6. CountedVerified'
  BY <1>1, <1>2 DEF WorkerInv, CountedVerified, Vouched, Verified
<1>7. \A q \in Replicas \ {r} : job'[q] = job[q]
  BY <1>1, <1>2, JobMoves
<1>. QED
  BY <1>1, <1>3, <1>4, <1>5, <1>6, <1>7, ReplicaStep

(* The reply is the proof that the hook was counted; only then is it acked. *)
LEMMA AnnounceRepliedSound ==
    ASSUME WorkerInv, NEW r \in Replicas, AnnounceReplied(r)
    PROVE  WorkerInv'
<1>. DEFINE h == job[r].hook
<1>1. /\ seen' = [seen EXCEPT ![r] = Remember(@, Key(h))] /\ settling' = settling \cup {h} /\ Finish(r)
      /\ UNCHANGED <<topology, accepted, stream, due, gone, state, buffer, late, ledger, dlq, faults>>
  BY DEF AnnounceReplied
<1>2. h \in accepted /\ h \in Hooks /\ Readable(h) /\ Key(h) \in ledger
  BY AtHook DEF AnnounceReplied, At, JobSound, Vouched
<1>3. Done(h)
  BY <1>2 DEF Done, EventOf
<1>4. seen' \in [Replicas -> Seq(ledger)]
  <2>1. Remember(seen[r], Key(h)) \in Seq(ledger)
    BY <1>2, RememberKeeps DEF WorkerInv
  <2>. QED
    BY <1>1, <2>1 DEF WorkerInv
<1>5. job' \in [Replicas -> Job] /\ \A q \in Replicas \ {r} : job'[q] = job[q]
  BY <1>1, JobMoves
<1>6. TypeOK'
  BY <1>1, <1>2, <1>4, <1>5 DEF WorkerInv, TypeOK
<1>7. JobSound(r)'
  BY <1>1, FinishSound
<1>8. \A g \in settling' : g \in settling \/ Done(g)'
  BY <1>1, <1>3 DEF Done
<1>. QED
  BY <1>1, <1>4, <1>5, <1>6, <1>7, <1>8, ReplicaStep

LEMMA AnnounceTimedOutSound ==
    ASSUME WorkerInv, NEW r \in Replicas, AnnounceTimedOut(r)
    PROVE  WorkerInv'
<1>1. /\ Finish(r) /\ Fault /\ late' \subseteq late \cup {job[r].hook}
      /\ UNCHANGED <<topology, accepted, stream, due, settling, gone, state, buffer, seen, ledger, dlq>>
  BY DEF AnnounceTimedOut, broker
<1>2. job[r].hook \in accepted /\ Vouched(job[r].hook)
  BY AtHook DEF AnnounceTimedOut, At, JobSound
<1>3. job' \in [Replicas -> Job] /\ \A q \in Replicas \ {r} : job'[q] = job[q]
  BY <1>1, JobMoves
<1>4. TypeOK'
  <2>1. faults' \in 0..MaxFaults
    BY <1>1, CapAssumption DEF WorkerInv, TypeOK, Fault
  <2>. QED
    BY <1>1, <1>2, <1>3, <2>1 DEF WorkerInv, TypeOK
<1>5. JobSound(r)'
  BY <1>1, FinishSound
<1>6. \A g \in late' : g \in late \/ Vouched(g)'
  BY <1>1, <1>2, ZenonT(40) DEF Vouched, Verified
<1>. QED
  BY <1>1, <1>3, <1>4, <1>5, <1>6, ReplicaStep DEF WorkerInv

(* deadLetter/2: the hook is hopeless, and is terminated only where its copy is stored. *)
LEMMA DeadLetterSound ==
    ASSUME WorkerInv, NEW r \in Replicas, DeadLetter(r) \/ DeadLetterFails(r)
    PROVE  WorkerInv'
<1>. DEFINE h == job[r].hook
<1>1. /\ Finish(r)
      /\ UNCHANGED <<topology, accepted, stream, due, gone, state, buffer, seen, late, ledger>>
      /\ dlq \subseteq dlq' /\ dlq' \subseteq dlq \cup {h}
      /\ settling' = settling \/ (settling' = settling \cup {h} /\ h \in dlq')
  BY DEF DeadLetter, DeadLetterFails, broker
<1>2. h \in accepted /\ Hopeless(h)
  BY AtHook, ZenonT(40) DEF DeadLetter, DeadLetterFails, At, JobSound
<1>3. job' \in [Replicas -> Job] /\ \A q \in Replicas \ {r} : job'[q] = job[q]
  BY <1>1, JobMoves
<1>4. TypeOK'
  <2>1. faults' \in 0..MaxFaults
    BY CapAssumption DEF WorkerInv, TypeOK, Fault, DeadLetter, DeadLetterFails
  <2>. QED
    BY <1>1, <1>2, <1>3, <2>1 DEF WorkerInv, TypeOK
<1>5. JobSound(r)'
  BY <1>1, FinishSound
<1>6. \A g \in settling' : g \in settling \/ Done(g)'
  BY <1>1 DEF Done
<1>7. \A g \in dlq' : g \in dlq \/ Hopeless(g)'
  BY <1>1, <1>2 DEF Hopeless, Verified
<1>. QED
  BY <1>1, <1>3, <1>4, <1>5, <1>6, <1>7, ReplicaStep DEF WorkerInv

-----------------------------------------------------------------------------
LEMMA NextSound == WorkerInv /\ [Next]_vars => WorkerInv'
<1>. SUFFICES ASSUME WorkerInv, [Next]_vars PROVE WorkerInv'
  OBVIOUS
<1>1. ASSUME NEW h \in Hooks, Publish(h) PROVE WorkerInv'
  BY <1>1, PublishSound
<1>2. ASSUME NEW h \in Hooks, NEW r \in Replicas, Deliver(r, h) PROVE WorkerInv'
  BY <1>2, DeliverSound
<1>3. ASSUME NEW h \in Hooks, Redeliver(h) \/ AckArrives(h) \/ AckLost(h) \/ ClaimExpires(h) PROVE WorkerInv'
  BY <1>3, BrokerSound
<1>4. ASSUME NEW h \in Hooks, LedgerHearsLate(h) PROVE WorkerInv'
  BY <1>4, LedgerHearsLateSound
<1>5. ASSUME NEW r \in Replicas, Boot(r) \/ Shutdown(r) PROVE WorkerInv'
  BY <1>5, BootSound
<1>6. ASSUME NEW r \in Replicas, Exit(r) \/ Crash(r) PROVE WorkerInv'
  BY <1>6, DieSound
<1>7. ASSUME NEW r \in Replicas, Step(r) PROVE WorkerInv'
  BY <1>7, StartSound, ResolveBodySound, LedgerHearsSound, AnnounceRepliedSound, DeadLetterSound DEF Step
<1>8. ASSUME NEW r \in Replicas, AnnounceTimedOut(r) PROVE WorkerInv'
  BY <1>8, AnnounceTimedOutSound
<1>9. CASE UNCHANGED vars
  <2>1. UNCHANGED <<topology, accepted, stream, due, settling, gone, state, buffer, job, seen, late,
                    ledger, dlq, faults>>
    BY <1>9 DEF vars
  <2>2. TypeOK' /\ seen' \in [Replicas -> Seq(ledger')]
    BY <2>1 DEF WorkerInv, TypeOK
  <2>3. ASSUME NEW g
        PROVE  (Done(g) => Done(g)') /\ (Vouched(g) => Vouched(g)') /\ (Hopeless(g) => Hopeless(g)')
    BY <2>1, KnownStays
  <2>4. (\A g \in accepted : g \in stream \/ Done(g))' /\ (\A g \in settling : Done(g))'
    BY <2>1, <2>3 DEF WorkerInv
  <2>5. (\A q \in Replicas : JobSound(q))'
    BY <2>1, <2>3, ZenonT(40) DEF WorkerInv, JobSound
  <2>6. (\A g \in late : Vouched(g))'
    BY <2>1, <2>3 DEF WorkerInv
  <2>7. (CountedVerified /\ DeadHopeless)'
    BY <2>1, <2>3, ZenonT(40) DEF WorkerInv, CountedVerified, DeadHopeless, Verified
  <2>. QED
    BY <2>2, <2>4, <2>5, <2>6, <2>7 DEF WorkerInv
<1>. QED
  BY <1>1, <1>2, <1>3, <1>4, <1>5, <1>6, <1>7, <1>8, <1>9 DEF Next

(* The inductive invariant: at every moment, what is known of a hook matches where it   *)
(* is between the stream, the replicas, the ledger and the dead-letter stream.          *)
THEOREM WorkerIsSound == Spec => []WorkerInv
BY InitSound, NextSound, PTL DEF Spec

(* No accepted hook is lost, for any number of hooks, replicas and faults: it is in the  *)
(* stream, counted or dead-lettered (handle, fail and deadLetter ack or term last).      *)
THEOREM WorkerLosesNothing == Spec => []NothingLost
<1>1. WorkerInv => NothingLost
  BY DEF WorkerInv, NothingLost, Consumer!NothingLost, Consumer!Done, Done
<1>. QED
  BY <1>1, WorkerIsSound, PTL

(* The memory of a replica never gets ahead of the ledger (remember after the reply),    *)
(* the ledger counts only verified events, and only the hopeless are dead-lettered.      *)
THEOREM WorkerCountsWhatIsTrue == Spec => [](SeenCounted /\ CountedVerified /\ DeadHopeless)
<1>1. WorkerInv => SeenCounted /\ CountedVerified /\ DeadHopeless
  <2>. SUFFICES ASSUME WorkerInv PROVE SeenCounted
    BY DEF WorkerInv
  <2>1. \A r \in Replicas : seen[r] \in Seq(ledger)
    BY DEF WorkerInv
  <2>. QED
    BY <2>1 DEF SeenCounted, Range
<1>. QED
  BY <1>1, WorkerIsSound, PTL

(* Every step of the worker is a step of the abstract consumer or leaves it alone: a    *)
(* publish accepts, the ledger's count handles, a dead letter buries, an ack settles.    *)
LEMMA NextRefines == WorkerInv /\ [Next]_vars => [Consumer!Next]_Consumer!vars
<1>. SUFFICES ASSUME WorkerInv, [Next]_vars PROVE [Consumer!Next]_Consumer!vars
  OBVIOUS
<1>. USE DEF Consumer!Next, Consumer!vars
<1>1. ASSUME NEW h \in Hooks, Publish(h) PROVE Consumer!Next
  <2>1. Consumer!Accept(h)
    BY <1>1 DEF Publish, Consumer!Accept
  <2>. QED
    BY <2>1
<1>2. ASSUME NEW h \in Hooks, AckArrives(h) PROVE [Consumer!Next]_Consumer!vars
  <2>1. Done(h)
    BY <1>2 DEF AckArrives, WorkerInv
  <2>2. CASE h \in stream
    <3>1. Consumer!Settle(h)
      BY <1>2, <2>1, <2>2 DEF AckArrives, Consumer!Settle, Consumer!Done, Done
    <3>. QED
      BY <3>1
  <2>3. CASE h \notin stream
    BY <1>2, <2>3 DEF AckArrives
  <2>. QED
    BY <2>2, <2>3
<1>3. ASSUME NEW h \in Hooks, LedgerHearsLate(h) PROVE Consumer!Next
  <2>1. h \in accepted /\ Readable(h)
    BY <1>3 DEF LedgerHearsLate, WorkerInv, TypeOK, Vouched
  <2>2. Consumer!Handle(h)
    BY <1>3, <2>1 DEF LedgerHearsLate, broker, Consumer!Handle, EventOf
  <2>. QED
    BY <2>2
<1>4. ASSUME NEW r \in Replicas, LedgerHears(r) PROVE Consumer!Next
  <2>1. job[r].hook \in Hooks /\ job[r].hook \in accepted /\ Readable(job[r].hook)
    BY <1>4, AtHook DEF LedgerHears, At, JobSound, Vouched
  <2>2. Consumer!Handle(job[r].hook)
    BY <1>4, <2>1 DEF LedgerHears, broker, Consumer!Handle, EventOf
  <2>. QED
    BY <2>1, <2>2
<1>5. ASSUME NEW r \in Replicas, DeadLetter(r) \/ DeadLetterFails(r) PROVE [Consumer!Next]_Consumer!vars
  <2>1. job[r].hook \in Hooks /\ job[r].hook \in accepted
    BY <1>5, AtHook, ZenonT(40) DEF DeadLetter, DeadLetterFails
  <2>2. \/ Consumer!Bury(job[r].hook)
        \/ UNCHANGED <<accepted, stream, ledger, dlq>>
    BY <1>5, <2>1 DEF DeadLetter, DeadLetterFails, broker, Consumer!Bury
  <2>. QED
    BY <2>1, <2>2
<1>6. ASSUME NEW h \in Hooks,
             Redeliver(h) \/ AckLost(h) \/ ClaimExpires(h) \/ \E r \in Replicas : Deliver(r, h)
      PROVE  UNCHANGED <<accepted, stream, ledger, dlq>>
  BY <1>6 DEF Redeliver, AckLost, ClaimExpires, Deliver
<1>7. ASSUME NEW r \in Replicas,
             \/ Boot(r) \/ Shutdown(r) \/ Exit(r) \/ Crash(r) \/ AnnounceTimedOut(r)
             \/ Start(r) \/ ResolveBody(r) \/ AnnounceReplied(r)
      PROVE  UNCHANGED <<accepted, stream, ledger, dlq>>
  BY <1>7 DEF Boot, Shutdown, Exit, Crash, AnnounceTimedOut, Start, ResolveBody, AnnounceReplied, broker
<1>8. CASE UNCHANGED vars
  BY <1>8 DEF vars
<1>. QED
  BY <1>1, <1>2, <1>3, <1>4, <1>5, <1>6, <1>7, <1>8 DEF Next, Step

(* The JetStream worker implements the at-least-once consumer of docs/delivery.md, for   *)
(* every instance: ack only after the reply, term only after the copy is stored.          *)
THEOREM WorkerRefines == Spec => Refines
<1>1. Init => Consumer!Init
  BY DEF Init, Consumer!Init
<1>. QED
  BY <1>1, NextRefines, WorkerIsSound, PTL DEF Spec, Refines, Consumer!Spec
=============================================================================
