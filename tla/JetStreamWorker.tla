-------------------------- MODULE JetStreamWorker --------------------------
(***************************************************************************)
(* The autoscaled JetStream consumer (examples/jetstream-k8s/consumer): the    *)
(* replicas of one Deployment pull from one durable consumer of a work-queue    *)
(* stream, redeem claims, report every hook to a ledger and wait for its reply,  *)
(* then ack.  A hook that can never be processed is copied to a dead-letter      *)
(* stream and terminated.                                                       *)
(*                                                                          *)
(* The broker is what the code relies on: a stored message stays until it is     *)
(* acked or terminated, is delivered again when neither happened in ack_wait or   *)
(* after a nak, and an ack or term is a message of its own that may be lost or    *)
(* late.                                                                        *)
(***************************************************************************)
EXTENDS Message, FiniteSets

CONSTANTS
    Hooks, Replicas,
    Wire,             \* the message of each hook
    Object,           \* the bytes the claim store holds for each hook
    None,
    DedupeCap,        \* DEDUPE_CAP
    MaxAckPending,    \* max_ack_pending
    MaxMessages,      \* consume({ max_messages })
    StreamMax,        \* STREAM_MAX_BYTES, in messages
    MaxHooks,         \* bound on hooks published
    MaxFaults         \* bound on faults

ASSUME NoneAssumption == None \notin Hooks
ASSUME CapAssumption ==
    /\ DedupeCap \in Nat \ {0} /\ MaxAckPending \in Nat /\ MaxMessages \in Nat /\ StreamMax \in Nat
    /\ MaxHooks \in Nat /\ MaxFaults \in Nat

VARIABLES
    topology,    \* which of the streams and the consumer exist
    accepted,    \* hooks the stream has taken
    stream,      \* hooks in the stream
    due,         \* the ones waiting for delivery; the others are out with a replica
    settling,    \* hooks whose ack or term is on its way to the broker
    gone,        \* claims that retention has deleted
    state,       \* of each replica: down, consuming or closing
    buffer,      \* messages a replica has pulled and not started
    job,         \* the hook a replica is handling, and how far it is
    seen,        \* idempotency memory of a replica, oldest first
    late,        \* announcements whose sender no longer waits
    ledger,      \* keys the ledger has counted
    dlq,         \* hooks in the dead-letter stream
    faults

vars == <<topology, accepted, stream, due, settling, gone, state, buffer, job, seen, late, ledger, dlq, faults>>

broker == <<topology, accepted, stream, due, settling, gone>>

-----------------------------------------------------------------------------
Key(h) == IdempotencyKey(Decoded(Wire[h]), FALSE)

Readable(h) == Decodes(Wire[h])

Range(s) == {s[i] : i \in DOMAIN s}

Idle == [hook |-> None, step |-> "idle", heard |-> FALSE]

At(r, step) == job[r].step = step /\ state[r] # "down"

Fault == faults < MaxFaults /\ faults' = faults + 1

Goto(r, step) == job' = [job EXCEPT ![r].step = step, ![r].heard = FALSE]
Finish(r)     == job' = [job EXCEPT ![r] = Idle]

Out == stream \ due

-----------------------------------------------------------------------------
(* The broker and the nodes that publish to it. *)

(* Discard new: a full stream refuses the publish, which the node retries. *)
Publish(h) ==
    /\ "stream" \in topology /\ h \notin accepted /\ Cardinality(stream) < StreamMax /\ Cardinality(accepted) < MaxHooks
    /\ accepted' = accepted \cup {h} /\ stream' = stream \cup {h} /\ due' = due \cup {h}
    /\ UNCHANGED <<topology, settling, gone, state, buffer, job, seen, late, ledger, dlq, faults>>

Deliver(r, h) ==
    /\ state[r] = "consuming" /\ h \in due
    /\ Cardinality(Out) < MaxAckPending /\ Len(buffer[r]) < MaxMessages
    /\ due' = due \ {h} /\ buffer' = [buffer EXCEPT ![r] = Append(@, h)]
    /\ UNCHANGED <<topology, accepted, stream, settling, gone, state, job, seen, late, ledger, dlq, faults>>

(* ack_wait has passed, or the delay of a nak; max_deliver is unlimited. *)
Redeliver(h) ==
    /\ h \in Out
    /\ due' = due \cup {h}
    /\ UNCHANGED <<topology, accepted, stream, settling, gone, state, buffer, job, seen, late, ledger, dlq, faults>>

AckArrives(h) ==
    /\ h \in settling
    /\ settling' = settling \ {h} /\ stream' = stream \ {h} /\ due' = due \ {h}
    /\ UNCHANGED <<topology, accepted, gone, state, buffer, job, seen, late, ledger, dlq, faults>>

AckLost(h) ==
    /\ h \in settling /\ Fault
    /\ settling' = settling \ {h}
    /\ UNCHANGED <<topology, accepted, stream, due, gone, state, buffer, job, seen, late, ledger, dlq>>

(* The keeper deletes a claim object that is old enough. *)
ClaimExpires(h) ==
    /\ h \in accepted \ gone /\ HasClaim(Wire[h])
    /\ gone' = gone \cup {h}
    /\ UNCHANGED <<topology, accepted, stream, due, settling, state, buffer, job, seen, late, ledger, dlq, faults>>

-----------------------------------------------------------------------------
(* The life of a replica. *)

(* main/0 up to consume: each of the streams and the consumer is added, or       *)
(* updated, or the failure is logged; without the consumer main rejects and the   *)
(* process exits.                                                                *)
Boot(r) ==
    /\ state[r] = "down"
    /\ \E made \in SUBSET {"stream", "dlq", "consumer"} :
         /\ "consumer" \in made => "stream" \in topology \cup made
         /\ IF made = {"stream", "dlq", "consumer"} THEN faults' = faults ELSE Fault
         /\ topology' = topology \cup made
         /\ state' = [state EXCEPT ![r] = IF "consumer" \in topology' THEN "consuming" ELSE "down"]
    /\ UNCHANGED <<accepted, stream, due, settling, gone, buffer, job, seen, late, ledger, dlq>>

(* SIGTERM: the iterator is closed, so nothing more is started; the hook being    *)
(* handled goes on until the connection has drained and the process exits.         *)
Shutdown(r) ==
    /\ state[r] = "consuming" /\ Fault
    /\ state' = [state EXCEPT ![r] = "closing"] /\ buffer' = [buffer EXCEPT ![r] = <<>>]
    /\ UNCHANGED <<broker, job, seen, late, ledger, dlq>>

Die(r) ==
    /\ state' = [state EXCEPT ![r] = "down"] /\ buffer' = [buffer EXCEPT ![r] = <<>>]
    /\ job' = [job EXCEPT ![r] = Idle] /\ seen' = [seen EXCEPT ![r] = <<>>]
    /\ late' = IF job[r].step = "announce" /\ ~job[r].heard THEN late \cup {job[r].hook} ELSE late

Exit(r) ==
    /\ state[r] = "closing" /\ Die(r)
    /\ UNCHANGED <<broker, ledger, dlq, faults>>

Crash(r) ==
    /\ state[r] = "consuming" /\ Fault /\ Die(r)
    /\ UNCHANGED <<broker, ledger, dlq>>

-----------------------------------------------------------------------------
(* handle/1: one hook at a time. *)

(* The next message is decoded and looked up in the memory; a hook the replica    *)
(* remembers is announced again without its body.  The simulated work is part of   *)
(* the step before the announcement.                                              *)
Start(r) ==
    /\ state[r] = "consuming" /\ job[r] = Idle /\ buffer[r] # <<>>
    /\ LET h == Head(buffer[r])
           next == IF ~Readable(h) THEN "dead_letter"
                   ELSE IF Key(h) \in Range(seen[r]) \/ HasBody(Wire[h]) THEN "announce"
                   ELSE "redeem"
       IN  job' = [job EXCEPT ![r] = [hook |-> h, step |-> next, heard |-> FALSE]]
    /\ buffer' = [buffer EXCEPT ![r] = Tail(@)]
    /\ UNCHANGED <<broker, state, seen, late, ledger, dlq, faults>>

(* resolveBody/1: the gateway answers what the store holds, or not at all. *)
Answer(h, up) ==
    CASE ~up              -> [status |-> Unanswered, bytes |-> <<>>]
      [] up /\ h \in gone -> [status |-> 404, bytes |-> <<>>]
      [] OTHER            -> [status |-> 200, bytes |-> Object[h]]

(* fail/2: a permanent failure is dead-lettered; a nak only leaves the hook out    *)
(* until the broker delivers it again.                                             *)
ResolveBody(r) ==
    /\ At(r, "redeem")
    /\ \E up \in BOOLEAN :
         LET h == job[r].hook
             outcome == Redeem(Wire[h].claim, Wire[h].sha, Answer(h, up))
         IN  /\ IF up THEN faults' = faults ELSE Fault
             /\ CASE outcome = "ok"     -> Goto(r, "announce")
                  [] Retryable(outcome) -> Finish(r)
                  [] OTHER              -> Goto(r, "dead_letter")
    /\ UNCHANGED <<broker, state, buffer, seen, late, ledger, dlq>>

(* The ledger counts the key, then replies. *)
LedgerHears(r) ==
    /\ At(r, "announce") /\ ~job[r].heard
    /\ ledger' = ledger \cup {Key(job[r].hook)} /\ job' = [job EXCEPT ![r].heard = TRUE]
    /\ UNCHANGED <<broker, state, buffer, seen, late, dlq, faults>>

(* It may hear of a hook whose sender has timed out or died. *)
LedgerHearsLate(h) ==
    /\ h \in late
    /\ late' = late \ {h} /\ ledger' = ledger \cup {Key(h)}
    /\ UNCHANGED <<broker, state, buffer, job, seen, dlq, faults>>

(* remember/1: the oldest key makes room. *)
Remember(s, k) ==
    LET t == IF k \in Range(s) THEN s ELSE Append(s, k)
    IN  IF Len(t) > DedupeCap THEN Tail(t) ELSE t

(* Variants that do not wait for the reply, and that forget the ack. *)
AnnounceRepliedEarly(r) ==
    /\ At(r, "announce")
    /\ seen' = [seen EXCEPT ![r] = Remember(@, Key(job[r].hook))]
    /\ settling' = settling \cup {job[r].hook} /\ Finish(r)
    /\ UNCHANGED <<topology, accepted, stream, due, gone, state, buffer, late, ledger, dlq, faults>>

AnnounceRepliedUnacked(r) ==
    /\ At(r, "announce") /\ job[r].heard
    /\ seen' = [seen EXCEPT ![r] = Remember(@, Key(job[r].hook))] /\ Finish(r)
    /\ UNCHANGED <<broker, state, buffer, late, ledger, dlq, faults>>

(* The reply is in: the key is remembered and the hook acked. *)
AnnounceReplied(r) ==
    /\ At(r, "announce") /\ job[r].heard
    /\ seen' = [seen EXCEPT ![r] = Remember(@, Key(job[r].hook))]
    /\ settling' = settling \cup {job[r].hook} /\ Finish(r)
    /\ UNCHANGED <<topology, accepted, stream, due, gone, state, buffer, late, ledger, dlq, faults>>

(* A variant that acks what was not confirmed. *)
AnnounceTimedOutAcked(r) ==
    /\ At(r, "announce") /\ Fault /\ Finish(r)
    /\ settling' = settling \cup {job[r].hook}
    /\ late' = IF job[r].heard THEN late ELSE late \cup {job[r].hook}
    /\ UNCHANGED <<topology, accepted, stream, due, gone, state, buffer, seen, ledger, dlq>>

(* No reply in 2 s, heard or not: the hook is naked. *)
AnnounceTimedOut(r) ==
    /\ At(r, "announce") /\ Fault /\ Finish(r)
    /\ late' = IF job[r].heard THEN late ELSE late \cup {job[r].hook}
    /\ UNCHANGED <<broker, state, buffer, seen, ledger, dlq>>

(* deadLetter/2: published and confirmed, then terminated. *)
DeadLetter(r) ==
    /\ At(r, "dead_letter") /\ "dlq" \in topology
    /\ dlq' = dlq \cup {job[r].hook} /\ settling' = settling \cup {job[r].hook} /\ Finish(r)
    /\ UNCHANGED <<topology, accepted, stream, due, gone, state, buffer, seen, late, ledger, faults>>

(* The publish fails, or its confirmation is lost after it was stored: nak. *)
DeadLetterFails(r) ==
    /\ At(r, "dead_letter") /\ Finish(r)
    /\ IF "dlq" \in topology THEN Fault ELSE faults' = faults
    /\ \/ dlq' = dlq
       \/ "dlq" \in topology /\ dlq' = dlq \cup {job[r].hook}
    /\ UNCHANGED <<broker, state, buffer, seen, late, ledger>>

-----------------------------------------------------------------------------
Init ==
    /\ topology = {} /\ accepted = {} /\ stream = {} /\ due = {} /\ settling = {} /\ gone = {}
    /\ state = [r \in Replicas |-> "down"] /\ buffer = [r \in Replicas |-> <<>>]
    /\ job = [r \in Replicas |-> Idle] /\ seen = [r \in Replicas |-> <<>>]
    /\ late = {} /\ ledger = {} /\ dlq = {} /\ faults = 0

Step(r) ==
    \/ Start(r) \/ ResolveBody(r) \/ LedgerHears(r) \/ AnnounceReplied(r)
    \/ DeadLetter(r) \/ DeadLetterFails(r)

Next ==
    \/ \E h \in Hooks : \/ Publish(h) \/ Redeliver(h) \/ AckArrives(h) \/ AckLost(h)
                        \/ ClaimExpires(h) \/ LedgerHearsLate(h)
                        \/ \E r \in Replicas : Deliver(r, h)
    \/ \E r \in Replicas : Boot(r) \/ Shutdown(r) \/ Exit(r) \/ Crash(r) \/ Step(r) \/ AnnounceTimedOut(r)

Spec == Init /\ [][Next]_vars

(* The pod is restarted, a process runs, the broker keeps its timers and hands    *)
(* messages out in order, so none is passed over forever.                         *)
Fairness ==
    /\ \A r \in Replicas : WF_vars(Boot(r)) /\ WF_vars(Exit(r)) /\ WF_vars(Step(r))
    /\ \A h \in Hooks : /\ WF_vars(Redeliver(h)) /\ WF_vars(AckArrives(h))
                        /\ SF_vars(\E r \in Replicas : Deliver(r, h))

FairSpec == Spec /\ Fairness

-----------------------------------------------------------------------------
Job == [hook : Hooks, step : {"redeem", "announce", "dead_letter"}, heard : BOOLEAN] \cup {Idle}

(* The types of the variables. *)
TypeOK ==
    /\ topology \subseteq {"stream", "dlq", "consumer"}
    /\ accepted \subseteq Hooks /\ stream \subseteq accepted /\ due \subseteq stream
    /\ settling \subseteq accepted /\ gone \subseteq accepted /\ late \subseteq accepted /\ dlq \subseteq accepted
    /\ state \in [Replicas -> {"down", "consuming", "closing"}]
    /\ buffer \in [Replicas -> Seq(accepted)] /\ job \in [Replicas -> Job]
    /\ DOMAIN seen = Replicas /\ faults \in 0..MaxFaults

(* The event a hook reports: its key, or the hook itself when it has none. *)
EventOf == [h \in Hooks |-> IF Readable(h) THEN Key(h) ELSE <<"unreadable", h>>]

Consumer == INSTANCE AtLeastOnce WITH pending <- stream, handled <- ledger, buried <- dlq, Event <- EventOf

(* "no ledger or no reply means the hook is naked and processed again": a hook    *)
(* leaves the stream only once the ledger counted its key or the dead-letter       *)
(* stream holds it, whatever crashes, times out or is lost (handle, fail).         *)
NothingLost == Consumer!NothingLost

(* The worker implements the abstract consumer: every step that changes what the   *)
(* broker, the ledger and the dead-letter stream hold is one the promise allows.    *)
Refines == Consumer!Spec

(* A replica remembers a key only once the ledger counted it, so the short way of   *)
(* handle, which skips the work, never acks what nobody processed (seen, remember).  *)
SeenCounted == \A r \in Replicas : Range(seen[r]) \subseteq ledger

Verified(h) == HasBody(Wire[h]) \/ Redeem(Wire[h].claim, Wire[h].sha, [status |-> 200, bytes |-> Object[h]]) = "ok"

(* The ledger counts only an event some hook of which decoded and had its body, or  *)
(* the bytes of its claim, verified (decodeMessage, resolveBody).                   *)
CountedVerified == \A k \in ledger : \E h \in accepted : Readable(h) /\ Key(h) = k /\ Verified(h)

Hopeless(h) == ~Readable(h) \/ h \in gone \/ ~Verified(h)

(* Only a hook that can never be processed is dead-lettered: it does not decode, or  *)
(* its claim is gone or damaged; no outage puts one there (fail).                    *)
DeadHopeless == \A h \in dlq : Hopeless(h)

Done(h)     == EventOf[h] \in ledger \/ h \in dlq
Vouched(h)  == Readable(h) /\ (Verified(h) \/ Key(h) \in ledger)

JobSound(r) ==
    /\ job[r] # Idle => job[r].hook \in accepted
    /\ job[r].step = "redeem" => Readable(job[r].hook) /\ ~HasBody(Wire[job[r].hook])
    /\ job[r].step = "announce" => Vouched(job[r].hook) /\ (job[r].heard => Key(job[r].hook) \in ledger)
    /\ job[r].step = "dead_letter" => Hopeless(job[r].hook)

(* Where each hook is in its handling decides what is already known of it: an ack is   *)
(* on its way only for a hook that is counted or buried, a replica announces only what  *)
(* it verified or remembers, and dead-letters only what is hopeless.  With the types    *)
(* this is inductive.                                                                *)
WorkerInv ==
    /\ TypeOK /\ seen \in [Replicas -> Seq(ledger)]
    /\ \A h \in accepted : h \in stream \/ Done(h)
    /\ \A h \in settling : Done(h)
    /\ \A r \in Replicas : JobSound(r)
    /\ \A h \in late : Vouched(h)
    /\ CountedVerified /\ DeadHopeless

(* "A hook is retried until it succeeds or is dead-lettered": every stored hook      *)
(* leaves the stream, once the dead-letter stream could be created.                  *)
EveryHookLeaves ==
    <>[]("dlq" \in topology) => \A h \in Hooks : h \in accepted ~> h \notin stream
=============================================================================
