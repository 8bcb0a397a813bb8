---------------------------- MODULE AmqpWorker ----------------------------
(***************************************************************************)
(* The RabbitMQ consumers: the worker of examples/rabbitmq-consumer, which      *)
(* prints a hook, and the one of examples/fleet-e2e, which upserts it into a     *)
(* table keyed by the idempotency key.  The broker pushes up to `prefetch`       *)
(* messages, whose handlers run concurrently; each ends in an ack, a nack that    *)
(* requeues, or a nack that does not.                                            *)
(*                                                                          *)
(* The broker and the database are what the code relies on: a requeued message    *)
(* returns to its place, what a lost connection held is requeued, and an upsert    *)
(* is atomic, though its caller may not live to see it.                           *)
(***************************************************************************)
EXTENDS Message, FiniteSets

CONSTANTS
    Hooks, Consumers,
    Place,            \* of each hook: its place in the queue
    Wire,             \* the message of each hook
    Object,           \* the bytes the claim store holds for each hook
    None,
    Prefetch,         \* chan.prefetch
    MaxAttempts,      \* attempts of fleet-e2e's connect/0, which is 60
    MaxFaults         \* bound on faults, and so on redeliveries

ASSUME PlaceAssumption == Place \in [Hooks -> Nat] /\ \A a, b \in Hooks : Place[a] = Place[b] => a = b
ASSUME BoundsAssumption ==
    /\ None \notin Consumers /\ Prefetch \in Nat \ {0}
    /\ MaxAttempts \in Nat \ {0} /\ MaxFaults \in Nat

VARIABLES
    database,    \* TRUE for the consumer of fleet-e2e, FALSE for rabbitmq-consumer's
    bound,       \* the queue is declared and bound to the exchange
    accepted,    \* hooks the queue has taken
    ready,       \* hooks waiting in the queue
    owner,       \* of each hook: the consumer it is delivered to
    step,        \* of each delivered hook: how far its handler is
    state,       \* of each consumer: down, connecting or consuming
    attempt,     \* its attempts to connect
    writes,      \* upserts on their way whose caller is gone
    rows,        \* processed_webhooks: deliveries and hook ids by key
    printed,     \* hooks handleHook was called with
    dropped,     \* hooks that were nacked without requeue
    gone,        \* claims that are no longer in the store
    faults

vars == <<database, bound, accepted, ready, owner, step, state, attempt, writes, rows, printed, dropped, gone, faults>>

-----------------------------------------------------------------------------
(* `msg.idempotency_key ?? msg.id` *)
RowKey(h) == IF Wire[h].idempotency_key = <<>> THEN <<Wire[h].id>> ELSE Wire[h].idempotency_key

Keys == {RowKey(h) : h \in Hooks}

NoRow == [deliveries |-> 0, hook_ids |-> <<>>]

Unacked(c) == {h \in Hooks : owner[h] = c}

Fault == faults < MaxFaults /\ faults' = faults + 1

Goto(h, s) == step' = [step EXCEPT ![h] = s]

Release(h) == owner' = [owner EXCEPT ![h] = None] /\ Goto(h, "none")

(* A variant that forgets the nack. *)
RequeueForgotten(h) == Goto(h, "none") /\ UNCHANGED <<owner, ready, dropped>>

(* chan.nack(msg, false, requeue); the queue has no dead-letter exchange. *)
Requeue(h) == Release(h) /\ ready' = ready \cup {h} /\ dropped' = dropped
Reject(h)  == Release(h) /\ dropped' = dropped \cup {h} /\ ready' = ready

-----------------------------------------------------------------------------
(* The broker. *)

(* A publish that no queue is bound for is unroutable, and the node retries it. *)
Publish(h) ==
    /\ bound /\ h \notin accepted
    /\ accepted' = accepted \cup {h} /\ ready' = ready \cup {h}
    /\ UNCHANGED <<database, bound, owner, step, state, attempt, writes, rows, printed, dropped, gone, faults>>

Deliver(c, h) ==
    /\ state[c] = "consuming" /\ h \in ready /\ \A x \in ready : Place[h] <= Place[x]
    /\ Cardinality(Unacked(c)) < Prefetch
    /\ ready' = ready \ {h} /\ owner' = [owner EXCEPT ![h] = c] /\ Goto(h, "resolve")
    /\ UNCHANGED <<database, bound, accepted, state, attempt, writes, rows, printed, dropped, gone, faults>>

AckArrives(h) ==
    /\ step[h] = "acked" /\ Release(h)
    /\ UNCHANGED <<database, bound, accepted, ready, state, attempt, writes, rows, printed, dropped, gone, faults>>

ClaimExpires(h) ==
    /\ h \notin gone /\ HasClaim(Wire[h]) /\ gone' = gone \cup {h}
    /\ UNCHANGED <<database, bound, accepted, ready, owner, step, state, attempt, writes, rows, printed, dropped, faults>>

-----------------------------------------------------------------------------
(* A consumer's connection. *)

Boot(c) ==
    /\ state[c] = "down"
    /\ state' = [state EXCEPT ![c] = "connecting"] /\ attempt' = [attempt EXCEPT ![c] = 1]
    /\ UNCHANGED <<database, bound, accepted, ready, owner, step, writes, rows, printed, dropped, gone, faults>>

(* rabbitmq-consumer connects once. *)
Attempts == IF database THEN MaxAttempts ELSE 1

(* connect/0 and the declarations of main/0. *)
Connect(c) ==
    /\ state[c] = "connecting"
    /\ state' = [state EXCEPT ![c] = "consuming"] /\ bound' = TRUE
    /\ UNCHANGED <<database, accepted, ready, owner, step, attempt, writes, rows, printed, dropped, gone, faults>>

ConnectFails(c) ==
    /\ state[c] = "connecting" /\ Fault
    /\ IF attempt[c] >= Attempts
         THEN state' = [state EXCEPT ![c] = "down"] /\ attempt' = attempt
         ELSE attempt' = [attempt EXCEPT ![c] = @ + 1] /\ state' = state
    /\ UNCHANGED <<database, bound, accepted, ready, owner, step, writes, rows, printed, dropped, gone>>

(* The process or its connection is lost.  Acks that had not arrived are lost with  *)
(* it; an upsert that was sent may still happen.                                    *)
Lose(c) ==
    /\ state[c] = "consuming" /\ Fault
    /\ state' = [state EXCEPT ![c] = "down"]
    /\ ready' = ready \cup Unacked(c)
    /\ writes' = writes \cup {h \in Unacked(c) : database /\ step[h] = "record"}
    /\ owner' = [h \in Hooks |-> IF owner[h] = c THEN None ELSE owner[h]]
    /\ step' = [h \in Hooks |-> IF owner[h] = c THEN "none" ELSE step[h]]
    /\ UNCHANGED <<database, bound, accepted, attempt, rows, printed, dropped, gone>>

-----------------------------------------------------------------------------
(* The handler of one message. *)

(* What is no JSON, or null, throws a SyntaxError or a TypeError, and a scalar has    *)
(* nothing for the columns of the table: no ClaimCheckError, so each is requeued       *)
(* like an outage.                                                                   *)
Throws(raw) == raw.json \in {"malformed", "null"} \/ (database /\ raw.json = "scalar")

(* resolveBody/1; the bytes of an inline body are taken as they are. *)
ResolveBody(raw, answer) ==
    IF Throws(raw) THEN "unavailable"
    ELSE IF ~HasClaim(raw) THEN "ok"
    ELSE IF raw.sha.form \in {"absent", "null"} THEN "invalid_ref"
    ELSE Redeem(raw.claim, raw.sha, answer)

Answer(h, up) ==
    CASE ~up              -> [status |-> Unanswered, bytes |-> <<>>]
      [] up /\ h \in gone -> [status |-> 404, bytes |-> <<>>]
      [] OTHER            -> [status |-> 200, bytes |-> Object[h]]

(* JSON.parse and resolveBody, and the nack of the catch clause. *)
Resolve(h) ==
    /\ step[h] = "resolve"
    /\ \E up \in BOOLEAN :
         LET outcome == ResolveBody(Wire[h], Answer(h, up))
         IN  /\ IF up THEN faults' = faults ELSE HasClaim(Wire[h]) /\ Fault
             /\ CASE outcome = "ok"     -> Goto(h, "record") /\ UNCHANGED <<ready, owner, dropped>>
                  [] Retryable(outcome) -> Requeue(h)
                  [] OTHER              -> Reject(h)
    /\ UNCHANGED <<database, bound, accepted, state, attempt, writes, rows, printed, gone>>

(* handleHook/4 prints, then the message is acked. *)
HandleHook(h) ==
    /\ ~database /\ step[h] = "record"
    /\ printed' = printed \cup {h} /\ Goto(h, "acked")
    /\ UNCHANGED <<database, bound, accepted, ready, owner, state, attempt, writes, rows, dropped, gone, faults>>

(* A variant that appends the id every time. *)
UpsertAppends(row, id) == [deliveries |-> row.deliveries + 1, hook_ids |-> Append(row.hook_ids, id)]

(* record/3: INSERT ... ON CONFLICT (idempotency_key) DO UPDATE. *)
Upsert(row, id) ==
    [deliveries |-> row.deliveries + 1,
     hook_ids   |-> IF \E i \in DOMAIN row.hook_ids : row.hook_ids[i] = id
                      THEN row.hook_ids ELSE Append(row.hook_ids, id)]

Apply(h) == rows' = [rows EXCEPT ![RowKey(h)] = Upsert(@, Wire[h].id)]

Record(h) ==
    /\ database /\ step[h] = "record"
    /\ Apply(h) /\ Goto(h, "acked")
    /\ UNCHANGED <<database, bound, accepted, ready, owner, state, attempt, writes, printed, dropped, gone, faults>>

(* A variant that acks although the query failed. *)
RecordFailsAcked(h) ==
    /\ database /\ step[h] = "record" /\ Fault /\ Goto(h, "acked")
    /\ UNCHANGED <<database, bound, accepted, ready, owner, state, attempt, writes, rows, printed, dropped, gone>>

(* The query fails, or its result is lost after it was applied. *)
RecordFails(h) ==
    /\ database /\ step[h] = "record" /\ Fault /\ Requeue(h)
    /\ Apply(h) \/ rows' = rows
    /\ UNCHANGED <<database, bound, accepted, state, attempt, writes, printed, gone>>

RecordLate(h) ==
    /\ h \in writes /\ writes' = writes \ {h} /\ Apply(h)
    /\ UNCHANGED <<database, bound, accepted, ready, owner, step, state, attempt, printed, dropped, gone, faults>>

-----------------------------------------------------------------------------
Init ==
    /\ database \in BOOLEAN /\ bound = FALSE /\ accepted = {} /\ ready = {}
    /\ owner = [h \in Hooks |-> None] /\ step = [h \in Hooks |-> "none"]
    /\ state = [c \in Consumers |-> "down"] /\ attempt = [c \in Consumers |-> 0]
    /\ writes = {} /\ rows = [k \in Keys |-> NoRow]
    /\ printed = {} /\ dropped = {} /\ gone = {} /\ faults = 0

Handler(h) == Resolve(h) \/ HandleHook(h) \/ Record(h)

Next ==
    \/ \E h \in Hooks : \/ Publish(h) \/ AckArrives(h) \/ ClaimExpires(h)
                        \/ Handler(h) \/ RecordFails(h) \/ RecordLate(h)
                        \/ \E c \in Consumers : Deliver(c, h)
    \/ \E c \in Consumers : Boot(c) \/ Connect(c) \/ ConnectFails(c) \/ Lose(c)

Spec == Init /\ [][Next]_vars

(* The process is restarted and runs; the broker pushes what the prefetch allows at  *)
(* once, so a message that is first in the queue again and again is delivered.       *)
Fairness ==
    /\ \A c \in Consumers : WF_vars(Boot(c)) /\ WF_vars(Connect(c))
    /\ \A h \in Hooks : /\ WF_vars(Handler(h)) /\ WF_vars(AckArrives(h))
                        /\ SF_vars(\E c \in Consumers : Deliver(c, h))

FairSpec == Spec /\ Fairness

-----------------------------------------------------------------------------
Row == [deliveries : Nat, hook_ids : Seq({Wire[h].id : h \in Hooks})]

(* The types of the variables. *)
TypeOK ==
    /\ database \in BOOLEAN /\ bound \in BOOLEAN /\ accepted \subseteq Hooks /\ ready \subseteq accepted
    /\ owner \in [Hooks -> Consumers \cup {None}]
    /\ step \in [Hooks -> {"none", "resolve", "record", "acked"}]
    /\ state \in [Consumers -> {"down", "connecting", "consuming"}]
    /\ attempt \in [Consumers -> 0..MaxAttempts]
    /\ writes \subseteq Hooks /\ printed \subseteq Hooks /\ dropped \subseteq Hooks /\ gone \subseteq Hooks
    /\ rows \in [Keys -> Row] /\ faults \in 0..MaxFaults

Recorded(h) ==
    IF database THEN \E i \in DOMAIN rows[RowKey(h)].hook_ids : rows[RowKey(h)].hook_ids[i] = Wire[h].id
                ELSE h \in printed

Queued == {h \in Hooks : h \in ready \/ owner[h] # None}

(* Whether no retry could redeem the claim of a hook. *)
Hopeless(h) == ~Retryable(ResolveBody(Wire[h], Answer(h, TRUE))) /\ ResolveBody(Wire[h], Answer(h, TRUE)) # "ok"

(* A hook that left the queue was recorded under its key, by its own id, or was       *)
(* rejected because its claim can never be redeemed; a lost connection, a failed      *)
(* query and a late one change nothing of that (the handler of main, record).         *)
AckedRecorded == \A h \in accepted \ Queued : Recorded(h) \/ (h \in dropped /\ Hopeless(h))

(* A row lists each hook once: the deliveries a row counts are never fewer than the  *)
(* hooks it lists, and it lists only hooks of its key that were accepted (record).     *)
RowsSound ==
    \A k \in Keys :
      LET row == rows[k]
      IN  /\ Len(row.hook_ids) <= row.deliveries
          /\ \A i \in DOMAIN row.hook_ids :
               /\ \E h \in accepted : RowKey(h) = k /\ Wire[h].id = row.hook_ids[i]
               /\ \A j \in DOMAIN row.hook_ids : row.hook_ids[i] = row.hook_ids[j] => i = j

HandlerSound(h) ==
    /\ owner[h] # None <=> step[h] # "none"
    /\ owner[h] # None => h \in accepted /\ h \notin ready
    /\ step[h] = "acked" => Recorded(h)

(* A message is waiting or with one consumer, never both, and its ack is on its way only  *)
(* once it is recorded; an upsert on its way is one of an accepted hook.                 *)
HandlersSound == writes \subseteq accepted /\ \A h \in Hooks : HandlerSound(h)

(* The state is well formed, a message has one place, and the table of events is sound    *)
(* (the handler of main, record).                                                     *)
WorkerInv == TypeOK /\ HandlersSound /\ RowsSound

(* A hook that parses leaves the queue although one that does not is requeued for      *)
(* ever, as long as the prefetch has room for both.                                    *)
ReadableLeave == \A h \in Hooks : h \in accepted /\ Wire[h].json = "object" ~> h \notin Queued

Consumer ==
    INSTANCE AtLeastOnce WITH pending <- Queued, handled <- {h \in Hooks : Recorded(h)}, buried <- {},
                              Event <- [h \in Hooks |-> h]

(* "Never requeue on retryable: false, and never drop it silently": an accepted hook   *)
(* is in the queue or was recorded.  No dead-letter exchange is declared, so what is   *)
(* nacked without requeue is kept nowhere.                                            *)
NothingLost == Consumer!NothingLost
=============================================================================
