----------------------------- MODULE SqsWorker -----------------------------
(***************************************************************************)
(* The worker of the Kafka to SQS example (examples/kafka-sqs-consumer): it    *)
(* long-polls a FIFO queue, handles each group of a batch in order, moves a      *)
(* message it can never handle to the dead-letter queue, and backs a whole group  *)
(* off after a transient failure.  Several workers may share the queue.          *)
(*                                                                          *)
(* The queue is what the code relies on: a message received is invisible for a    *)
(* visibility timeout, its group is not delivered meanwhile, and one received     *)
(* MaxReceive times is moved to the dead-letter queue by the redrive policy.  A    *)
(* receipt is the number of its receive; one that a later receive replaced, or     *)
(* whose timeout passed, is stale.  Time is left out: a timeout may pass at any     *)
(* moment.                                                                     *)
(***************************************************************************)
EXTENDS Message, FiniteSets

CONSTANTS
    Hooks, Groups, Workers,
    Order,            \* of each group: its hooks, in the order they were sent
    Wire,             \* the message of each hook
    Object,           \* the bytes the claim store holds for each hook
    BatchMax,         \* MaxNumberOfMessages
    MaxReceive,       \* maxReceiveCount
    MaxFaults         \* bound on failed requests, signals and crashes

ASSUME OrderAssumption ==
    /\ Order \in [Groups -> Seq(Hooks)]
    /\ \A h \in Hooks : \E g \in Groups : \E i \in DOMAIN Order[g] : Order[g][i] = h
ASSUME BoundsAssumption == BatchMax \in Nat \ {0} /\ MaxReceive \in Nat \ {0} /\ MaxFaults \in Nat

VARIABLES
    sent,        \* of each group: how many of its hooks were sent
    queue,       \* of each group: the messages in the queue, in order
    receives,    \* of each hook: its receive count
    hidden,      \* hooks in flight
    dlq,         \* hooks in the dead-letter queue
    gone,        \* claims that are no longer in the store
    state,       \* of each worker: down, polling or stopping
    batch,       \* messages a worker has received and not finished: hook and receipt
    step,        \* where it is with the first of them
    blocked,     \* groups with a transient failure in this batch
    processed,   \* ids the worker remembers
    handled,     \* hooks handleHook was called with
    faults

vars == <<sent, queue, receives, hidden, dlq, gone, state, batch, step, blocked, processed, handled, faults>>

-----------------------------------------------------------------------------
Id(h) == <<Wire[h].id>>

GroupOf(h) == CHOOSE g \in Groups : \E i \in DOMAIN Order[g] : Order[g][i] = h

InQueue(h) == \E i \in DOMAIN queue[GroupOf(h)] : queue[GroupOf(h)][i] = h

Without(q, h) == SelectSeq(q, LAMBDA x : x # h)

Delete(h) == queue' = [queue EXCEPT ![GroupOf(h)] = Without(@, h)] /\ hidden' = hidden \ {h}

Fault == faults < MaxFaults /\ faults' = faults + 1

Hook(w) == Head(batch[w]).hook

Fresh(w) == Hook(w) \in hidden /\ receives[Hook(w)] = Head(batch[w]).receipt

At(w, s) == state[w] # "down" /\ batch[w] # <<>> /\ step[w] = s

(* A variant that stays at the message. *)
AdvanceKeep(w) == step' = [step EXCEPT ![w] = "parse"] /\ batch' = batch /\ blocked' = blocked

Goto(w, s)  == step' = [step EXCEPT ![w] = s] /\ batch' = batch /\ blocked' = blocked
Advance(w)  == step' = [step EXCEPT ![w] = "parse"] /\ batch' = [batch EXCEPT ![w] = Tail(@)] /\ blocked' = blocked

(* A variant that blocks nothing. *)
TransientAlone(w) == step' = [step EXCEPT ![w] = "back_off"] /\ batch' = batch /\ blocked' = blocked

(* The catch of processBatch: the group is blocked and the message backed off. *)
Transient(w) ==
    /\ step' = [step EXCEPT ![w] = "back_off"] /\ batch' = batch
    /\ blocked' = [blocked EXCEPT ![w] = @ \cup {GroupOf(Hook(w))}]

(* An error out of processBatch ends the process; the memory goes with it. *)
Die(w) ==
    /\ state' = [state EXCEPT ![w] = "down"] /\ batch' = [batch EXCEPT ![w] = <<>>]
    /\ step' = [step EXCEPT ![w] = "parse"] /\ blocked' = [blocked EXCEPT ![w] = {}]
    /\ processed' = [processed EXCEPT ![w] = {}]

-----------------------------------------------------------------------------
(* The queue. *)

Send(g) ==
    /\ sent[g] < Len(Order[g])
    /\ sent' = [sent EXCEPT ![g] = @ + 1]
    /\ queue' = [queue EXCEPT ![g] = Append(@, Order[g][sent[g] + 1])]
    /\ UNCHANGED <<receives, hidden, dlq, gone, state, batch, step, blocked, processed, handled, faults>>

VisibilityExpires(h) ==
    /\ h \in hidden
    /\ hidden' = hidden \ {h}
    /\ UNCHANGED <<sent, queue, receives, dlq, gone, state, batch, step, blocked, processed, handled, faults>>

ClaimExpires(h) ==
    /\ h \notin gone /\ HasClaim(Wire[h])
    /\ gone' = gone \cup {h}
    /\ UNCHANGED <<sent, queue, receives, hidden, dlq, state, batch, step, blocked, processed, handled, faults>>

Locked(g) == \E i \in DOMAIN queue[g] : queue[g][i] \in hidden

(* A variant that counts from another limit. *)
RedriveLate(g) ==
    /\ ~Locked(g) /\ queue[g] # <<>> /\ receives[Head(queue[g])] > MaxReceive
    /\ dlq' = dlq \cup {Head(queue[g])} /\ Delete(Head(queue[g]))
    /\ UNCHANGED <<sent, receives, gone, state, batch, step, blocked, processed, handled, faults>>

Redrive(g) ==
    /\ ~Locked(g) /\ queue[g] # <<>> /\ receives[Head(queue[g])] = MaxReceive
    /\ dlq' = dlq \cup {Head(queue[g])} /\ Delete(Head(queue[g]))
    /\ UNCHANGED <<sent, receives, gone, state, batch, step, blocked, processed, handled, faults>>

(* The first n messages of a group, with their receipts. *)
Received(g, n) == [i \in 1..n |-> [hook |-> queue[g][i], receipt |-> receives[queue[g][i]] + 1]]

(* A receive returns messages of the groups that are not locked, each group in    *)
(* order.  A batch of two groups is one after the other: nothing in processBatch   *)
(* depends on how they are mixed.                                                 *)
ReceiveMessage(w) ==
    /\ state[w] = "polling" /\ batch[w] = <<>>
    /\ \E g \in Groups, f \in Groups, n \in 1..BatchMax, k \in 0..BatchMax :
         LET m == IF f = g THEN 0 ELSE k
             got == Received(g, n) \o Received(f, m)
         IN  /\ f = g => k = 0
             /\ n + m <= BatchMax /\ n <= Len(queue[g]) /\ m <= Len(queue[f])
             /\ ~Locked(g) /\ (m > 0 => ~Locked(f))
             /\ \A i \in DOMAIN got : got[i].receipt <= MaxReceive
             /\ batch' = [batch EXCEPT ![w] = got]
             /\ hidden' = hidden \cup {got[i].hook : i \in DOMAIN got}
             /\ receives' = [h \in Hooks |-> IF \E i \in DOMAIN got : got[i].hook = h
                                               THEN receives[h] + 1 ELSE receives[h]]
    /\ blocked' = [blocked EXCEPT ![w] = {}]
    /\ UNCHANGED <<sent, queue, dlq, gone, state, step, processed, handled, faults>>

-----------------------------------------------------------------------------
(* processBatch/1 *)

(* parse/1.  Reading `v` of JSON null throws a TypeError, which is no           *)
(* PermanentError.                                                              *)
Parse(raw) ==
    IF raw.json = "null" THEN "transient"
    ELSE IF \/ raw.json \in {"malformed", "scalar"} \/ "v" \in raw.ill \/ raw.v # 1
            \/ HasClaim(raw) /\ raw.sha.form \in {"absent", "null"}
    THEN "permanent" ELSE "ok"

(* A message of a blocked group backs off untried; any other is parsed, and one   *)
(* the worker remembers is deleted without being handled again.                   *)
ProcessNext(w) ==
    /\ At(w, "parse")
    /\ LET h == Hook(w)
           verdict == IF GroupOf(h) \in blocked[w] THEN "blocked" ELSE Parse(Wire[h])
       IN  CASE verdict = "blocked"                           -> Goto(w, "back_off")
             [] verdict = "permanent"                         -> Goto(w, "send_dlq")
             [] verdict = "transient"                         -> Transient(w)
             [] verdict = "ok" /\ Id(h) \in processed[w]      -> Goto(w, "remove")
             [] OTHER                                         -> Goto(w, "resolve")
    /\ UNCHANGED <<sent, queue, receives, hidden, dlq, gone, state, processed, handled, faults>>

(* The gateway answers what the store holds, or not at all. *)
Answer(h, up) ==
    CASE ~up              -> [status |-> Unanswered, bytes |-> <<>>]
      [] up /\ h \in gone -> [status |-> 404, bytes |-> <<>>]
      [] OTHER            -> [status |-> 200, bytes |-> Object[h]]

(* A variant that deletes what could not be redeemed in time. *)
ResolveDrops(w) ==
    /\ At(w, "resolve")
    /\ \E up \in BOOLEAN :
         LET h == Hook(w)
             outcome == IF HasClaim(Wire[h]) THEN Redeem(Wire[h].claim, Wire[h].sha, Answer(h, up)) ELSE "ok"
         IN  /\ IF up THEN faults' = faults ELSE HasClaim(Wire[h]) /\ Fault
             /\ Goto(w, IF outcome = "ok" \/ Retryable(outcome) THEN "remove" ELSE "send_dlq")
             /\ handled' = IF outcome = "ok" THEN handled \cup {h} ELSE handled
             /\ processed' = [processed EXCEPT ![w] = IF outcome = "ok" THEN @ \cup {Id(h)} ELSE @]
    /\ UNCHANGED <<sent, queue, receives, hidden, dlq, gone, state>>

(* resolveBody/1, handleHook/4 and processed.add: an inline body is not verified. *)
Resolve(w) ==
    /\ At(w, "resolve")
    /\ \E up \in BOOLEAN :
         LET h == Hook(w)
             outcome == IF HasClaim(Wire[h]) THEN Redeem(Wire[h].claim, Wire[h].sha, Answer(h, up)) ELSE "ok"
         IN  /\ IF up THEN faults' = faults ELSE HasClaim(Wire[h]) /\ Fault
             /\ CASE outcome = "ok"     -> Goto(w, "remove")
                  [] Retryable(outcome) -> Transient(w)
                  [] OTHER              -> Goto(w, "send_dlq")
             /\ handled' = IF outcome = "ok" THEN handled \cup {h} ELSE handled
             /\ processed' = [processed EXCEPT ![w] = IF outcome = "ok" THEN @ \cup {Id(h)} ELSE @]
    /\ UNCHANGED <<sent, queue, receives, hidden, dlq, gone, state>>

(* remove/1 deletes by receipt; a stale one may still delete, do nothing, or be    *)
(* refused.  A failure here is a transient one.                                     *)
Remove(w) ==
    /\ At(w, "remove")
    /\ \/ Delete(Hook(w)) /\ Advance(w) /\ faults' = faults
       \/ ~Fresh(w) /\ Advance(w) /\ UNCHANGED <<queue, hidden, faults>>
       \/ ~Fresh(w) /\ Transient(w) /\ UNCHANGED <<queue, hidden, faults>>
       \/ Fault /\ Transient(w) /\ (Delete(Hook(w)) \/ UNCHANGED <<queue, hidden>>)
    /\ UNCHANGED <<sent, receives, dlq, gone, state, processed, handled>>

(* deadLetter/2: send, then delete; an error in either ends the process. *)
SendDlq(w) ==
    /\ At(w, "send_dlq")
    /\ dlq' = dlq \cup {Hook(w)} /\ Goto(w, "remove_dead")
    /\ UNCHANGED <<sent, queue, receives, hidden, gone, state, processed, handled, faults>>

SendDlqFails(w) ==
    /\ At(w, "send_dlq") /\ Fault
    /\ dlq' \in {dlq, dlq \cup {Hook(w)}} /\ Die(w)
    /\ UNCHANGED <<sent, queue, receives, hidden, gone, handled>>

RemoveDead(w) ==
    /\ At(w, "remove_dead")
    /\ \/ Delete(Hook(w)) /\ Advance(w) /\ UNCHANGED <<state, processed, faults>>
       \/ ~Fresh(w) /\ Advance(w) /\ UNCHANGED <<queue, hidden, state, processed, faults>>
       \/ ~Fresh(w) /\ Die(w) /\ UNCHANGED <<queue, hidden, faults>>
       \/ Fault /\ Die(w) /\ (Delete(Hook(w)) \/ UNCHANGED <<queue, hidden>>)
    /\ UNCHANGED <<sent, receives, dlq, gone, handled>>

(* backOff/1 makes the timeout longer; an error in it ends the process. *)
BackOff(w) ==
    /\ At(w, "back_off")
    /\ \/ Fresh(w) /\ Advance(w) /\ UNCHANGED <<state, processed, faults>>
       \/ ~Fresh(w) /\ Die(w) /\ faults' = faults
       \/ Fault /\ Die(w)
    /\ UNCHANGED <<sent, queue, receives, hidden, dlq, gone, handled>>

-----------------------------------------------------------------------------
(* The life of a worker. *)

Boot(w) ==
    /\ state[w] = "down" /\ state' = [state EXCEPT ![w] = "polling"]
    /\ UNCHANGED <<sent, queue, receives, hidden, dlq, gone, batch, step, blocked, processed, handled, faults>>

Sigterm(w) ==
    /\ state[w] = "polling" /\ Fault /\ state' = [state EXCEPT ![w] = "stopping"]
    /\ UNCHANGED <<sent, queue, receives, hidden, dlq, gone, batch, step, blocked, processed, handled>>

(* The loop ends once the batch is finished. *)
Stop(w) ==
    /\ state[w] = "stopping" /\ batch[w] = <<>> /\ Die(w)
    /\ UNCHANGED <<sent, queue, receives, hidden, dlq, gone, handled, faults>>

Crash(w) ==
    /\ state[w] # "down" /\ Fault /\ Die(w)
    /\ UNCHANGED <<sent, queue, receives, hidden, dlq, gone, handled>>

Init ==
    /\ sent = [g \in Groups |-> 0] /\ queue = [g \in Groups |-> <<>>]
    /\ receives = [h \in Hooks |-> 0] /\ hidden = {} /\ dlq = {} /\ gone = {}
    /\ state = [w \in Workers |-> "down"] /\ batch = [w \in Workers |-> <<>>]
    /\ step = [w \in Workers |-> "parse"] /\ blocked = [w \in Workers |-> {}]
    /\ processed = [w \in Workers |-> {}] /\ handled = {} /\ faults = 0

Step(w) ==
    \/ ProcessNext(w) \/ Resolve(w) \/ Remove(w) \/ SendDlq(w) \/ SendDlqFails(w)
    \/ RemoveDead(w) \/ BackOff(w) \/ Stop(w)

Next ==
    \/ \E g \in Groups : Send(g) \/ Redrive(g)
    \/ \E h \in Hooks : VisibilityExpires(h) \/ ClaimExpires(h)
    \/ \E w \in Workers : Boot(w) \/ ReceiveMessage(w) \/ Step(w) \/ Sigterm(w) \/ Crash(w)

Spec == Init /\ [][Next]_vars

(* The process runs and is restarted; the queue keeps its timeouts and answers.  *)
Fairness ==
    /\ \A w \in Workers : WF_vars(Boot(w)) /\ WF_vars(ReceiveMessage(w)) /\ WF_vars(Step(w))
    /\ \A h \in Hooks : WF_vars(VisibilityExpires(h))
    /\ \A g \in Groups : WF_vars(Redrive(g))

FairSpec == Spec /\ Fairness

-----------------------------------------------------------------------------
Steps == {"parse", "resolve", "remove", "send_dlq", "remove_dead", "back_off"}

(* The types of the variables. *)
TypeOK ==
    /\ sent \in [Groups -> Nat] /\ queue \in [Groups -> Seq(Hooks)]
    /\ receives \in [Hooks -> 0..MaxReceive] /\ hidden \subseteq Hooks /\ dlq \subseteq Hooks /\ gone \subseteq Hooks
    /\ state \in [Workers -> {"down", "polling", "stopping"}]
    /\ batch \in [Workers -> Seq([hook : Hooks, receipt : 1..MaxReceive])]
    /\ step \in [Workers -> Steps] /\ blocked \in [Workers -> SUBSET Groups]
    /\ processed \in [Workers -> SUBSET {Id(h) : h \in Hooks}]
    /\ handled \subseteq Hooks /\ faults \in 0..MaxFaults

SentHooks == UNION {{Order[g][i] : i \in 1..sent[g]} : g \in Groups}
Queued    == UNION {{queue[g][i] : i \in DOMAIN queue[g]} : g \in Groups}
Ids       == {Id(h) : h \in handled}

(* The event a message reports: its id, or the message itself when it has none. *)
EventOf == [h \in Hooks |-> IF Parse(Wire[h]) = "ok" THEN Id(h) ELSE <<"unreadable", h>>]

Consumer == INSTANCE AtLeastOnce WITH accepted <- SentHooks, pending <- Queued, handled <- Ids,
                                      buried <- dlq, Event <- EventOf

(* "Send, then delete: a crash in between duplicates the message in the DLQ         *)
(* rather than losing it": the worker and its queue implement the abstract consumer,  *)
(* so a message leaves the queue only handled or in the dead-letter queue, whatever   *)
(* receipts go stale (remove, deadLetter).                                            *)
Refines == Consumer!Spec

(* "every later message of the group backs off too, or it would be processed out of  *)
(* order": no message is handled before an earlier one of its group was handled or    *)
(* dead-lettered, though timeouts pass and two workers hold the group (blocked).      *)
GroupOrder ==
    \A g \in Groups : \A j \in 1..sent[g] :
      Order[g][j] \in handled =>
        \A i \in 1..j : Id(Order[g][i]) \in Ids \/ Order[g][i] \in dlq

Hopeless(h) ==
    \/ Parse(Wire[h]) = "permanent" \/ h \in gone
    \/ HasClaim(Wire[h]) /\ Redeem(Wire[h].claim, Wire[h].sha, [status |-> 200, bytes |-> Object[h]]) # "ok"

(* A message is in the dead-letter queue because it can never be handled, or because *)
(* it was received as often as the redrive policy allows (deadLetter, backOff).       *)
DeadJustified == \A h \in dlq : Hopeless(h) \/ receives[h] = MaxReceive

(* The state is well formed, and so is the dead-letter queue (deadLetter, backOff). *)
WorkerInv == TypeOK /\ DeadJustified

(* Every message leaves the queue: a failure that lasts ends in the dead-letter      *)
(* queue, and no group is wedged by its first message (processBatch, main).           *)
EveryHookLeaves == \A h \in Hooks : h \in SentHooks ~> h \notin Queued

(* "SIGTERM: finishing the current batch": a worker told to stop does stop, whatever   *)
(* the messages of its batch turn out to be (stopping, processBatch).                 *)
Stops == \A w \in Workers : state[w] = "stopping" ~> state[w] = "down"
=============================================================================
