------------------------------ MODULE Webhook ------------------------------
(***************************************************************************)
(* HTTP delivery: Ankusa.Sink.Http signs each attempt with the sink's secrets   *)
(* and the receiver judges it with receiveDelivery of the TypeScript SDK, as     *)
(* the receiver of examples/event-routing does.  Requests are delayed or lost,    *)
(* answers are lost, the node restarts, the two clocks differ, and an operator    *)
(* rotates the secrets on both sides.                                            *)
(*                                                                          *)
(* Time is the age of a request, which is what the tolerance compares.  A header  *)
(* is modelled by who set it: the sink, or the provider whose headers it          *)
(* forwards.                                                                    *)
(***************************************************************************)
EXTENDS Integers, FiniteSets

CONSTANTS
    Hooks,
    Provider,        \* of each hook: names of the headers its provider sent
    Optional,        \* of each hook: the optional x-ankusa headers it has values for
    Secrets, Malformed,
    AllowUnsigned,   \* allow_unsigned of the sink and allowUnsigned of the receiver
    Tolerance,       \* toleranceSeconds
    Timeout,         \* timeout_ms
    MaxSkew,         \* bound on the difference of the clocks
    MaxAttempts,     \* max_attempts of the retry policy
    MaxRotations,    \* bound on changes of the secrets
    MaxFaults        \* bound on faults

(* A request is answered or given up before its timestamp leaves the tolerance. *)
ASSUME ClockAssumption ==
    /\ Tolerance \in Nat /\ Timeout \in Nat \ {0} /\ MaxSkew \in Nat /\ Timeout + MaxSkew <= Tolerance
ASSUME SecretsAssumption == Malformed \subseteq Secrets /\ AllowUnsigned \in BOOLEAN
ASSUME BoundsAssumption == MaxAttempts \in Nat \ {0} /\ MaxRotations \in Nat /\ MaxFaults \in Nat

VARIABLES
    signing,     \* the sink's secrets
    trusted,     \* the receiver's secrets
    skew,        \* the receiver's clock minus the node's
    row,         \* of each hook: its delivery row
    attempts,    \* finished attempts of the row
    error,       \* why its last attempt failed
    job,         \* of each hook: its running attempt
    wire,        \* requests on their way, and answers on their way back
    received,    \* what the receiver accepted
    rotations, faults

vars == <<signing, trusted, skew, row, attempts, error, job, wire, received, rotations, faults>>

-----------------------------------------------------------------------------
(* Headers. *)

SignatureHeaders == {"webhook-id", "webhook-timestamp", "webhook-signature"}
OptionalHeaders  == {"x-ankusa-dedupe-key", "x-ankusa-replay-id", "x-ankusa-verification-flagged"}
OwnHeaders       == {"x-ankusa-id", "x-ankusa-idempotency-key", "x-ankusa-verification"}

(* A variant that forwards the x-ankusa headers of a provider. *)
ForwardedAll(h) == Provider[h] \ {"authorization"}

(* forwarded_headers/2 strips what only means something to the edge and every        *)
(* x-ankusa header.                                                                 *)
Forwarded(h) == Provider[h] \ (OwnHeaders \cup OptionalHeaders \cup {"authorization"})

(* send_hook/5: a forwarded header never replaces one of the sink's own. *)
Origin(req, name) ==
    IF name \in OwnHeaders \cup Optional[req.hook] \/ (name \in SignatureHeaders /\ req.keys # {})
    THEN "sink"
    ELSE IF name \in Forwarded(req.hook) THEN "provider" ELSE "absent"

-----------------------------------------------------------------------------
(* The receiver. *)

Abs(n) == IF n < 0 THEN -n ELSE n

InTolerance(age) == Abs(age + skew) <= Tolerance

(* verifySignature/1 with decodeSecrets/1: some trusted secret made one of the        *)
(* entries, over the id, the timestamp and the body of this very request.             *)
VerifySignature(req) ==
    /\ trusted \cap Malformed = {}
    /\ \A name \in SignatureHeaders : Origin(req, name) = "sink"
    /\ InTolerance(req.age)
    /\ req.keys \cap trusted # {}

(* receiveDelivery/1 and the answer of the receiver: the signature is judged first.   *)
Judge(req) ==
    IF IF trusted = {} THEN ~AllowUnsigned ELSE ~VerifySignature(req) THEN 401
    ELSE IF Origin(req, "x-ankusa-id") = "absent" THEN 400 ELSE 204

(* parseHeaders/1 *)
ParseHeaders(req) == [name \in OwnHeaders \cup OptionalHeaders |-> Origin(req, name)]

-----------------------------------------------------------------------------
(* The node's dispatch of one delivery row. *)

None == [phase |-> "none", keys |-> {}, age |-> 0]

Fault == faults < MaxFaults /\ faults' = faults + 1

(* What is still on its way for h is no longer waited for. *)
Orphaned(h) ==
    {IF req.hook = h THEN [req EXCEPT !.live = FALSE] ELSE req : req \in {q \in wire : q.hook # h \/ q.status = 0}}

(* What no retry would change. *)
Permanent == {"bad_secret", "400", "401"}

(* A variant that does not count. *)
SettleUncounted(h, reason) ==
    /\ job' = [job EXCEPT ![h] = None] /\ attempts' = attempts
    /\ error' = [error EXCEPT ![h] = reason]
    /\ \E status \in IF reason = "ok" THEN {"delivered"}
                     ELSE IF reason \in Permanent THEN {"dead"} ELSE {"pending", "dead"} :
         row' = [row EXCEPT ![h] = status]

(* The end of an attempt: delivered, dead-lettered (for good, at the last attempt, or   *)
(* once the horizon of the retry policy has passed), or retried.                        *)
Settle(h, reason) ==
    /\ job' = [job EXCEPT ![h] = None]
    /\ attempts' = [attempts EXCEPT ![h] = @ + 1]
    /\ error' = [error EXCEPT ![h] = reason]
    /\ \E status \in IF reason = "ok" THEN {"delivered"}
                     ELSE IF reason \in Permanent \/ attempts'[h] >= MaxAttempts THEN {"dead"}
                     ELSE {"pending", "dead"} :
         row' = [row EXCEPT ![h] = status]

Accept(h) ==
    /\ row[h] = "none"
    /\ row' = [row EXCEPT ![h] = "pending"]
    /\ UNCHANGED <<signing, trusted, skew, attempts, error, job, wire, received, rotations, faults>>

(* The row is claimed and its sink read from the source store. *)
Claim(h) ==
    /\ row[h] = "pending" /\ job[h] = None
    /\ job' = [job EXCEPT ![h] = [phase |-> "claimed", keys |-> signing, age |-> 0]]
    /\ UNCHANGED <<signing, trusted, skew, row, attempts, error, wire, received, rotations, faults>>

(* deliver/3: every secret signs, with the time of this attempt. *)
Signable(keys) == IF keys = {} THEN AllowUnsigned ELSE keys \cap Malformed = {}

(* A variant that signs with one of them. *)
SignedOnce(keys) == IF keys = {} THEN {} ELSE {CHOOSE k \in keys : TRUE}

Signed(keys) == keys

Send(h) ==
    /\ job[h].phase = "claimed" /\ Signable(job[h].keys)
    /\ job' = [job EXCEPT ![h].phase = "sent"]
    /\ wire' = wire \cup {[hook |-> h, keys |-> Signed(job[h].keys), age |-> 0, live |-> TRUE, status |-> 0]}
    /\ UNCHANGED <<signing, trusted, skew, row, attempts, error, received, rotations, faults>>

Unsignable(h) ==
    /\ job[h].phase = "claimed" /\ ~Signable(job[h].keys)
    /\ Settle(h, "bad_secret")
    /\ UNCHANGED <<signing, trusted, skew, wire, received, rotations, faults>>

(* send_hook/5 classifies the answer; 400 and 401 are among the permanent ones. *)
Answered(h, req) ==
    /\ req \in wire /\ req.hook = h /\ req.live /\ req.status # 0
    /\ wire' = wire \ {req}
    /\ LET reason == CASE req.status = 204 -> "ok" [] req.status = 401 -> "401" [] OTHER -> "400"
       IN  Settle(h, reason)
    /\ UNCHANGED <<signing, trusted, skew, received, rotations, faults>>

(* A variant that takes a request without an answer for delivered. *)
TimedOutDelivered(h) ==
    /\ job[h].phase = "sent" /\ job[h].age >= Timeout
    /\ Settle(h, "ok") /\ wire' = Orphaned(h)
    /\ UNCHANGED <<signing, trusted, skew, received, rotations, faults>>

TimedOut(h) ==
    /\ job[h].phase = "sent" /\ job[h].age >= Timeout
    /\ Settle(h, "timeout") /\ wire' = Orphaned(h)
    /\ UNCHANGED <<signing, trusted, skew, received, rotations, faults>>

(* The node restarts: the rows it had claimed are pending. *)
Restart ==
    /\ Fault /\ \E h \in Hooks : job[h] # None
    /\ job' = [h \in Hooks |-> None]
    /\ wire' = {[req EXCEPT !.live = FALSE] : req \in {q \in wire : q.status = 0}}
    /\ UNCHANGED <<signing, trusted, skew, row, attempts, error, received, rotations>>

-----------------------------------------------------------------------------
(* The network, the clocks and the operator. *)

(* A request nobody waits for any more may still arrive. *)
Receive(req) ==
    /\ req \in wire /\ req.status = 0
    /\ LET status == Judge(req)
       IN  /\ received' = IF status = 204
                            THEN received \cup {[hook |-> req.hook, verified |-> trusted # {}, headers |-> ParseHeaders(req)]}
                            ELSE received
           /\ wire' = (wire \ {req}) \cup (IF req.live THEN {[req EXCEPT !.status = status]} ELSE {})
    /\ UNCHANGED <<signing, trusted, skew, row, attempts, error, job, rotations, faults>>

Lose(req) ==
    /\ req \in wire /\ Fault
    /\ wire' = wire \ {req}
    /\ UNCHANGED <<signing, trusted, skew, row, attempts, error, job, received, rotations>>

Oldest == Tolerance + MaxSkew + 1

Aged(req) == [req EXCEPT !.age = IF @ < Oldest THEN @ + 1 ELSE @]

(* A second passes; a sender whose timeout has passed gives up first. *)
Tick ==
    /\ \A h \in Hooks : job[h].age < Timeout
    /\ (\E req \in wire : req.age < Oldest) \/ \E h \in Hooks : job[h].phase = "sent"
    /\ wire' = {Aged(req) : req \in wire}
    /\ job' = [h \in Hooks |-> IF job[h].phase = "sent" THEN [job[h] EXCEPT !.age = @ + 1] ELSE job[h]]
    /\ UNCHANGED <<signing, trusted, skew, row, attempts, error, received, rotations, faults>>

(* Whether the receiver that trusts R accepts what is signed with K. *)
Compatible(K, R) == IF R = {} THEN AllowUnsigned ELSE K \cap R # {} /\ R \cap Malformed = {}

(* The operator keeps the two sides compatible, except that a secret of the sink may   *)
(* be mistyped.                                                                       *)
RotateSink(K) ==
    /\ rotations < MaxRotations /\ rotations' = rotations + 1
    /\ K # signing /\ (Compatible(K, trusted) \/ K \cap Malformed # {})
    /\ signing' = K
    /\ UNCHANGED <<trusted, skew, row, attempts, error, job, wire, received, faults>>

(* A secret is dropped by the receiver only after the attempts that were claimed       *)
(* before its successor have ended.                                                   *)
RotateReceiver(R) ==
    /\ rotations < MaxRotations /\ rotations' = rotations + 1
    /\ R # trusted /\ Compatible(signing, R)
    /\ \A h \in Hooks : job[h] # None => Compatible(job[h].keys, R)
    /\ trusted' = R
    /\ UNCHANGED <<signing, skew, row, attempts, error, job, wire, received, faults>>

-----------------------------------------------------------------------------
Init ==
    /\ \E k \in Secrets \ Malformed : signing = {k} /\ trusted = {k}
    /\ skew \in {-MaxSkew, 0, MaxSkew}
    /\ row = [h \in Hooks |-> "none"] /\ attempts = [h \in Hooks |-> 0]
    /\ error = [h \in Hooks |-> "none"] /\ job = [h \in Hooks |-> None]
    /\ wire = {} /\ received = {} /\ rotations = 0 /\ faults = 0

Next ==
    \/ \E h \in Hooks : \/ Accept(h) \/ Claim(h) \/ Send(h) \/ Unsignable(h) \/ TimedOut(h)
                        \/ \E req \in wire : Answered(h, req)
    \/ \E req \in wire : Receive(req) \/ Lose(req)
    \/ \E K \in SUBSET Secrets : RotateSink(K) \/ RotateReceiver(K)
    \/ Restart \/ Tick

Spec == Init /\ [][Next]_vars

(* Dispatch runs and time passes; the network owes nothing. *)
Fairness ==
    /\ WF_vars(Tick)
    /\ \A h \in Hooks : /\ WF_vars(Claim(h)) /\ WF_vars(Send(h)) /\ WF_vars(Unsignable(h))
                        /\ WF_vars(TimedOut(h)) /\ WF_vars(\E req \in wire : Answered(h, req))

FairSpec == Spec /\ Fairness

-----------------------------------------------------------------------------
Attempt == [phase : {"none", "claimed", "sent"}, keys : SUBSET Secrets, age : 0..Timeout]
Request == [hook : Hooks, keys : SUBSET Secrets, age : 0..Oldest, live : BOOLEAN, status : {0, 204, 400, 401}]

(* The types of the variables. *)
TypeOK ==
    /\ signing \subseteq Secrets /\ trusted \subseteq Secrets /\ skew \in -MaxSkew..MaxSkew
    /\ row \in [Hooks -> {"none", "pending", "delivered", "dead"}]
    /\ attempts \in [Hooks -> 0..MaxAttempts]
    /\ error \in [Hooks -> {"none", "ok", "timeout", "bad_secret", "400", "401"}]
    /\ job \in [Hooks -> Attempt] /\ wire \subseteq Request
    /\ rotations \in 0..MaxRotations /\ faults \in 0..MaxFaults

Consumer ==
    INSTANCE AtLeastOnce WITH
        accepted <- {h \in Hooks : row[h] # "none"}, pending <- {h \in Hooks : row[h] = "pending"},
        handled <- {r.hook : r \in received}, buried <- {h \in Hooks : row[h] = "dead"},
        Event <- [h \in Hooks |-> h]

(* The sink and the receiver together implement the abstract consumer: a row is        *)
(* marked delivered only once the receiver accepted the hook, however late or often     *)
(* a request arrives (send_hook, receiveDelivery).                                     *)
Refines == Consumer!Spec

(* "Several secrets sign with each, so a receiver can rotate keys without a gap": no    *)
(* hook is dead-lettered because the receiver refused it, at any moment of a rotation    *)
(* and with clocks that differ (Signer.headers, verifySignature).                       *)
NoGap == \A h \in Hooks : error[h] \notin {"400", "401"}

(* What the receiver reads from a delivery was set by the sink: a provider whose own     *)
(* webhooks use the same header names never lends a delivery its id, its dedupe key or   *)
(* its verification (forwarded_headers, send_hook, parseHeaders).                       *)
HeadersOwn ==
    \A r \in received : /\ r.headers["x-ankusa-id"] = "sink"
                        /\ \A name \in DOMAIN r.headers : r.headers[name] # "provider"

(* Whether an attempt that is signed with K, if it can be, is accepted. *)
Accepted(K) == Compatible(K, trusted) \/ K \cap Malformed # {}

JobSound(h) ==
    /\ row[h] = "pending" => attempts[h] < MaxAttempts
    /\ row[h] = "none" => attempts[h] = 0
    /\ job[h].phase = "claimed" => job[h].age = 0
    /\ job[h].phase = "sent" => Signable(job[h].keys)
    /\ job[h].phase # "none" => row[h] = "pending" /\ Accepted(job[h].keys)

(* Only a pending row is attempted, within the retry policy, with secrets the receiver    *)
(* accepts at every moment of a rotation (Pipeline.deliver, settle).                    *)
JobsSound == Accepted(signing) /\ \A h \in Hooks : JobSound(h)

ReceivedHooks == {r.hook : r \in received}

(* The requests some attempt waits for. *)
Awaited == {req \in wire : req.live}

(* A running attempt waits for one request at most, the one it sent, as old as the        *)
(* attempt; the answer on its way back is the receiver's 204 for a hook it has.           *)
AnswersTrue ==
    /\ \A req \in wire \ Awaited : req.status = 0
    /\ \A req \in Awaited :
         /\ job[req.hook] = [phase |-> "sent", keys |-> req.keys, age |-> req.age]
         /\ \A q \in Awaited : q.hook = req.hook => q = req
         /\ req.status = 0 \/ (req.status = 204 /\ req.hook \in ReceivedHooks)

(* What is on the wire belongs to a hook that was accepted. *)
SentAccepted == \A req \in wire : row[req.hook] # "none"

(* The state is well formed, the attempts are within the retry policy, an answer is one    *)
(* the receiver gave to this attempt, and what was received came from the sink (settle,    *)
(* send_hook, forwarded_headers).                                                       *)
DeliveryInv == TypeOK /\ HeadersOwn /\ JobsSound /\ AnswersTrue /\ SentAccepted

(* Every accepted hook is delivered or dead-lettered (settle, failed). *)
EveryHookSettles == \A h \in Hooks : row[h] = "pending" ~> row[h] \in {"delivered", "dead"}
=============================================================================
