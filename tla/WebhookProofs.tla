--------------------------- MODULE WebhookProofs ---------------------------
(* That HTTP delivery keeps what it promises, for any number of hooks, secrets,   *)
(* rotations and faults and any clocks within the tolerance: DeliveryInv is         *)
(* inductive, no hook is dead-lettered because the receiver refused it, and every    *)
(* step of sink and receiver is a step of the abstract consumer.                    *)
EXTENDS Webhook, TLAPS

(* The provers of a step that names none, in the order they are tried. *)
USE ZenonT(3), SMTT(8), ZenonT(20), Z3T(30), SMTT(30)

(* The signature of a running attempt verifies: the clocks differ by less than the    *)
(* tolerance leaves, and some secret that signed it is trusted (verifySignature).     *)
LEMMA LiveVerifies ==
    ASSUME TypeOK, NEW req \in Request, Signable(req.keys), Accepted(req.keys),
           req.age \in 0..Timeout
    PROVE  Judge(req) = 204
<1>1. Origin(req, "x-ankusa-id") # "absent"
  BY DEF Origin, OwnHeaders
<1>2. ASSUME trusted = {} PROVE AllowUnsigned
  BY <1>2 DEF Signable, Accepted, Compatible
<1>3. ASSUME trusted # {} PROVE VerifySignature(req)
  <2>1. req.keys \cap trusted # {} /\ trusted \cap Malformed = {}
    BY <1>3 DEF Signable, Accepted, Compatible
  <2>2. \A name \in SignatureHeaders : Origin(req, name) = "sink"
    BY <2>1 DEF Origin
  <2>3. InTolerance(req.age)
    BY ClockAssumption DEF InTolerance, Abs, TypeOK
  <2>. QED
    BY <2>1, <2>2, <2>3 DEF VerifySignature
<1>. QED
  BY <1>1, <1>2, <1>3 DEF Judge

(* Whatever a provider sent, the receiver finds no x-ankusa header of a provider in a   *)
(* delivery (forwarded_headers).                                                      *)
LEMMA OwnOrigin ==
    ASSUME NEW req
    PROVE  /\ ParseHeaders(req)["x-ankusa-id"] = "sink"
           /\ \A name \in DOMAIN ParseHeaders(req) : ParseHeaders(req)[name] # "provider"
BY DEF ParseHeaders, Origin, OwnHeaders, OptionalHeaders, Forwarded, SignatureHeaders

(* The end of an attempt leaves the row settled or within the retry policy. *)
LEMMA SettleSound ==
    ASSUME TypeOK, NEW h \in Hooks, row[h] = "pending", attempts[h] < MaxAttempts,
           NEW reason \in {"ok", "timeout", "bad_secret", "400", "401"},
           Settle(h, reason)
    PROVE  /\ row' \in [Hooks -> {"none", "pending", "delivered", "dead"}]
           /\ attempts' \in [Hooks -> 0..MaxAttempts]
           /\ error' = [error EXCEPT ![h] = reason]
           /\ job' = [job EXCEPT ![h] = None]
           /\ job' \in [Hooks -> Attempt]
           /\ \A x \in Hooks \ {h} : row'[x] = row[x] /\ attempts'[x] = attempts[x]
           /\ row'[h] # "none"
           /\ row'[h] = "pending" => attempts'[h] < MaxAttempts /\ reason # "ok"
           /\ row'[h] = "delivered" => reason = "ok"
           /\ reason = "ok" => row'[h] = "delivered"
<1>1. /\ attempts' = [attempts EXCEPT ![h] = attempts[h] + 1]
      /\ error' = [error EXCEPT ![h] = reason]
      /\ job' = [job EXCEPT ![h] = None]
  BY DEF Settle
<1>2. attempts' \in [Hooks -> 0..MaxAttempts] /\ attempts'[h] = attempts[h] + 1
  BY <1>1, BoundsAssumption DEF TypeOK
<1>3. None \in Attempt
  BY ClockAssumption DEF None, Attempt
<1>4. PICK status \in {"delivered", "dead", "pending"} :
         /\ row' = [row EXCEPT ![h] = status]
         /\ reason = "ok" => status = "delivered"
         /\ reason # "ok" => status # "delivered"
         /\ attempts'[h] >= MaxAttempts => status # "pending"
  BY DEF Settle
<1>5. row' \in [Hooks -> {"none", "pending", "delivered", "dead"}] /\ row'[h] = status
  BY <1>4 DEF TypeOK
<1>6. job' \in [Hooks -> Attempt]
  BY <1>1, <1>3 DEF TypeOK
<1>7. attempts'[h] \in 0..MaxAttempts /\ MaxAttempts \in Nat
  BY <1>2, BoundsAssumption
<1>8. \A x \in Hooks \ {h} : row'[x] = row[x] /\ attempts'[x] = attempts[x]
  BY <1>1, <1>4 DEF TypeOK
<1>. QED
  BY <1>1, <1>2, <1>4, <1>5, <1>6, <1>7, <1>8

(* The jobs, the answers and the refusals: together they are inductive. *)
IInv == TypeOK /\ HeadersOwn /\ JobsSound /\ AnswersTrue /\ NoGap

USE DEF IInv

LEMMA InitSound == Init => IInv
<1>. SUFFICES ASSUME Init PROVE IInv
  OBVIOUS
<1>1. None \in Attempt /\ None.phase = "none"
  BY ClockAssumption DEF None, Attempt
<1>2. TypeOK
  BY <1>1, ClockAssumption, SecretsAssumption, BoundsAssumption DEF Init, TypeOK
<1>3. JobsSound
  BY <1>1, BoundsAssumption, SecretsAssumption DEF Init, JobsSound, JobSound, Accepted, Compatible
<1>4. HeadersOwn /\ AnswersTrue /\ NoGap
  BY DEF Init, HeadersOwn, AnswersTrue, Awaited, NoGap
<1>. QED
  BY <1>2, <1>3, <1>4

(* A request that is waited for is the request of a running attempt. *)
LEMMA AwaitedSent ==
    ASSUME IInv, NEW req \in Awaited
    PROVE  /\ req \in Request /\ req \in wire
           /\ job[req.hook].phase = "sent" /\ job[req.hook].keys = req.keys
           /\ job[req.hook].age = req.age
           /\ req.hook \in Hooks /\ req.age \in 0..Timeout
           /\ row[req.hook] = "pending"
           /\ Signable(req.keys) /\ Accepted(req.keys)
<1>1. job[req.hook] = [phase |-> "sent", keys |-> req.keys, age |-> req.age]
  BY DEF AnswersTrue
<1>2. req \in Request /\ job \in [Hooks -> Attempt] /\ req \in wire
  BY DEF TypeOK, Awaited
<1>3. req.hook \in Hooks
  BY <1>2 DEF Request
<1>4. job[req.hook].phase = "sent" /\ job[req.hook].keys = req.keys /\ job[req.hook].age = req.age
  BY <1>1
<1>5. req.age \in 0..Timeout
  BY <1>2, <1>3, <1>4 DEF Attempt
<1>. QED
  BY <1>1, <1>2, <1>3, <1>4, <1>5 DEF JobsSound, JobSound

(* No attempt waits for two requests. *)
LEMMA AwaitedOnce ==
    ASSUME IInv, NEW req \in Awaited, NEW q \in Awaited, q.hook = req.hook
    PROVE  q = req
<1>1. \A r \in Awaited : \A x \in Awaited : x.hook = r.hook => x = r
  BY Zenon DEF AnswersTrue
<1>. QED
  BY <1>1

LEMMA AcceptSound ==
    ASSUME IInv, NEW h \in Hooks, Accept(h)
    PROVE  IInv'
<1>1. TypeOK'
  BY DEF Accept, TypeOK
<1>2. JobsSound'
  BY BoundsAssumption DEF Accept, JobsSound, JobSound, TypeOK, Accepted, Compatible, Signable
<1>3. HeadersOwn' /\ AnswersTrue' /\ NoGap'
  BY DEF Accept, HeadersOwn, AnswersTrue, Awaited, NoGap, ReceivedHooks
<1>. QED
  BY <1>1, <1>2, <1>3

LEMMA ClaimSound ==
    ASSUME IInv, NEW h \in Hooks, Claim(h)
    PROVE  IInv'
<1>1. TypeOK'
  BY ClockAssumption DEF Claim, TypeOK, Attempt
<1>2. JobsSound'
  BY DEF Claim, JobsSound, JobSound, TypeOK, Accepted, Compatible, Signable
<1>3. \A req \in Awaited : req.hook # h
  BY AwaitedSent DEF Claim, None
<1>4. Awaited' = Awaited /\ wire' = wire /\ received' = received
  BY DEF Claim, Awaited
<1>5. AnswersTrue'
  BY <1>3, <1>4, AwaitedSent DEF Claim, AnswersTrue, TypeOK, ReceivedHooks
<1>6. HeadersOwn' /\ NoGap'
  BY DEF Claim, HeadersOwn, NoGap
<1>. QED
  BY <1>1, <1>2, <1>5, <1>6

LEMMA SendSound ==
    ASSUME IInv, NEW h \in Hooks, Send(h)
    PROVE  IInv'
<1>. DEFINE new == [hook |-> h, keys |-> job[h].keys, age |-> 0, live |-> TRUE, status |-> 0]
<1>1. /\ job' = [job EXCEPT ![h].phase = "sent"]
      /\ wire' = wire \cup {new}
      /\ job[h].phase = "claimed" /\ Signable(job[h].keys)
      /\ UNCHANGED <<signing, trusted, skew, row, attempts, error, received, rotations, faults>>
  BY DEF Send, Signed
<1>2. job[h] \in Attempt /\ job[h].age = 0
  BY <1>1 DEF TypeOK, JobsSound, JobSound
<1>3. /\ job'[h] = [phase |-> "sent", keys |-> new.keys, age |-> new.age]
      /\ job' \in [Hooks -> Attempt]
      /\ \A x \in Hooks \ {h} : job'[x] = job[x]
  BY <1>1, <1>2 DEF TypeOK, Attempt
<1>4. new \in Request
  BY <1>2, ClockAssumption DEF Request, Attempt, Oldest
<1>5. TypeOK'
  BY <1>1, <1>3, <1>4 DEF TypeOK
<1>6. JobsSound'
  <2>1. job'[h].phase = "sent" /\ job'[h].keys = job[h].keys
    BY <1>3
  <2>2. JobSound(h)'
    BY <1>1, <2>1 DEF JobsSound, JobSound, Accepted, Compatible, Signable
  <2>3. \A x \in Hooks \ {h} : JobSound(x)'
    BY <1>1, <1>3 DEF JobsSound, JobSound, Accepted, Compatible, Signable
  <2>. QED
    BY <1>1, <2>2, <2>3 DEF JobsSound, Accepted, Compatible
<1>7. \A req \in Awaited : req.hook # h
  BY <1>1, AwaitedSent
<1>8. Awaited' = Awaited \cup {new}
  BY <1>1 DEF Awaited
<1>9. AnswersTrue'
  <2>1. \A req \in Awaited : req.hook \in Hooks \ {h}
    BY <1>7, AwaitedSent
  <2>2. \A req \in Awaited : job'[req.hook] = [phase |-> "sent", keys |-> req.keys, age |-> req.age]
    <3>1. \A req \in Awaited : job'[req.hook] = job[req.hook]
      BY <1>3, <2>1
    <3>. QED
      BY <3>1, Zenon DEF AnswersTrue
  <2>3. new.hook = h /\ new.status = 0
    OBVIOUS
  <2>4. \A req \in wire' \ Awaited' : req.status = 0
    BY <1>1, <1>8, Zenon DEF AnswersTrue
  <2>5. \A req, q \in Awaited' : q.hook = req.hook => q = req
    BY <1>7, <1>8, <2>3, AwaitedOnce
  <2>6. \A req \in Awaited' : req.status = 0 \/ (req.status = 204 /\ req.hook \in ReceivedHooks')
    BY <1>1, <1>8, <2>3, ZenonT(40) DEF AnswersTrue, ReceivedHooks
  <2>. HIDE DEF new
  <2>. QED
    BY <1>3, <1>8, <2>2, <2>3, <2>4, <2>5, <2>6 DEF AnswersTrue
<1>10. HeadersOwn' /\ NoGap'
  BY <1>1 DEF HeadersOwn, NoGap
<1>. QED
  BY <1>5, <1>6, <1>9, <1>10

LEMMA OrphanTyped ==
    ASSUME NEW req \in Request
    PROVE  [req EXCEPT !.live = FALSE] \in Request
BY ZenonT(40) DEF Request

(* The end of an attempt keeps the invariant, when its request is no longer awaited and   *)
(* the reason is no refusal.                                                          *)
LEMMA SettledSound ==
    ASSUME IInv, NEW h \in Hooks, job[h].phase # "none",
           NEW reason \in {"ok", "timeout", "bad_secret"},
           Settle(h, reason),
           UNCHANGED <<signing, trusted, skew, received, rotations, faults>>,
           wire' \subseteq Request,
           Awaited' = {req \in Awaited : req.hook # h},
           \A req \in wire' \ Awaited' : req.status = 0
    PROVE  IInv'
<1>1. row[h] = "pending" /\ attempts[h] < MaxAttempts
  BY DEF JobsSound, JobSound
<1>2. /\ row' \in [Hooks -> {"none", "pending", "delivered", "dead"}]
      /\ attempts' \in [Hooks -> 0..MaxAttempts]
      /\ error' = [error EXCEPT ![h] = reason]
      /\ job' = [job EXCEPT ![h] = None]
      /\ job' \in [Hooks -> Attempt]
      /\ \A x \in Hooks \ {h} : row'[x] = row[x] /\ attempts'[x] = attempts[x]
      /\ row'[h] # "none"
      /\ row'[h] = "pending" => attempts'[h] < MaxAttempts
  BY <1>1, SettleSound
<1>3. job'[h].phase = "none" /\ \A x \in Hooks \ {h} : job'[x] = job[x]
  BY <1>2 DEF TypeOK, None
<1>4. TypeOK'
  BY <1>2 DEF TypeOK
<1>5. JobsSound'
  <2>1. JobSound(h)'
    BY <1>2, <1>3 DEF JobSound
  <2>2. \A x \in Hooks \ {h} : JobSound(x)'
    BY <1>2, <1>3 DEF JobsSound, JobSound, Accepted, Compatible, Signable
  <2>. QED
    BY <2>1, <2>2 DEF JobsSound, Accepted, Compatible
<1>6. AnswersTrue'
  <2>1. \A req \in Awaited' : req \in Awaited /\ req.hook \in Hooks \ {h}
    BY AwaitedSent
  <2>2. \A req \in Awaited' : job'[req.hook] = [phase |-> "sent", keys |-> req.keys, age |-> req.age]
    <3>1. \A req \in Awaited' : job'[req.hook] = job[req.hook]
      BY <1>3, <2>1
    <3>. QED
      BY <2>1, <3>1, ZenonT(40) DEF AnswersTrue
  <2>3. \A req, q \in Awaited' : q.hook = req.hook => q = req
    BY <2>1, AwaitedOnce
  <2>4. ReceivedHooks' = ReceivedHooks
    BY DEF ReceivedHooks
  <2>5. \A req \in Awaited' : req.status = 0 \/ (req.status = 204 /\ req.hook \in ReceivedHooks')
    BY <2>1, <2>4, Zenon DEF AnswersTrue
  <2>. QED
    BY <2>2, <2>3, <2>5, ZenonT(40) DEF AnswersTrue
<1>7. HeadersOwn' /\ NoGap'
  BY <1>2 DEF HeadersOwn, NoGap, TypeOK
<1>. QED
  BY <1>4, <1>5, <1>6, <1>7

LEMMA UnsignableSound ==
    ASSUME IInv, NEW h \in Hooks, Unsignable(h)
    PROVE  IInv'
<1>1. /\ job[h].phase = "claimed"
      /\ Settle(h, "bad_secret")
      /\ UNCHANGED <<signing, trusted, skew, wire, received, rotations, faults>>
  BY DEF Unsignable
<1>2. \A req \in Awaited : req.hook # h
  BY <1>1, AwaitedSent
<1>3. Awaited' = {req \in Awaited : req.hook # h}
  BY <1>1, <1>2 DEF Awaited
<1>4. wire' \subseteq Request
  BY <1>1 DEF TypeOK
<1>5. \A req \in wire' \ Awaited' : req.status = 0
  BY <1>1 DEF AnswersTrue, Awaited
<1>. QED
  BY <1>1, <1>3, <1>4, <1>5, SettledSound

LEMMA TimedOutSound ==
    ASSUME IInv, NEW h \in Hooks, TimedOut(h)
    PROVE  IInv'
<1>1. /\ job[h].phase = "sent"
      /\ Settle(h, "timeout") /\ wire' = Orphaned(h)
      /\ UNCHANGED <<signing, trusted, skew, received, rotations, faults>>
  BY DEF TimedOut
<1>2. \A r \in wire' : r \in Request /\ (r.live => r \in wire /\ r.hook # h) /\ (~r.live => r.status = 0)
  <2>. SUFFICES ASSUME NEW r \in wire'
                PROVE  r \in Request /\ (r.live => r \in wire /\ r.hook # h) /\ (~r.live => r.status = 0)
    OBVIOUS
  <2>1. PICK req \in wire : /\ req.hook # h \/ req.status = 0
                            /\ r = IF req.hook = h THEN [req EXCEPT !.live = FALSE] ELSE req
    BY <1>1 DEF Orphaned
  <2>2. req \in Request
    BY DEF TypeOK
  <2>3. CASE req.hook = h
    <3>1. r = [req EXCEPT !.live = FALSE] /\ req.status = 0
      BY <2>1, <2>3
    <3>2. r \in Request
      BY <2>2, <3>1, OrphanTyped
    <3>3. r.status = 0
      BY <2>2, <3>1 DEF Request
    <3>4. r.live = FALSE
      BY <2>2, <3>1 DEF Request
    <3>. QED
      BY <3>2, <3>3, <3>4
  <2>4. CASE req.hook # h
    <3>1. r = req
      BY <2>1, <2>4
    <3>2. ~req.live => req.status = 0
      BY DEF AnswersTrue, Awaited
    <3>. QED
      BY <2>2, <2>4, <3>1, <3>2
  <2>. QED
    BY <2>3, <2>4
<1>3. \A r \in wire : r.hook # h => r \in wire'
  BY <1>1 DEF Orphaned
<1>4. Awaited' = {req \in Awaited : req.hook # h}
  BY <1>2, <1>3 DEF Awaited
<1>5. wire' \subseteq Request
  BY <1>2
<1>6. \A req \in wire' \ Awaited' : req.status = 0
  BY <1>2 DEF Awaited
<1>. QED
  BY <1>1, <1>4, <1>5, <1>6, SettledSound

LEMMA AnsweredSound ==
    ASSUME IInv, NEW h \in Hooks, NEW req \in wire, Answered(h, req)
    PROVE  IInv' /\ req.hook = h /\ h \in ReceivedHooks /\ job[h].phase # "none" /\ Settle(h, "ok")
<1>1. req \in Awaited /\ req.hook = h /\ req.status # 0
  BY DEF Answered, Awaited
<1>2. req.status = 204 /\ h \in ReceivedHooks
  BY <1>1, Zenon DEF AnswersTrue
<1>3. /\ wire' = wire \ {req}
      /\ Settle(h, "ok")
      /\ UNCHANGED <<signing, trusted, skew, received, rotations, faults>>
  BY <1>2 DEF Answered
<1>4. job[h].phase # "none"
  BY <1>1, AwaitedSent
<1>5. Awaited' = {r \in Awaited : r.hook # h}
  <2>1. Awaited' = Awaited \ {req}
    BY <1>3 DEF Awaited
  <2>. QED
    BY <1>1, <2>1, AwaitedOnce
<1>6. wire' \subseteq Request
  BY <1>3 DEF TypeOK
<1>7. \A r \in wire' \ Awaited' : r.status = 0
  <2>1. \A r \in wire' \ Awaited' : r \in wire \ Awaited
    BY <1>3 DEF Awaited
  <2>. QED
    BY <2>1 DEF AnswersTrue
<1>8. IInv'
  BY <1>3, <1>4, <1>5, <1>6, <1>7, SettledSound
<1>. QED
  BY <1>1, <1>2, <1>3, <1>4, <1>8

LEMMA RestartSound == IInv /\ Restart => IInv'
<1>. SUFFICES ASSUME IInv, Restart PROVE IInv'
  OBVIOUS
<1>1. /\ job' = [h \in Hooks |-> None]
      /\ wire' = {[req EXCEPT !.live = FALSE] : req \in {q \in wire : q.status = 0}}
      /\ UNCHANGED <<signing, trusted, skew, row, attempts, error, received, rotations>>
      /\ faults' \in 0..MaxFaults
  BY BoundsAssumption DEF Restart, Fault, TypeOK
<1>2. \A r \in wire' : r \in Request /\ r.live = FALSE /\ r.status = 0
  <2>. SUFFICES ASSUME NEW r \in wire' PROVE r \in Request /\ r.live = FALSE /\ r.status = 0
    OBVIOUS
  <2>1. PICK req \in wire : req.status = 0 /\ r = [req EXCEPT !.live = FALSE]
    BY <1>1
  <2>2. req \in Request
    BY DEF TypeOK
  <2>3. r \in Request
    BY <2>1, <2>2, OrphanTyped
  <2>. QED
    BY <2>1, <2>2, <2>3 DEF Request
<1>3. None \in Attempt /\ None.phase = "none"
  BY ClockAssumption DEF None, Attempt
<1>4. Awaited' = {}
  BY <1>2 DEF Awaited
<1>5. TypeOK'
  BY <1>1, <1>2, <1>3 DEF TypeOK
<1>6. JobsSound'
  BY <1>1, <1>3 DEF JobsSound, JobSound, Accepted, Compatible
<1>7. AnswersTrue'
  BY <1>2, <1>4, Zenon DEF AnswersTrue
<1>8. HeadersOwn' /\ NoGap'
  BY <1>1 DEF HeadersOwn, NoGap
<1>. QED
  BY <1>5, <1>6, <1>7, <1>8

(* The network keeps the invariant when what is awaited afterwards was awaited before. *)
LEMMA WireSound ==
    ASSUME IInv, UNCHANGED <<signing, trusted, skew, row, attempts, error, job, rotations>>,
           faults' \in 0..MaxFaults, wire' \subseteq Request,
           HeadersOwn', ReceivedHooks \subseteq ReceivedHooks',
           \A req \in wire' \ Awaited' : req.status = 0,
           \A q \in Awaited' : \E r \in Awaited :
               /\ q.hook = r.hook /\ q.keys = r.keys /\ q.age = r.age
               /\ q.status = r.status \/ (q.status = 204 /\ q.hook \in ReceivedHooks'),
           \A q, r \in Awaited' : q.hook = r.hook => q = r
    PROVE  IInv'
<1>1. TypeOK'
  BY DEF TypeOK
<1>2. JobsSound' /\ NoGap'
  BY DEF JobsSound, JobSound, Accepted, Compatible, NoGap
<1>3. \A q \in Awaited' :
        /\ job'[q.hook] = [phase |-> "sent", keys |-> q.keys, age |-> q.age]
        /\ q.status = 0 \/ (q.status = 204 /\ q.hook \in ReceivedHooks')
  <2>. SUFFICES ASSUME NEW q \in Awaited'
                PROVE  /\ job[q.hook] = [phase |-> "sent", keys |-> q.keys, age |-> q.age]
                       /\ q.status = 0 \/ (q.status = 204 /\ q.hook \in ReceivedHooks')
    OBVIOUS
  <2>1. PICK r \in Awaited :
               /\ q.hook = r.hook /\ q.keys = r.keys /\ q.age = r.age
               /\ q.status = r.status \/ (q.status = 204 /\ q.hook \in ReceivedHooks')
    OBVIOUS
  <2>2. /\ job[r.hook] = [phase |-> "sent", keys |-> r.keys, age |-> r.age]
        /\ r.status = 0 \/ (r.status = 204 /\ r.hook \in ReceivedHooks)
    BY Zenon DEF AnswersTrue
  <2>. QED
    BY <2>1, <2>2
<1>4. AnswersTrue'
  <2>1. \A q \in Awaited' : \A r \in Awaited' : r.hook = q.hook => r = q
    OBVIOUS
  <2>. QED
    BY <1>3, <2>1, Zenon DEF AnswersTrue
<1>. QED
  BY <1>1, <1>2, <1>4

LEMMA LoseSound ==
    ASSUME IInv, NEW req \in wire, Lose(req)
    PROVE  IInv'
<1>1. /\ wire' = wire \ {req}
      /\ UNCHANGED <<signing, trusted, skew, row, attempts, error, job, received, rotations>>
      /\ faults' \in 0..MaxFaults
  BY BoundsAssumption DEF Lose, Fault, TypeOK
<1>2. Awaited' \subseteq Awaited /\ wire' \ Awaited' \subseteq wire \ Awaited
  BY <1>1 DEF Awaited
<1>3. HeadersOwn' /\ ReceivedHooks' = ReceivedHooks
  BY <1>1 DEF HeadersOwn, ReceivedHooks
<1>4. wire' \subseteq Request
  BY <1>1 DEF TypeOK
<1>5. \A r \in wire' \ Awaited' : r.status = 0
  BY <1>2 DEF AnswersTrue
<1>6. \A q, r \in Awaited' : q.hook = r.hook => q = r
  BY <1>2, AwaitedOnce
<1>. QED
  BY <1>1, <1>2, <1>3, <1>4, <1>5, <1>6, WireSound

LEMMA ReceiveSound ==
    ASSUME IInv, NEW req \in wire, Receive(req)
    PROVE  IInv'
<1>. DEFINE status == Judge(req)
            back == [req EXCEPT !.status = status]
            taken == [hook |-> req.hook, verified |-> trusted # {}, headers |-> ParseHeaders(req)]
<1>1. /\ req.status = 0
      /\ received' = IF status = 204 THEN received \cup {taken} ELSE received
      /\ wire' = (wire \ {req}) \cup (IF req.live THEN {back} ELSE {})
      /\ UNCHANGED <<signing, trusted, skew, row, attempts, error, job, rotations, faults>>
  BY DEF Receive
<1>2. req \in Request /\ status \in {204, 400, 401}
  BY DEF TypeOK, Judge
<1>3. back \in Request /\ back.hook = req.hook /\ back.keys = req.keys /\ back.age = req.age
      /\ back.status = status /\ back.live = req.live
  BY <1>2 DEF Request
<1>4. HeadersOwn'
  BY <1>1, OwnOrigin DEF HeadersOwn
<1>5. /\ ReceivedHooks \subseteq ReceivedHooks'
      /\ status = 204 => req.hook \in ReceivedHooks'
  <2>1. taken.hook = req.hook /\ received \subseteq received' /\ (status = 204 => taken \in received')
    BY <1>1
  <2>. QED
    BY <2>1 DEF ReceivedHooks
<1>6. req \in Awaited => status = 204
  BY <1>2, AwaitedSent, LiveVerifies
<1>. HIDE DEF status, back
<1>7. Awaited' = IF req \in Awaited THEN (Awaited \ {req}) \cup {back} ELSE Awaited
  BY <1>1, <1>3 DEF Awaited
<1>8. \A r \in wire' \ Awaited' : r.status = 0
  <2>1. \A r \in wire' \ Awaited' : r \in wire \ Awaited
    BY <1>1, <1>3, <1>7 DEF Awaited
  <2>. QED
    BY <2>1 DEF AnswersTrue
<1>9. wire' \subseteq Request
  BY <1>1, <1>3 DEF TypeOK
<1>10. \A q, r \in Awaited' : q.hook = r.hook => q = r
  BY <1>3, <1>7, AwaitedOnce
<1>11. \A q \in Awaited' : \E r \in Awaited :
               /\ q.hook = r.hook /\ q.keys = r.keys /\ q.age = r.age
               /\ q.status = r.status \/ (q.status = 204 /\ q.hook \in ReceivedHooks')
  BY <1>3, <1>5, <1>6, <1>7
<1>12. faults' \in 0..MaxFaults
  BY <1>1 DEF TypeOK
<1>. QED
  BY <1>1, <1>4, <1>5, <1>8, <1>9, <1>10, <1>11, <1>12, WireSound

LEMMA AgedRequest ==
    ASSUME NEW req \in Request
    PROVE  /\ Aged(req) \in Request
           /\ Aged(req).hook = req.hook /\ Aged(req).keys = req.keys /\ Aged(req).status = req.status
           /\ Aged(req).live = req.live
           /\ req.age \in 0..Timeout => Aged(req).age = req.age + 1
<1>1. Oldest \in Nat /\ Timeout < Oldest /\ Timeout \in Nat
  BY ClockAssumption DEF Oldest
<1>2. Aged(req).live = req.live
  BY DEF Request, Aged
<1>3. Aged(req) \in Request
  BY <1>1 DEF Request, Aged
<1>. QED
  BY <1>1, <1>2, <1>3 DEF Request, Aged

(* An attempt and the request it waits for grow old together, and no attempt older than   *)
(* the timeout lets time pass: no awaited request is older than that.                   *)
LEMMA TickSound == IInv /\ Tick => IInv'
<1>. SUFFICES ASSUME IInv, Tick PROVE IInv'
  OBVIOUS
<1>1. /\ \A h \in Hooks : job[h].age < Timeout
      /\ wire' = {Aged(req) : req \in wire}
      /\ job' = [h \in Hooks |-> IF job[h].phase = "sent" THEN [job[h] EXCEPT !.age = job[h].age + 1] ELSE job[h]]
      /\ UNCHANGED <<signing, trusted, skew, row, attempts, error, received, rotations, faults>>
  BY DEF Tick
<1>2. \A h \in Hooks : /\ job'[h] \in Attempt /\ job'[h].phase = job[h].phase /\ job'[h].keys = job[h].keys
                       /\ job[h].phase = "sent" => job'[h].age = job[h].age + 1
                       /\ job[h].phase # "sent" => job'[h] = job[h]
  BY <1>1, ClockAssumption DEF TypeOK, Attempt
<1>3. wire \subseteq Request
  BY DEF TypeOK
<1>4. Awaited' = {Aged(req) : req \in Awaited}
  BY <1>1, <1>3, AgedRequest DEF Awaited
<1>5. TypeOK'
  <2>1. job' \in [Hooks -> Attempt]
    BY <1>1, <1>2
  <2>2. wire' \subseteq Request
    BY <1>1, <1>3, AgedRequest
  <2>. QED
    BY <1>1, <2>1, <2>2 DEF TypeOK
<1>6. JobsSound'
  BY <1>1, <1>2 DEF JobsSound, JobSound, Accepted, Compatible, Signable
<1>7. AnswersTrue'
  <2>1. ASSUME NEW r \in wire' \ Awaited' PROVE r.status = 0
    <3>1. PICK req \in wire : r = Aged(req)
      BY <1>1
    <3>2. req \in wire \ Awaited
      BY <1>4, <3>1
    <3>. QED
      BY <1>3, <3>1, <3>2, AgedRequest DEF AnswersTrue
  <2>2. ASSUME NEW r \in Awaited'
        PROVE  /\ job'[r.hook] = [phase |-> "sent", keys |-> r.keys, age |-> r.age]
               /\ r.status = 0 \/ (r.status = 204 /\ r.hook \in ReceivedHooks')
    <3>1. PICK req \in Awaited : r = Aged(req)
      BY <1>4
    <3>2. /\ req \in Request /\ req.hook \in Hooks /\ req.age \in 0..Timeout
          /\ job[req.hook].phase = "sent" /\ job[req.hook].keys = req.keys /\ job[req.hook].age = req.age
      BY AwaitedSent
    <3>3. r.hook = req.hook /\ r.keys = req.keys /\ r.age = req.age + 1 /\ r.status = req.status
      BY <3>1, <3>2, AgedRequest
    <3>4. /\ job'[req.hook] \in Attempt /\ job'[req.hook].phase = "sent"
          /\ job'[req.hook].keys = job[req.hook].keys /\ job'[req.hook].age = job[req.hook].age + 1
      BY <1>2, <3>2
    <3>5. req.status = 0 \/ (req.status = 204 /\ req.hook \in ReceivedHooks)
      BY Zenon DEF AnswersTrue
    <3>6. ReceivedHooks' = ReceivedHooks
      BY <1>1 DEF ReceivedHooks
    <3>7. job'[r.hook] = [phase |-> "sent", keys |-> r.keys, age |-> r.age]
      BY <3>2, <3>3, <3>4 DEF Attempt
    <3>. QED
      BY <3>3, <3>5, <3>6, <3>7
  <2>3. ASSUME NEW r \in Awaited', NEW q \in Awaited', q.hook = r.hook PROVE q = r
    <3>1. PICK req \in Awaited : r = Aged(req)
      BY <1>4
    <3>2. PICK qeq \in Awaited : q = Aged(qeq)
      BY <1>4
    <3>3. qeq.hook = req.hook
      BY <2>3, <3>1, <3>2, AgedRequest, AwaitedSent
    <3>. QED
      BY <3>1, <3>2, <3>3, AwaitedOnce
  <2>. QED
    BY <2>1, <2>2, <2>3, Zenon DEF AnswersTrue
<1>8. HeadersOwn' /\ NoGap'
  BY <1>1 DEF HeadersOwn, NoGap
<1>. QED
  BY <1>5, <1>6, <1>7, <1>8

(* A rotation keeps every attempt acceptable: the operator's order of the two steps is    *)
(* what leaves no gap.                                                                 *)
LEMMA RotateSound ==
    ASSUME IInv, NEW K \in SUBSET Secrets, RotateSink(K) \/ RotateReceiver(K)
    PROVE  IInv'
<1>1. UNCHANGED <<skew, row, attempts, error, job, wire, received, faults>>
  BY DEF RotateSink, RotateReceiver
<1>2. rotations' \in 0..MaxRotations
  BY BoundsAssumption DEF RotateSink, RotateReceiver, TypeOK
<1>3. TypeOK'
  BY <1>1, <1>2 DEF TypeOK, RotateSink, RotateReceiver
<1>4. AnswersTrue' /\ HeadersOwn' /\ NoGap'
  BY <1>1 DEF AnswersTrue, Awaited, ReceivedHooks, HeadersOwn, NoGap
<1>5. ASSUME RotateSink(K) PROVE JobsSound'
  BY <1>1, <1>5 DEF RotateSink, JobsSound, JobSound, Accepted, Compatible
<1>6. ASSUME RotateReceiver(K) PROVE JobsSound'
  <2>1. \A h \in Hooks : job[h].phase # "none" => job[h] # None
    BY DEF None
  <2>. QED
    BY <1>1, <1>6, <2>1 DEF RotateReceiver, JobsSound, JobSound, Accepted
<1>. QED
  BY <1>3, <1>4, <1>5, <1>6

LEMMA NextSound == IInv /\ [Next]_vars => IInv'
<1>. SUFFICES ASSUME IInv, [Next]_vars PROVE IInv'
  OBVIOUS
<1>1. ASSUME NEW h \in Hooks, \E req \in wire : Answered(h, req) PROVE IInv'
  BY <1>1, AnsweredSound
<1>2. ASSUME NEW req \in wire, Receive(req) \/ Lose(req) PROVE IInv'
  BY <1>2, ReceiveSound, LoseSound
<1>3. CASE UNCHANGED vars
  <2>1. TypeOK' /\ HeadersOwn' /\ NoGap'
    BY <1>3 DEF vars, TypeOK, HeadersOwn, NoGap
  <2>2. JobsSound'
    BY <1>3 DEF vars, JobsSound, JobSound, Accepted, Compatible
  <2>3. AnswersTrue'
    BY <1>3 DEF vars, AnswersTrue, Awaited, ReceivedHooks
  <2>. QED
    BY <2>1, <2>2, <2>3
<1>. HIDE DEF IInv
<1>. QED
  BY <1>1, <1>2, <1>3, AcceptSound, ClaimSound, SendSound, UnsignableSound, TimedOutSound,
     RestartSound, TickSound, RotateSound DEF Next

(* No step takes a row back to where it has not been accepted, and only a running        *)
(* attempt sends a request.                                                            *)
LEMMA NextSent == IInv /\ SentAccepted /\ [Next]_vars => SentAccepted'
<1>. SUFFICES ASSUME IInv, SentAccepted, [Next]_vars PROVE SentAccepted'
  OBVIOUS
<1>1. \A x \in Hooks : row[x] # "none" => row'[x] # "none"
  <2>1. ASSUME NEW h \in Hooks, NEW reason, Settle(h, reason)
        PROVE  \A x \in Hooks : row[x] # "none" => row'[x] # "none"
    BY <2>1 DEF Settle, TypeOK
  <2>2. ASSUME NEW h \in Hooks,
               Unsignable(h) \/ TimedOut(h) \/ \E req \in wire : Answered(h, req)
        PROVE  \E reason : Settle(h, reason)
    BY <2>2 DEF Unsignable, TimedOut, Answered
  <2>3. ASSUME NEW h \in Hooks, Accept(h) PROVE \A x \in Hooks : row[x] # "none" => row'[x] # "none"
    BY <2>3 DEF Accept, TypeOK
  <2>4. CASE \/ \E h \in Hooks : Claim(h) \/ Send(h)
             \/ \E req \in wire : Receive(req) \/ Lose(req)
             \/ \E K \in SUBSET Secrets : RotateSink(K) \/ RotateReceiver(K)
             \/ Restart \/ Tick \/ UNCHANGED vars
    BY <2>4 DEF Claim, Send, Receive, Lose, RotateSink, RotateReceiver, Restart, Tick, vars
  <2>. QED
    BY <2>1, <2>2, <2>3, <2>4 DEF Next
<1>2. \A r \in wire' : r.hook \in Hooks /\ row[r.hook] # "none"
  <2>0. \A req \in wire : req \in Request /\ req.hook \in Hooks /\ row[req.hook] # "none"
    BY DEF TypeOK, Request, SentAccepted
  <2>1. ASSUME NEW h \in Hooks, Send(h) PROVE \A r \in wire' : r.hook \in Hooks /\ row[r.hook] # "none"
    BY <2>0, <2>1 DEF Send, JobsSound, JobSound
  <2>2. ASSUME NEW h \in Hooks, TimedOut(h) PROVE \A r \in wire' : \E req \in wire : r.hook = req.hook
    BY <2>0, <2>2 DEF TimedOut, Orphaned, Request
  <2>3. ASSUME NEW req \in wire, Receive(req) PROVE \A r \in wire' : \E q \in wire : r.hook = q.hook
    BY <2>0, <2>3 DEF Receive, Request
  <2>4. ASSUME Restart PROVE \A r \in wire' : \E req \in wire : r.hook = req.hook
    BY <2>0, <2>4 DEF Restart, Request
  <2>5. ASSUME Tick PROVE \A r \in wire' : \E req \in wire : r.hook = req.hook
    BY <2>0, <2>5, AgedRequest DEF Tick
  <2>6. CASE \/ \E h \in Hooks : Accept(h) \/ Claim(h) \/ Unsignable(h) \/ \E req \in wire : Answered(h, req)
             \/ \E req \in wire : Lose(req)
             \/ \E K \in SUBSET Secrets : RotateSink(K) \/ RotateReceiver(K)
             \/ UNCHANGED vars
    <3>1. wire' \subseteq wire
      BY <2>6 DEF Accept, Claim, Unsignable, Answered, Lose, RotateSink, RotateReceiver, vars
    <3>. QED
      BY <2>0, <3>1
  <2>. QED
    BY <2>0, <2>1, <2>2, <2>3, <2>4, <2>5, <2>6 DEF Next
<1>. QED
  BY <1>1, <1>2 DEF SentAccepted

LEMMA Invariance == Spec => [](IInv /\ SentAccepted)
<1>1. Init => SentAccepted
  BY DEF Init, SentAccepted
<1>. HIDE DEF IInv
<1>. QED
  BY <1>1, InitSound, NextSound, NextSent, PTL DEF Spec

(* DeliveryInv in every state of every instance: rows stay within the retry policy, an     *)
(* answer is the receiver's own for the attempt that waits for it, and what the receiver     *)
(* reads was set by the sink (settle, send_hook, forwarded_headers).                      *)
THEOREM DeliveryIsSound == Spec => []DeliveryInv
<1>1. IInv /\ SentAccepted => DeliveryInv
  BY DEF DeliveryInv
<1>. QED
  BY <1>1, Invariance, PTL

(* No hook is dead-lettered because the receiver refused it, through any rotation that     *)
(* keeps the two sides compatible and with clocks that differ by less than the tolerance    *)
(* leaves (Signer.headers, verifySignature).                                             *)
THEOREM RotationLeavesNoGap == Spec => []NoGap
<1>1. IInv /\ SentAccepted => NoGap
  OBVIOUS
<1>. QED
  BY <1>1, Invariance, PTL

Held == {h \in Hooks : row[h] # "none"}
Open == {h \in Hooks : row[h] = "pending"}
Dead == {h \in Hooks : row[h] = "dead"}

(* The end of an attempt settles the hook, buries it or leaves it to the next attempt. *)
LEMMA SettleRefines ==
    ASSUME IInv, NEW h \in Hooks, job[h].phase # "none",
           NEW reason \in {"ok", "timeout", "bad_secret"}, Settle(h, reason), received' = received,
           reason = "ok" => h \in ReceivedHooks
    PROVE  [Consumer!Next]_Consumer!vars
<1>1. row[h] = "pending" /\ attempts[h] < MaxAttempts
  BY DEF JobsSound, JobSound
<1>2. /\ row' \in [Hooks -> {"none", "pending", "delivered", "dead"}]
      /\ \A x \in Hooks \ {h} : row'[x] = row[x]
      /\ row'[h] # "none"
      /\ row'[h] = "delivered" => reason = "ok"
  BY <1>1, SettleSound
<1>3. ReceivedHooks' = ReceivedHooks /\ Held' = Held /\ h \in Held /\ h \in Open
  BY <1>1, <1>2 DEF ReceivedHooks, Held, Open
<1>4. CASE row'[h] = "pending"
  <2>1. Open' = Open /\ Dead' = Dead
    BY <1>1, <1>2, <1>4 DEF Open, Dead
  <2>. QED
    BY <1>3, <2>1 DEF Consumer!vars, Held, Open, Dead, ReceivedHooks
<1>5. CASE row'[h] = "dead"
  <2>1. Open' = Open \ {h} /\ Dead' = Dead \cup {h}
    BY <1>1, <1>2, <1>5 DEF Open, Dead
  <2>2. Consumer!Bury(h)
    BY <1>3, <2>1 DEF Consumer!Bury, Held, Open, Dead, ReceivedHooks
  <2>. QED
    BY <2>2 DEF Consumer!Next
<1>6. CASE row'[h] = "delivered"
  <2>1. Open' = Open \ {h} /\ Dead' = Dead
    BY <1>1, <1>2, <1>6 DEF Open, Dead
  <2>2. h \in ReceivedHooks
    BY <1>2, <1>6
  <2>3. Consumer!Settle(h)
    BY <1>3, <2>1, <2>2 DEF Consumer!Settle, Consumer!Done, Held, Open, Dead, ReceivedHooks
  <2>. QED
    BY <2>3 DEF Consumer!Next
<1>. QED
  BY <1>2, <1>4, <1>5, <1>6

LEMMA NextRefines == IInv /\ SentAccepted /\ [Next]_vars => [Consumer!Next]_Consumer!vars
<1>. SUFFICES ASSUME IInv, SentAccepted, [Next]_vars PROVE [Consumer!Next]_Consumer!vars
  OBVIOUS
<1>1. ASSUME NEW h \in Hooks, Accept(h) PROVE Consumer!Next
  <2>1. Held' = Held \cup {h} /\ Open' = Open \cup {h} /\ Dead' = Dead /\ h \notin Held
    BY <1>1 DEF Accept, TypeOK, Held, Open, Dead
  <2>2. ReceivedHooks' = ReceivedHooks
    BY <1>1 DEF Accept, ReceivedHooks
  <2>3. Consumer!Accept(h)
    BY <2>1, <2>2 DEF Consumer!Accept, Held, Open, Dead, ReceivedHooks
  <2>. QED
    BY <2>3 DEF Consumer!Next
<1>2. ASSUME NEW h \in Hooks, Unsignable(h) PROVE [Consumer!Next]_Consumer!vars
  <2>1. job[h].phase # "none" /\ Settle(h, "bad_secret") /\ received' = received
    BY <1>2 DEF Unsignable
  <2>. QED
    BY <2>1, SettleRefines
<1>3. ASSUME NEW h \in Hooks, TimedOut(h) PROVE [Consumer!Next]_Consumer!vars
  <2>1. job[h].phase # "none" /\ Settle(h, "timeout") /\ received' = received
    BY <1>3 DEF TimedOut
  <2>. QED
    BY <2>1, SettleRefines
<1>4. ASSUME NEW h \in Hooks, NEW req \in wire, Answered(h, req) PROVE [Consumer!Next]_Consumer!vars
  <2>1. job[h].phase # "none" /\ Settle(h, "ok") /\ h \in ReceivedHooks
    BY <1>4, AnsweredSound
  <2>2. received' = received
    BY <1>4 DEF Answered
  <2>. QED
    BY <2>1, <2>2, SettleRefines
<1>5. ASSUME NEW req \in wire, Receive(req) PROVE [Consumer!Next]_Consumer!vars
  <2>1. Held' = Held /\ Open' = Open /\ Dead' = Dead
    BY <1>5 DEF Receive, Held, Open, Dead
  <2>2. CASE ReceivedHooks' = ReceivedHooks
    BY <2>1, <2>2 DEF Consumer!vars, Held, Open, Dead, ReceivedHooks
  <2>3. CASE ReceivedHooks' = ReceivedHooks \cup {req.hook}
    <3>1. req.hook \in Held
      BY DEF SentAccepted, TypeOK, Request, Held
    <3>2. Consumer!Handle(req.hook)
      BY <2>1, <2>3, <3>1 DEF Consumer!Handle, Held, Open, Dead, ReceivedHooks
    <3>. QED
      BY <3>1, <3>2 DEF Consumer!Next, Held
  <2>4. received' = received \/ \E x : received' = received \cup {x} /\ x.hook = req.hook
    BY <1>5 DEF Receive
  <2>. QED
    BY <2>2, <2>3, <2>4 DEF ReceivedHooks
<1>6. CASE \/ \E h \in Hooks : Claim(h) \/ Send(h)
           \/ \E req \in wire : Lose(req)
           \/ \E K \in SUBSET Secrets : RotateSink(K) \/ RotateReceiver(K)
           \/ Restart \/ Tick \/ UNCHANGED vars
  <2>1. UNCHANGED <<row, received>>
    BY <1>6 DEF Claim, Send, Lose, RotateSink, RotateReceiver, Restart, Tick, vars
  <2>. QED
    BY <2>1 DEF Consumer!vars
<1>. QED
  BY <1>1, <1>2, <1>3, <1>4, <1>5, <1>6 DEF Next

(* Sink and receiver implement the at-least-once consumer, for every instance: a row is     *)
(* delivered only once the receiver has the hook, however late or often a request arrives   *)
(* (send_hook, receiveDelivery).                                                         *)
THEOREM DeliveryRefines == Spec => Refines
<1>1. Init => Consumer!Init
  BY DEF Init, Consumer!Init
<1>. HIDE DEF IInv
<1>. QED
  BY <1>1, Invariance, NextRefines, PTL DEF Spec, Refines, Consumer!Spec
=============================================================================
