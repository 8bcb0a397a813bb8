--------------------------- MODULE OperatorProofs ---------------------------
(* The route table and the replay jobs of a node stay sound, and what its    *)
(* clients report stays true, for any number of callers, retries and lost    *)
(* requests or answers.                                                      *)
EXTENDS OperatorApi, FiniteSetTheorems, TLAPS

(* The provers of a step that names none, in the order they are tried. *)
USE ZenonT(3), SMTT(8), ZenonT(20), Z3T(30), SMTT(30)

\* The inductive invariant: what the node holds, and what its clients reported.
IInv == NodeInv /\ OutcomeTrue

-----------------------------------------------------------------------------
(* The operators of the model *)

\* Both clients resolve a call exactly when the answer is a 2xx.
LEMMA Outcomes ==
    ASSUME NEW k, NEW a, a.status \in Nat
    PROVE  Outcome(k, a) = "ok" <=> a.status \in 200..299
  <1>1. RoutesOutcome(a) = "ok" <=> a.status \in 200..299 BY DEF RoutesOutcome
  <1>2. AdminOutcome(a) = "ok" <=> a.status \in 200..299 BY DEF AdminOutcome
  <1> QED BY <1>1, <1>2 DEF Outcome

\* A set with one more element stays within a bound it had not reached.
LEMMA OneMore ==
    ASSUME NEW S, IsFiniteSet(S), NEW i, NEW T, T \subseteq S \cup {i}
    PROVE  /\ IsFiniteSet(T) /\ Cardinality(T) \in Nat /\ Cardinality(S) \in Nat
           /\ Cardinality(T) <= Cardinality(S) + 1
  <1>1. IsFiniteSet(S \cup {i}) /\ Cardinality(S) \in Nat BY FS_AddElement, FS_CardinalityType
  <1>2. Cardinality(S \cup {i}) \in {Cardinality(S), Cardinality(S) + 1} BY FS_AddElement
  <1>3. IsFiniteSet(T) /\ Cardinality(T) <= Cardinality(S \cup {i}) BY <1>1, FS_Subset
  <1>4. Cardinality(T) \in Nat BY <1>3, FS_CardinalityType
  <1> QED BY <1>1, <1>2, <1>3, <1>4

LEMMA NoMore ==
    ASSUME NEW S, IsFiniteSet(S), NEW T, T \subseteq S
    PROVE  /\ IsFiniteSet(T) /\ Cardinality(T) \in Nat /\ Cardinality(S) \in Nat
           /\ Cardinality(T) <= Cardinality(S)
  BY FS_Subset, FS_CardinalityType

-----------------------------------------------------------------------------
(* The route table *)

\* A definition without a conflict, stored over its predecessor or below the
\* cap, leaves the table sound.
LEMMA TableWith ==
    ASSUME TypeOK, TableSound, NEW i, NEW d \in Definition, ~Conflict(i, d.enabled),
           routes' = With(routes, i, d),
           i \in DOMAIN routes \/ Cardinality(DOMAIN routes) < MaxRoutes
    PROVE  /\ TableSound'
           /\ routes' \in [DOMAIN routes' -> Definition] /\ IsFiniteSet(DOMAIN routes')
  <1>1. /\ routes' \in [DOMAIN routes' -> Definition]
        /\ DOMAIN routes' = DOMAIN routes \cup {i} /\ routes'[i] = d
        /\ \A j \in DOMAIN routes \ {i} : routes'[j] = routes[j]
    <2>1. routes \in [DOMAIN routes -> Definition] BY DEF TypeOK
    <2> QED BY <2>1 DEF With
  <1>2. \A j \in DOMAIN routes \ {i} : ~(d.enabled /\ routes[j].enabled) BY DEF Conflict
  <1>3. \A j, l \in DOMAIN routes' : routes'[j].enabled /\ routes'[l].enabled => j = l
    BY <1>1, <1>2 DEF TableSound
  <1>4. IsFiniteSet(DOMAIN routes') /\ Cardinality(DOMAIN routes') <= MaxRoutes
    <2>1. CASE i \in DOMAIN routes
      <3>1. DOMAIN routes' = DOMAIN routes BY <1>1, <2>1
      <3> QED BY <3>1 DEF TypeOK, TableSound
    <2>2. CASE Cardinality(DOMAIN routes) < MaxRoutes
      BY <1>1, <2>2, OneMore, BoundsAssumption DEF TypeOK
    <2> QED BY <2>1, <2>2
  <1> QED BY <1>1, <1>3, <1>4 DEF TableSound

LEMMA TableWithout ==
    ASSUME TypeOK, TableSound, NEW i, routes' = Restrict(routes, DOMAIN routes \ {i})
    PROVE  /\ TableSound'
           /\ routes' \in [DOMAIN routes' -> Definition] /\ IsFiniteSet(DOMAIN routes')
           /\ DOMAIN routes' \subseteq DOMAIN routes
           /\ \A j \in DOMAIN routes' : routes'[j] = routes[j]
  <1>1. /\ DOMAIN routes' = DOMAIN routes \ {i}
        /\ \A j \in DOMAIN routes' : routes'[j] = routes[j]
        /\ routes' \in [DOMAIN routes' -> Definition]
    <2>1. routes \in [DOMAIN routes -> Definition] BY DEF TypeOK
    <2> QED BY <2>1 DEF Restrict
  <1>2. IsFiniteSet(DOMAIN routes') /\ Cardinality(DOMAIN routes') <= Cardinality(DOMAIN routes)
    BY <1>1, NoMore DEF TypeOK
  <1>3. Cardinality(DOMAIN routes) \in Nat /\ Cardinality(DOMAIN routes') \in Nat
    BY <1>2, FS_CardinalityType DEF TypeOK
  <1>4. \A j, l \in DOMAIN routes' : routes'[j].enabled /\ routes'[l].enabled => j = l
    BY <1>1, Zenon DEF TableSound
  <1>5. Cardinality(DOMAIN routes') <= MaxRoutes BY <1>2, <1>3, BoundsAssumption DEF TableSound
  <1> QED BY <1>1, <1>2, <1>4, <1>5 DEF TableSound

-----------------------------------------------------------------------------
(* Requests *)

\* A write to the table makes every plan but the one it carried out stale.
LEMMA PlansKept ==
    ASSUME TypeOK, NEW q \in wire, PlanSound(q),
           UNCHANGED table \/ version' = version + 1
    PROVE  PlanSound(q)'
  <1>1. q.seen \in Nat /\ version \in Nat BY DEF TypeOK, RequestType
  <1>2. CASE UNCHANGED table BY <1>2, Zenon DEF PlanSound, Conflict, table
  <1>3. CASE version' = version + 1 BY <1>1, <1>3 DEF PlanSound
  <1> QED BY <1>2, <1>3

\* The ledger of the caller of `r` alone may count a write.
Counts(r) ==
    \/ call' = call
    \/ \E made \in {0, 1} : Count(r.by, made)

LEMMA CountFacts ==
    ASSUME TypeOK, NEW r \in wire, Counts(r)
    PROVE  /\ call' \in [Callers -> CallType]
           /\ \A c \in Callers : /\ call'[c].k = call[c].k /\ call'[c].phase = call[c].phase
                                 /\ call'[c].outcome = call[c].outcome /\ call'[c].n = call[c].n
                                 /\ call'[c].wrote >= call[c].wrote
                                 /\ c # r.by => call'[c] = call[c]
  <1>1. r.by \in Callers /\ call \in [Callers -> CallType] BY DEF TypeOK, RequestType
  <1>2. \A c \in Callers : call[c] \in CallType /\ call[c].wrote \in Nat /\ call[c].made \in Nat
    BY <1>1 DEF CallType
  <1>3. CASE call' = call BY <1>1, <1>2, <1>3
  <1>4. ASSUME NEW made \in {0, 1}, Count(r.by, made)
        PROVE  /\ call' \in [Callers -> CallType]
               /\ \A c \in Callers : /\ call'[c].k = call[c].k /\ call'[c].phase = call[c].phase
                                     /\ call'[c].outcome = call[c].outcome /\ call'[c].n = call[c].n
                                     /\ call'[c].wrote >= call[c].wrote
                                     /\ c # r.by => call'[c] = call[c]
    <2>1. call' \in [Callers -> CallType] BY <1>1, <1>2, <1>4 DEF Count, CallType
    <2>2. \A c \in Callers : c # r.by => call'[c] = call[c] BY <1>1, <1>4 DEF Count
    <2>3. /\ call'[r.by].k = call[r.by].k /\ call'[r.by].phase = call[r.by].phase
          /\ call'[r.by].outcome = call[r.by].outcome /\ call'[r.by].n = call[r.by].n
          /\ call'[r.by].wrote = call[r.by].wrote + 1
      BY <1>1, <1>2, <1>4 DEF Count, CallType
    <2> QED BY <1>1, <1>2, <2>1, <2>2, <2>3
  <1> QED BY <1>3, <1>4 DEF Counts

\* A handler of `r` leaves the other requests sound, and what was reported true:
\* nothing else of its caller is under way while the first request is unanswered.
LEMMA OthersSound ==
    ASSUME TypeOK, WireSound, OutcomeTrue, NEW r \in wire, Counts(r),
           UNCHANGED table \/ version' = version + 1,
           NEW s \in RequestType, s.by = r.by, s.n = r.n,
           wire' \subseteq (wire \ {r}) \cup {s},
           s \in wire' => PlanSound(s)' /\ RequestSound(s)'
    PROVE  WireSound' /\ OutcomeTrue'
  <1>1. /\ r.by \in Callers /\ call \in [Callers -> CallType] /\ r.n \in Nat \ {0}
        /\ \A c \in Callers : call[c].n \in Nat /\ call[c].wrote \in Nat
    BY DEF TypeOK, RequestType, CallType
  <1>2. \A c \in Callers : /\ call'[c].k = call[c].k /\ call'[c].phase = call[c].phase
                           /\ call'[c].outcome = call[c].outcome /\ call'[c].n = call[c].n
                           /\ call'[c].wrote \in Nat /\ call'[c].wrote >= call[c].wrote
                           /\ c # r.by => call'[c] = call[c]
    BY CountFacts DEF CallType
  <1>3. ASSUME NEW q \in wire \ {r} PROVE PlanSound(q)' /\ RequestSound(q)'
    <2>1. /\ PlanSound(q) /\ RequestSound(q) /\ q.by \in Callers /\ q.n \in Nat \ {0}
          /\ q.by = r.by => q.n # r.n
      BY DEF WireSound, TypeOK, RequestType
    <2>2. PlanSound(q)' BY <2>1, PlansKept
    <2>3. q.by = r.by => call[q.by].n # 1
      BY <1>1, <2>1 DEF WireSound, RequestSound
    <2>4. q.phase = "answered" => Live(q)' /\ Told(q)'
      <3> SUFFICES ASSUME q.phase = "answered" PROVE Live(q)' /\ Told(q)' OBVIOUS
      <3>1. Live(q) /\ Told(q) BY <2>1 DEF RequestSound
      <3>2. Live(q)' BY <1>2, <2>1, <3>1 DEF Live, Waiting
      <3>3. Told(q)' BY <1>1, <1>2, <2>1, <2>3, <3>1 DEF Told
      <3> QED BY <3>2, <3>3
    <2>5. q.phase # "answered" /\ call'[q.by].n = 1 => call'[q.by].wrote = 0
      BY <1>2, <2>1, <2>3 DEF RequestSound
    <2>6. call'[q.by].phase # "idle" /\ q.n <= call'[q.by].n BY <1>2, <2>1 DEF RequestSound
    <2> QED BY <2>2, <2>4, <2>5, <2>6 DEF RequestSound
  <1>4. \A q, p \in wire' : q.by = p.by /\ q.n = p.n => q = p
    BY DEF WireSound
  <1>5. \A c \in Callers : call'[c].phase = "idle" => call'[c].n = 0 /\ call'[c].wrote = 0
    <2>1. call[r.by].phase # "idle" BY DEF WireSound, RequestSound
    <2> QED BY <1>2, <2>1 DEF WireSound
  <1>6. WireSound' BY <1>3, <1>4, <1>5 DEF WireSound
  <1>7. ASSUME NEW c \in Callers, call'[c].phase = "done"
        PROVE  /\ call'[c].outcome = "ok" /\ call'[c].k.verb \notin {"get", "start"} => call'[c].wrote > 0
               /\ call'[c].outcome # "ok" /\ call'[c].n <= 1 =>
                    call'[c].wrote = 0 /\ \A q \in wire' : q.by # c
    <2>1. /\ call[c].outcome = "ok" /\ call[c].k.verb \notin {"get", "start"} => call[c].wrote > 0
          /\ call[c].outcome # "ok" /\ call[c].n <= 1 =>
               call[c].wrote = 0 /\ \A q \in wire : q.by # c
      BY <1>2, <1>7 DEF OutcomeTrue
    <2>2. \A q \in wire' : \E p \in wire : q.by = p.by OBVIOUS
    <2> QED BY <1>1, <1>2, <2>1, <2>2
  <1>8. OutcomeTrue' BY <1>7 DEF OutcomeTrue
  <1> QED BY <1>6, <1>8

\* A request that is answered, or dropped because nobody waits for it, leaves
\* the wire sound if the answer is true of the ledger.
LEMMA ReplyKeeps ==
    ASSUME TypeOK, WireSound, OutcomeTrue, NEW r \in wire, r.phase # "answered",
           NEW status \in Nat, NEW error \in Errors, Reply(r, status, error),
           UNCHANGED table \/ version' = version + 1,
           \/ call' = call /\ (status \in 200..299 => call[r.by].k.verb \in {"get", "start"})
           \/ status \in 200..299 /\ \E made \in {0, 1} : Count(r.by, made)
    PROVE  WireSound' /\ OutcomeTrue' /\ wire' \subseteq RequestType
  <1> DEFINE s == [r EXCEPT !.phase = "answered", !.answer = Answer(status, error)]
  <1>1. /\ r \in RequestType /\ r.by \in Callers /\ call \in [Callers -> CallType]
        /\ r.seen \in Nat /\ version \in Nat /\ call[r.by].wrote \in Nat /\ call[r.by].n \in Nat
    BY DEF TypeOK, RequestType, CallType
  <1>2. /\ s \in RequestType /\ s.by = r.by /\ s.n = r.n /\ s.seen = r.seen
        /\ s.phase = "answered" /\ s.answer.status = status
    BY <1>1, ZenonT(40) DEF RequestType, Answer
  <1>3. wire' \subseteq (wire \ {r}) \cup {s} /\ (~Live(r) => wire' = wire \ {r})
    BY DEF Reply, Move
  <1> HIDE DEF s
  <1>4. Counts(r) BY DEF Counts
  <1>5. /\ call'[r.by].k = call[r.by].k /\ call'[r.by].phase = call[r.by].phase
        /\ call'[r.by].n = call[r.by].n /\ call'[r.by].wrote \in Nat
    BY <1>1, <1>4, CountFacts DEF CallType
  <1>6. status \in 200..299 /\ call[r.by].k.verb \notin {"get", "start"} => call'[r.by].wrote > 0
    <2>1. ASSUME NEW made \in {0, 1}, Count(r.by, made) PROVE call'[r.by].wrote > 0
      <3>1. call'[r.by].wrote = call[r.by].wrote + 1 BY <1>1, <2>1 DEF Count, CallType
      <3> QED BY <1>1, <3>1
    <2> QED BY <2>1
  <1>7. status \notin 200..299 /\ call[r.by].n = 1 => call'[r.by].wrote = 0
    BY DEF WireSound, RequestSound
  <1>8. ASSUME s \in wire' PROVE PlanSound(s)' /\ RequestSound(s)'
    <2>1. Live(r)
      <3> SUFFICES ASSUME ~Live(r) PROVE FALSE OBVIOUS
      <3>1. s \in wire /\ s # r BY <1>3, <1>8
      <3> QED BY <1>2, <3>1 DEF WireSound
    <2>2. PlanSound(s)'
      <3>1. r.seen <= version /\ version' \in {version, version + 1}
        BY DEF WireSound, PlanSound, table
      <3> QED BY <1>1, <1>2, <3>1 DEF PlanSound
    <2>3. Live(s)' BY <1>2, <1>5, <2>1 DEF Live, Waiting
    <2>4. Outcome(call'[r.by].k, s.answer) = "ok" <=> status \in 200..299 BY <1>2, Outcomes
    <2>5. Told(s)' BY <1>2, <1>5, <1>6, <1>7, <2>4 DEF Told
    <2>6. call'[s.by].phase # "idle" /\ s.n <= call'[s.by].n
      BY <1>2, <1>5 DEF WireSound, RequestSound
    <2> QED BY <1>2, <2>2, <2>3, <2>5, <2>6 DEF RequestSound
  <1>9. WireSound' /\ OutcomeTrue' BY <1>2, <1>3, <1>4, <1>8, OthersSound
  <1>10. wire' \subseteq RequestType BY <1>2, <1>3 DEF TypeOK
  <1> QED BY <1>9, <1>10

\* A handler that goes on with its request changes nothing a caller knows of.
LEMMA MoveKeeps ==
    ASSUME TypeOK, WireSound, OutcomeTrue, NEW r \in wire, r.phase # "answered",
           NEW s \in RequestType, s.by = r.by, s.n = r.n, s.phase # "answered", PlanSound(s)',
           Move(r, s), UNCHANGED <<table, call>>
    PROVE  WireSound' /\ OutcomeTrue' /\ wire' \subseteq RequestType
  <1>1. wire' \subseteq (wire \ {r}) \cup {s} /\ call' = call BY DEF Move
  <1>2. RequestSound(r) BY DEF WireSound
  <1>3. RequestSound(s)' BY <1>1, <1>2 DEF RequestSound
  <1>4. WireSound' /\ OutcomeTrue' BY <1>1, <1>3, OthersSound DEF Counts
  <1> QED BY <1>1, <1>4 DEF TypeOK

-----------------------------------------------------------------------------
(* Callers *)

LEMMA RequestMade ==
    ASSUME TypeOK, NEW c \in Callers, NEW n \in Nat \ {0}
    PROVE  Request(c, n) \in RequestType
  <1>1. call[c].k.id \in Int
    <2>1. call[c].k \in Calls BY DEF TypeOK, CallType
    <2> QED BY <2>1, CallsAssumption DEF Unaddressable, FirstId
  <1>2. [store |-> "none", id |-> 0, enabled |-> FALSE, revision |-> 0] \in PlanType
    BY DEF PlanType, Stores
  <1>3. 1 \in 1..MaxAttempts BY BoundsAssumption
  <1>4. PICK plan \in PlanType : plan = [store |-> "none", id |-> 0, enabled |-> FALSE, revision |-> 0]
    BY <1>2
  <1>5. NoAnswer \in [status : Nat, error : Errors] BY DEF NoAnswer, Answer, Errors
  <1>6. Request(c, n) = [by |-> c, n |-> n, id |-> call[c].k.id, phase |-> "sent", seen |-> 0,
                         attempt |-> 1, plan |-> plan, answer |-> NoAnswer]
    BY <1>4 DEF Request
  <1> QED BY <1>1, <1>3, <1>5, <1>6 DEF RequestType

\* A caller that asks again, or is done, leaves the wire sound and its report
\* true, if no other answer is on its way to it.
LEMMA ConcludeKeeps ==
    ASSUME TypeOK, WireSound, OutcomeTrue, NEW c \in Callers, Waiting(c), call[c].n >= 1,
           NEW left \in SUBSET wire, NEW outcome \in Reports, Conclude(c, outcome, left), UNCHANGED table,
           \A q \in left : q.by = c => q.phase # "answered",
           ~Retryable(outcome) =>
              /\ outcome = "ok" /\ call[c].k.verb \notin {"get", "start"} => call[c].wrote > 0
              /\ outcome # "ok" /\ call[c].n <= 1 => call[c].wrote = 0 /\ \A q \in left : q.by # c
    PROVE  /\ WireSound' /\ OutcomeTrue' /\ wire' \subseteq RequestType
           /\ call' \in [Callers -> CallType]
  <1>1. /\ call \in [Callers -> CallType] /\ call[c].n \in Nat /\ call[c].wrote \in Nat
        /\ \A q \in wire : q.by \in Callers /\ q.n \in Nat \ {0} /\ q.seen \in Nat
        /\ version \in Nat
    BY DEF TypeOK, RequestType, CallType
  <1>2. \A q \in left : PlanSound(q)' BY PlansKept DEF WireSound
  <1>3. \A q \in left : q.by # c => call'[q.by] = call[q.by] BY <1>1 DEF Conclude
  <1>4. ASSUME NEW q \in left, q.by # c PROVE RequestSound(q)'
    <2>1. RequestSound(q) BY DEF WireSound
    <2> QED BY <1>3, <1>4, <2>1, Zenon DEF RequestSound, Live, Waiting, Told
  <1>5. \A q \in left : q.by = c => q.n <= call[c].n /\ (call[c].n = 1 => call[c].wrote = 0)
    BY DEF WireSound, RequestSound
  <1>6. CASE Retryable(outcome)
    <2>0. PICK s \in RequestType : s = Request(c, call[c].n + 1) BY <1>1, RequestMade
    <2>1. s.by = c /\ s.n = call[c].n + 1 /\ s.phase = "sent" /\ s.seen = 0
      BY <2>0 DEF Request
    <2>2. call' = [call EXCEPT ![c].n = @ + 1] /\ wire' = left \cup {s} BY <1>6, <2>0 DEF Conclude
    <2>3. /\ call' \in [Callers -> CallType]
          /\ call'[c].n = call[c].n + 1 /\ call'[c].phase = "waiting"
          /\ \A d \in Callers : d # c => call'[d] = call[d]
      BY <1>1, <2>2 DEF CallType, Waiting
    <2>4. PlanSound(s)' BY <1>1, <2>1 DEF PlanSound, table
    <2>5. RequestSound(s)' BY <1>1, <2>1, <2>3 DEF RequestSound
    <2>6. \A q \in left : q.by = c => RequestSound(q)'
      BY <1>1, <1>5, <2>3 DEF RequestSound
    <2>7. \A q, p \in wire' : q.by = p.by /\ q.n = p.n => q = p
      BY <1>1, <1>5, <2>1, <2>2 DEF WireSound
    <2>8. WireSound'
      BY <1>2, <1>4, <2>2, <2>3, <2>4, <2>5, <2>6, <2>7 DEF WireSound
    <2>9. OutcomeTrue'
      <3>1. \A d \in Callers \ {c} : (\A q \in wire : q.by # d) => \A q \in wire' : q.by # d
        BY <2>1, <2>2
      <3> QED BY <2>3, <3>1 DEF OutcomeTrue
    <2> QED BY <2>1, <2>2, <2>3, <2>8, <2>9 DEF TypeOK
  <1>7. CASE ~Retryable(outcome)
    <2>1. call' = [call EXCEPT ![c].phase = "done", ![c].outcome = outcome] /\ wire' = left
      BY <1>7 DEF Conclude
    <2>2. /\ call' \in [Callers -> CallType]
          /\ call'[c].k = call[c].k /\ call'[c].n = call[c].n /\ call'[c].wrote = call[c].wrote
          /\ call'[c].phase = "done" /\ call'[c].outcome = outcome
          /\ \A d \in Callers : d # c => call'[d] = call[d]
      BY <1>1, <2>1, ZenonT(40) DEF CallType
    <2>3. \A q \in left : q.by = c => RequestSound(q)'
      BY <1>1, <1>5, <2>2 DEF RequestSound
    <2>4. WireSound' BY <1>2, <1>4, <2>1, <2>2, <2>3 DEF WireSound
    <2>5. OutcomeTrue'
      <3>1. \A d \in Callers \ {c} : (\A q \in wire : q.by # d) => \A q \in wire' : q.by # d
        BY <2>1
      <3> QED BY <1>7, <2>1, <2>2, <3>1 DEF OutcomeTrue
    <2> QED BY <2>1, <2>2, <2>4, <2>5 DEF TypeOK
  <1> QED BY <1>6, <1>7

\* A program makes its call, and may find that its id addresses nothing.
LEMMA IssueKeeps ==
    ASSUME IInv, NEW c \in Callers, Issue(c)
    PROVE  IInv'
  <1>0. TypeOK /\ WireSound /\ OutcomeTrue /\ TableSound /\ JobsDistinct BY DEF IInv, NodeInv
  <1>1. PICK k \in Calls :
          IF AssertRouteId(k)
          THEN /\ call' = [call EXCEPT ![c].k = k, ![c].phase = "waiting", ![c].n = 1]
               /\ wire' = wire \cup {[Request(c, 1) EXCEPT !.id = k.id]}
          ELSE /\ call' = [call EXCEPT ![c].k = k, ![c].phase = "done",
                                       ![c].outcome = "invalid_id"]
               /\ wire' = wire
    BY DEF Issue
  <1>2. call[c].phase = "idle" /\ UNCHANGED <<routes, version, jobs, minted, faults>>
    BY DEF Issue, table
  <1>3. /\ call \in [Callers -> CallType] /\ call[c].n = 0 /\ call[c].wrote = 0
        /\ version \in Nat /\ \A q \in wire : q.by \in Callers /\ q.by # c
    BY <1>0, <1>2 DEF TypeOK, RequestType, WireSound, RequestSound
  <1>4. \A q \in wire : PlanSound(q)' BY <1>0, <1>2, PlansKept DEF WireSound, table
  <1>5. \A d \in Callers : d # c => call'[d] = call[d] BY <1>1, <1>3
  <1>6. ASSUME NEW q \in wire PROVE RequestSound(q)'
    <2>1. RequestSound(q) /\ call'[q.by] = call[q.by] BY <1>0, <1>3, <1>5 DEF WireSound
    <2> QED BY <2>1, Zenon DEF RequestSound, Live, Waiting, Told
  <1>7. TableSound' /\ JobsDistinct' BY <1>0, <1>2 DEF TableSound, JobsDistinct, Active
  <1>8. CASE AssertRouteId(k)
    <2>0. PICK s : s = [Request(c, 1) EXCEPT !.id = k.id] BY ZenonT(40)
    <2>1. s \in RequestType /\ s.by = c /\ s.n = 1 /\ s.phase = "sent" /\ s.seen = 0
      <3>1. Request(c, 1) \in RequestType BY <1>0, RequestMade
      <3>2. k.id \in Int BY CallsAssumption DEF Unaddressable, FirstId
      <3>3. s \in RequestType BY <2>0, <3>1, <3>2 DEF RequestType
      <3> QED BY <2>0, <3>3 DEF Request
    <2>2. call' = [call EXCEPT ![c].k = k, ![c].phase = "waiting", ![c].n = 1] /\ wire' = wire \cup {s}
      BY <1>1, <1>8, <2>0
    <2>3. /\ call' \in [Callers -> CallType]
          /\ call'[c].n = 1 /\ call'[c].phase = "waiting" /\ call'[c].wrote = 0
      BY <1>3, <2>2 DEF CallType
    <2>4. PlanSound(s)' /\ RequestSound(s)' BY <1>2, <1>3, <2>1, <2>3 DEF PlanSound, RequestSound
    <2>5. \A q, p \in wire' : q.by = p.by /\ q.n = p.n => q = p
      BY <1>0, <1>3, <2>1, <2>2 DEF WireSound
    <2>6. WireSound' BY <1>0, <1>4, <1>5, <1>6, <2>2, <2>3, <2>4, <2>5 DEF WireSound
    <2>7. OutcomeTrue'
      <3>1. \A d \in Callers \ {c} : (\A q \in wire : q.by # d) => \A q \in wire' : q.by # d
        BY <2>1, <2>2
      <3> QED BY <1>0, <1>5, <2>3, <3>1 DEF OutcomeTrue
    <2>8. TypeOK' BY <1>0, <1>2, <2>1, <2>2, <2>3 DEF TypeOK
    <2> QED BY <1>7, <2>6, <2>7, <2>8 DEF IInv, NodeInv
  <1>9. CASE ~AssertRouteId(k)
    <2>1. /\ call' = [call EXCEPT ![c].k = k, ![c].phase = "done", ![c].outcome = "invalid_id"]
          /\ wire' = wire
      BY <1>1, <1>9
    <2>2. /\ call' \in [Callers -> CallType]
          /\ call'[c].phase = "done" /\ call'[c].outcome = "invalid_id" /\ call'[c].wrote = 0
      <3>1. PICK outcome \in Reports : outcome = "invalid_id" BY DEF Reports
      <3>2. call' = [call EXCEPT ![c].k = k, ![c].phase = "done", ![c].outcome = outcome]
        BY <2>1, <3>1
      <3>3. /\ call' \in [Callers -> CallType]
            /\ call'[c].phase = "done" /\ call'[c].outcome = outcome /\ call'[c].wrote = 0
        BY <1>3, <3>2, ZenonT(40) DEF CallType
      <3> QED BY <3>1, <3>3
    <2>3. WireSound' BY <1>0, <1>4, <1>5, <1>6, <2>1, <2>2 DEF WireSound
    <2>4. OutcomeTrue' BY <1>0, <1>3, <1>5, <2>1, <2>2 DEF OutcomeTrue
    <2>5. TypeOK' BY <1>0, <1>2, <2>1, <2>2 DEF TypeOK
    <2> QED BY <1>7, <2>3, <2>4, <2>5 DEF IInv, NodeInv
  <1> QED BY <1>8, <1>9

\* No other answer is on its way to the caller of a live answer.
LEMMA OneAnswer ==
    ASSUME TypeOK, WireSound, NEW r \in wire, Live(r)
    PROVE  /\ r.by \in Callers /\ Waiting(r.by) /\ call[r.by].n >= 1
           /\ \A q \in wire : q.by = r.by /\ q.phase = "answered" => q = r
           /\ call[r.by].n <= 1 => \A q \in wire : q.by = r.by => q = r
  <1>1. \A q \in wire : q.by \in Callers /\ q.n \in Nat \ {0} /\ q.n <= call[q.by].n
    BY DEF TypeOK, RequestType, WireSound, RequestSound
  <1>2. r.n = call[r.by].n /\ Waiting(r.by) BY DEF Live
  <1>3. \A q \in wire : q.phase = "answered" => q.n = call[q.by].n
    BY DEF WireSound, RequestSound, Live
  <1> QED BY <1>1, <1>2, <1>3 DEF WireSound

LEMMA ReceiveKeeps ==
    ASSUME IInv, NEW r \in wire, Receive(r)
    PROVE  IInv'
  <1>0. TypeOK /\ WireSound /\ OutcomeTrue /\ TableSound /\ JobsDistinct BY DEF IInv, NodeInv
  <1>1. /\ Live(r) /\ r.phase = "answered" /\ UNCHANGED <<routes, version, jobs, minted, faults>>
        /\ Conclude(r.by, Outcome(call[r.by].k, r.answer), wire \ {r})
    BY DEF Receive, table
  <1>2. /\ r.by \in Callers /\ Waiting(r.by) /\ call[r.by].n >= 1 /\ call[r.by].n \in Nat
        /\ \A q \in wire \ {r} : q.by = r.by => q.phase # "answered"
        /\ call[r.by].n <= 1 => \A q \in wire \ {r} : q.by # r.by
    BY <1>0, <1>1, OneAnswer DEF TypeOK, CallType
  <1>3. Outcome(call[r.by].k, r.answer) \in Reports
    BY DEF Outcome, RoutesOutcome, AdminOutcome, Reports
  <1>4. Told(r) BY <1>0, <1>1 DEF WireSound, RequestSound
  <1>5. PICK outcome \in Reports : outcome = Outcome(call[r.by].k, r.answer) BY <1>3
  <1>6. /\ outcome = "ok" /\ call[r.by].k.verb \notin {"get", "start"} => call[r.by].wrote > 0
        /\ outcome # "ok" /\ call[r.by].n <= 1 =>
              call[r.by].wrote = 0 /\ \A q \in wire \ {r} : q.by # r.by
    BY <1>2, <1>4, <1>5 DEF Told
  <1>7. Conclude(r.by, outcome, wire \ {r}) BY <1>1, <1>5
  <1>8. WireSound' /\ OutcomeTrue' /\ wire' \subseteq RequestType /\ call' \in [Callers -> CallType]
    BY <1>0, <1>1, <1>2, <1>6, <1>7, ConcludeKeeps DEF table
  <1>9. TypeOK' /\ TableSound' /\ JobsDistinct'
    BY <1>0, <1>1, <1>8 DEF TypeOK, TableSound, JobsDistinct, Active
  <1> QED BY <1>8, <1>9 DEF IInv, NodeInv

LEMMA UnreachableKeeps ==
    ASSUME IInv, NEW r \in wire, Unreachable(r)
    PROVE  IInv'
  <1>0. TypeOK /\ WireSound /\ OutcomeTrue /\ TableSound /\ JobsDistinct BY DEF IInv, NodeInv
  <1>1. /\ Live(r) /\ UNCHANGED <<routes, version, jobs, minted>>
        /\ faults < MaxFaults /\ faults' = faults + 1
    BY DEF Unreachable, table, Fault
  <1>2. PICK left \in {wire, wire \ {r}} :
          (r.phase = "answered" => left = wire \ {r}) /\ Conclude(r.by, "unavailable", left)
    BY DEF Unreachable
  <1>3. /\ r.by \in Callers /\ Waiting(r.by) /\ call[r.by].n >= 1
        /\ \A q \in left : q.by = r.by => q.phase # "answered"
    BY <1>0, <1>1, <1>2, OneAnswer
  <1>4. "unavailable" \in Reports /\ Retryable("unavailable") BY DEF Reports, Retryable
  <1>5. left \in SUBSET wire BY <1>2
  <1>6. WireSound' /\ OutcomeTrue' /\ wire' \subseteq RequestType /\ call' \in [Callers -> CallType]
    BY <1>0, <1>1, <1>2, <1>3, <1>4, <1>5, ConcludeKeeps, ZenonT(40) DEF table
  <1>7. TypeOK' /\ TableSound' /\ JobsDistinct'
    BY <1>0, <1>1, <1>6, BoundsAssumption DEF TypeOK, TableSound, JobsDistinct, Active
  <1> QED BY <1>6, <1>7 DEF IInv, NodeInv

-----------------------------------------------------------------------------
(* Route management *)

\* A change that is not refused is planned for the table it was validated
\* against.
LEMMA PlannedSound ==
    ASSUME TypeOK, NEW verb \in RouteVerbs \ {"get"}, NEW id \in Int, NEW enabled \in BOOLEAN,
           Refusal(verb, id, enabled) = 0, NEW plan, plan = Planned(verb, id, enabled)
    PROVE  /\ plan \in PlanType /\ plan.store # "none"
           /\ plan.store \in {"insert", "replace"} =>
                ~Conflict(id, enabled) /\ plan.id = id /\ plan.enabled = enabled
           /\ plan.store = "insert" => id \notin DOMAIN routes /\ plan.revision = 1
           /\ plan.store = "replace" => id \in DOMAIN routes /\ plan.revision = routes[id].revision + 1
  <1>1. CASE verb \in {"delete", "ip_rules"}
    <2>1. Planned(verb, id, enabled) = Plan(verb, id, FALSE, 0) BY <1>1, ZenonT(40) DEF Planned
    <2>2. Plan(verb, id, FALSE, 0) \in PlanType /\ Plan(verb, id, FALSE, 0).store = verb
      BY <1>1 DEF Plan, PlanType, Stores
    <2> QED BY <1>1, <2>1, <2>2
  <1>2. CASE verb \in {"create", "replace", "update"}
    <2>1. ~Conflict(id, enabled) BY <1>2 DEF Refusal
    <2>2. CASE id \in DOMAIN routes
      <3>1. Planned(verb, id, enabled) = Plan("replace", id, enabled, routes[id].revision + 1)
        BY <1>2, <2>2 DEF Planned
      <3>2. routes[id].revision + 1 \in Nat BY <2>2 DEF TypeOK, Definition
      <3>3. PICK n \in Nat : n = routes[id].revision + 1 BY <3>2
      <3>4. /\ Plan("replace", id, enabled, n) \in PlanType
            /\ Plan("replace", id, enabled, n).store = "replace"
            /\ Plan("replace", id, enabled, n).id = id
            /\ Plan("replace", id, enabled, n).enabled = enabled
            /\ Plan("replace", id, enabled, n).revision = n
        BY DEF Plan, PlanType, Stores
      <3> QED BY <2>1, <2>2, <3>1, <3>3, <3>4
    <2>3. CASE id \notin DOMAIN routes
      <3>1. Planned(verb, id, enabled) = Plan("insert", id, enabled, 1) BY <1>2, <2>3, ZenonT(40) DEF Planned
      <3>2. /\ Plan("insert", id, enabled, 1) \in PlanType
            /\ Plan("insert", id, enabled, 1).store = "insert"
            /\ Plan("insert", id, enabled, 1).id = id
            /\ Plan("insert", id, enabled, 1).enabled = enabled
            /\ Plan("insert", id, enabled, 1).revision = 1
        BY DEF Plan, PlanType, Stores
      <3> QED BY <2>1, <2>3, <3>1, <3>2
    <2> QED BY <2>2, <2>3
  <1> QED BY <1>1, <1>2 DEF RouteVerbs

\* The caller of a request and its call.
LEMMA CallOf ==
    ASSUME TypeOK, NEW r \in wire
    PROVE  /\ r \in RequestType /\ r.by \in Callers /\ call[r.by].k \in Calls
           /\ call[r.by].k.id \in Int /\ call[r.by].k.enabled \in BOOLEAN
           /\ call[r.by].k.verb \in RouteVerbs \cup ReplayVerbs
  <1>1. r \in RequestType /\ r.by \in Callers BY DEF TypeOK, RequestType
  <1>2. call[r.by].k \in Calls BY <1>1 DEF TypeOK, CallType
  <1>3. call[r.by].k.id \in Int BY <1>2, CallsAssumption DEF Unaddressable, FirstId
  <1> QED BY <1>1, <1>2, <1>3, CallsAssumption

\* The handlers leave the rest alone.
LEMMA NodeKept ==
    ASSUME IInv, UNCHANGED <<table, jobs, faults, call>>, minted' \in Nat,
           WireSound', OutcomeTrue', wire' \subseteq RequestType
    PROVE  IInv'
  <1>1. TypeOK' BY DEF IInv, NodeInv, TypeOK, table
  <1>2. TableSound' /\ JobsDistinct' BY DEF IInv, NodeInv, TableSound, JobsDistinct, Active, table
  <1> QED BY <1>1, <1>2 DEF IInv, NodeInv

LEMMA ValidateKeeps ==
    ASSUME IInv, NEW r \in wire, Validate(r)
    PROVE  IInv'
  <1> DEFINE k == call[r.by].k
  <1>0. TypeOK /\ WireSound /\ OutcomeTrue BY DEF IInv, NodeInv
  <1>1. PICK id : id = IF r.id = Unnamed /\ k.verb = "create" THEN FirstId + minted ELSE r.id
    OBVIOUS
  <1>2. /\ r.phase = "sent" /\ k.verb \in RouteVerbs
        /\ minted' = IF id # r.id THEN minted + 1 ELSE minted
        /\ UNCHANGED <<table, jobs, call, faults>>
        /\ \/ /\ Refusal(k.verb, id, k.enabled) # 0
              /\ Reply(r, Refusal(k.verb, id, k.enabled), "refused")
           \/ k.verb = "get" /\ Reply(r, 200, "none")
           \/ /\ Refusal(k.verb, id, k.enabled) = 0 /\ k.verb # "get"
              /\ Move(r, [r EXCEPT !.phase = "planned", !.id = id, !.seen = version,
                                   !.plan = Planned(k.verb, id, k.enabled)])
    BY <1>1, Zenon DEF Validate
  <1>3. /\ r \in RequestType /\ k.enabled \in BOOLEAN /\ minted \in Nat /\ version \in Nat
        /\ r.id \in Int
    BY <1>0, CallOf DEF TypeOK, RequestType
  <1>4. id \in Int /\ minted' \in Nat BY <1>1, <1>2, <1>3 DEF FirstId
  <1>5. WireSound' /\ OutcomeTrue' /\ wire' \subseteq RequestType
    <2>1. ASSUME Refusal(k.verb, id, k.enabled) # 0, Reply(r, Refusal(k.verb, id, k.enabled), "refused")
          PROVE  WireSound' /\ OutcomeTrue' /\ wire' \subseteq RequestType
      <3>0. Refusal(k.verb, id, k.enabled) \in 400..499 BY <2>1 DEF Refusal
      <3>1. PICK status \in 400..499 : status = Refusal(k.verb, id, k.enabled) BY <3>0, ZenonT(40)
      <3>2. Reply(r, status, "refused") BY <2>1, <3>1, ZenonT(40)
      <3>3. status \in Nat /\ status \notin 200..299 OBVIOUS
      <3>4. "refused" \in Errors /\ call' = call /\ r.phase # "answered" BY <1>2 DEF Errors
      <3> QED BY <1>0, <1>2, <3>2, <3>3, <3>4, ReplyKeeps
    <2>2. ASSUME k.verb = "get", Reply(r, 200, "none")
          PROVE  WireSound' /\ OutcomeTrue' /\ wire' \subseteq RequestType
      BY <1>0, <1>2, <2>2, ReplyKeeps DEF Errors
    <2>3. ASSUME Refusal(k.verb, id, k.enabled) = 0, k.verb # "get",
                 Move(r, [r EXCEPT !.phase = "planned", !.id = id, !.seen = version,
                                   !.plan = Planned(k.verb, id, k.enabled)])
          PROVE  WireSound' /\ OutcomeTrue' /\ wire' \subseteq RequestType
      <3>0. PICK plan : plan = Planned(k.verb, id, k.enabled) BY Zenon
      <3>1. /\ plan \in PlanType /\ plan.store # "none"
            /\ plan.store \in {"insert", "replace"} =>
                 ~Conflict(id, k.enabled) /\ plan.id = id /\ plan.enabled = k.enabled
            /\ plan.store = "insert" => id \notin DOMAIN routes /\ plan.revision = 1
            /\ plan.store = "replace" => id \in DOMAIN routes /\ plan.revision = routes[id].revision + 1
        <4>1. PICK verb \in RouteVerbs \ {"get"}, enabled \in BOOLEAN :
                verb = k.verb /\ enabled = k.enabled
          BY <1>2, <1>3, <2>3
        <4>2. Refusal(verb, id, enabled) = 0 /\ plan = Planned(verb, id, enabled)
          BY <2>3, <3>0, <4>1, Zenon
        <4>3. /\ plan \in PlanType /\ plan.store # "none"
              /\ plan.store \in {"insert", "replace"} =>
                   ~Conflict(id, enabled) /\ plan.id = id /\ plan.enabled = enabled
              /\ plan.store = "insert" => id \notin DOMAIN routes /\ plan.revision = 1
              /\ plan.store = "replace" => id \in DOMAIN routes /\ plan.revision = routes[id].revision + 1
          BY <1>0, <1>4, <4>2, PlannedSound
        <4> QED BY <4>1, <4>3, Zenon
      <3>2. PICK s : s = [r EXCEPT !.phase = "planned", !.id = id, !.seen = version, !.plan = plan]
        OBVIOUS
      <3>3. /\ s \in RequestType /\ s.by = r.by /\ s.n = r.n /\ s.phase = "planned"
            /\ s.seen = version /\ s.plan = plan
        BY <1>3, <1>4, <3>1, <3>2, ZenonT(40) DEF RequestType
      <3>4. PlanSound(s)
        <4>1. s.seen <= version BY <1>3, <3>3
        <4> QED BY <3>1, <3>3, <4>1, Zenon DEF PlanSound
      <3>5. PlanSound(s)' BY <1>2, <3>4, Zenon DEF PlanSound, Conflict, table
      <3>6. Move(r, s) BY <2>3, <3>0, <3>2
      <3> QED BY <1>0, <1>2, <3>3, <3>5, <3>6, MoveKeeps
    <2> QED BY <1>2, <2>1, <2>2, <2>3
  <1> QED BY <1>2, <1>4, <1>5, NodeKept

\* A write that the store makes was planned for the table it finds: it leaves
\* the table sound, and a definition that stays counts one revision on.
LEMMA WrittenSound ==
    ASSUME TypeOK, TableSound, NEW r \in wire, PlanSound(r), r.phase = "planned",
           ~Stale(r), StoreRefusal(r.plan) = 0, routes' = Written(r.plan)
    PROVE  /\ TableSound'
           /\ routes' \in [DOMAIN routes' -> Definition] /\ IsFiniteSet(DOMAIN routes')
           /\ \A i \in DOMAIN routes \cap DOMAIN routes' :
                routes'[i] # routes[i] => routes'[i].revision = routes[i].revision + 1
  <1>0. r.plan \in PlanType BY DEF TypeOK, RequestType
  <1>1. PICK p \in PlanType : p = r.plan BY <1>0
  <1>2. p.store \in Stores \ {"none"} /\ p.revision \in Nat /\ p.enabled \in BOOLEAN
    BY <1>1 DEF PlanType, PlanSound
  <1>3. CASE p.store = "delete"
    <2>1. routes' = Restrict(routes, DOMAIN routes \ {p.id}) BY <1>1, <1>3 DEF Written
    <2> QED BY <2>1, TableWithout, ZenonT(40)
  <1>4. CASE p.store = "ip_rules"
    <2>1. routes' = routes BY <1>1, <1>4 DEF Written
    <2> QED BY <2>1 DEF TypeOK, TableSound
  <1>5. CASE p.store \in {"insert", "replace"}
    <2>1. /\ ~Conflict(p.id, p.enabled)
          /\ p.store = "insert" => p.id \notin DOMAIN routes /\ p.revision = 1
          /\ p.store = "replace" => p.id \in DOMAIN routes /\ p.revision = routes[p.id].revision + 1
      BY <1>1, <1>5 DEF Stale, PlanSound
    <2>2. PICK d : d = [enabled |-> p.enabled, revision |-> p.revision] BY Zenon
    <2>3. routes' = With(routes, p.id, d) BY <1>1, <1>5, <2>2 DEF Written
    <2>4. p.revision # 0 BY <1>2, <1>5, <2>1 DEF TypeOK, Definition
    <2>5. d \in Definition /\ d.enabled = p.enabled /\ d.revision = p.revision
      BY <1>2, <2>2, <2>4 DEF Definition
    <2>6. p.id \in DOMAIN routes \/ Cardinality(DOMAIN routes) < MaxRoutes
      <3>1. CASE p.store = "insert"
        <4>1. ~(Cardinality(DOMAIN routes) >= MaxRoutes) BY <1>1, <3>1 DEF StoreRefusal
        <4>2. Cardinality(DOMAIN routes) \in Nat BY FS_CardinalityType DEF TypeOK
        <4> QED BY <4>1, <4>2, BoundsAssumption
      <3> QED BY <1>5, <2>1, <3>1
    <2>7. /\ TableSound'
          /\ routes' \in [DOMAIN routes' -> Definition] /\ IsFiniteSet(DOMAIN routes')
      BY <2>1, <2>3, <2>5, <2>6, TableWith
    <2>8. routes'[p.id] = d /\ \A i \in DOMAIN routes \ {p.id} : routes'[i] = routes[i]
      BY <2>3 DEF With
    <2>9. p.id \in DOMAIN routes => d.revision = routes[p.id].revision + 1 BY <1>5, <2>1, <2>5
    <2> QED BY <2>7, <2>8, <2>9
  <1> QED BY <1>2, <1>3, <1>4, <1>5 DEF Stores

\* The status of a write that was made is a 2xx.
LEMMA SuccessOk ==
    ASSUME NEW verb
    PROVE  Success(verb) \in 200..299
  <1>1. CASE verb = "create"
    <2>1. Success(verb) = 201 BY <1>1, Zenon DEF Success
    <2> QED BY <2>1
  <1>2. CASE verb = "delete"
    <2>1. Success(verb) = 204 BY <1>2, Zenon DEF Success
    <2> QED BY <2>1
  <1>3. CASE verb # "create" /\ verb # "delete"
    <2>1. Success(verb) = 200 BY <1>3, Zenon DEF Success
    <2> QED BY <2>1
  <1> QED BY <1>1, <1>2, <1>3

LEMMA ApplyKeeps ==
    ASSUME IInv, NEW r \in wire, Apply(r)
    PROVE  IInv'
  <1>0. TypeOK /\ WireSound /\ OutcomeTrue /\ TableSound /\ JobsDistinct /\ PlanSound(r)
    BY DEF IInv, NodeInv, WireSound
  <1>1. r \in RequestType /\ r.attempt \in 1..MaxAttempts /\ version \in Nat /\ minted \in Nat
    BY <1>0 DEF TypeOK, RequestType
  <1>2. r.phase = "planned" /\ UNCHANGED <<jobs, minted, faults>> BY DEF Apply
  <1>3. CASE /\ Stale(r) /\ ~Exhausted(r)
             /\ Move(r, [r EXCEPT !.phase = "sent", !.attempt = @ + 1])
             /\ UNCHANGED <<table, call>>
    <2>1. PICK s : s = [r EXCEPT !.phase = "sent", !.attempt = @ + 1] OBVIOUS
    <2>2. r.attempt + 1 \in 1..MaxAttempts BY <1>1, <1>3, BoundsAssumption DEF Exhausted
    <2>3. /\ s \in RequestType /\ s.by = r.by /\ s.n = r.n /\ s.phase = "sent" /\ s.seen = r.seen
      BY <1>1, <2>1, <2>2 DEF RequestType
    <2>4. PlanSound(s)' BY <1>0, <1>3, <2>3 DEF PlanSound, table
    <2>5. WireSound' /\ OutcomeTrue' /\ wire' \subseteq RequestType
      BY <1>0, <1>2, <1>3, <2>1, <2>3, <2>4, MoveKeeps, ZenonT(40)
    <2> QED BY <1>1, <1>2, <1>3, <2>5, NodeKept
  <1>4. ASSUME NEW status \in 400..599, NEW error \in Errors, Reply(r, status, error),
               UNCHANGED <<table, call>>
        PROVE  IInv'
    <2>1. status \in Nat /\ status \notin 200..299 OBVIOUS
    <2>2. WireSound' /\ OutcomeTrue' /\ wire' \subseteq RequestType
      BY <1>0, <1>2, <1>4, <2>1, ReplyKeeps
    <2> QED BY <1>1, <1>2, <1>4, <2>2, NodeKept
  <1>5. CASE /\ Stale(r) /\ Exhausted(r)
             /\ Reply(r, 503, "store_unavailable")
             /\ UNCHANGED <<table, call>>
    <2>1. "store_unavailable" \in Errors BY DEF Errors
    <2>2. 503 \in 400..599 OBVIOUS
    <2> QED BY <1>4, <1>5, <2>1, <2>2
  <1>6. CASE /\ ~Stale(r) /\ StoreRefusal(r.plan) # 0
             /\ Reply(r, StoreRefusal(r.plan), "refused")
             /\ UNCHANGED <<table, call>>
    <2>1. "refused" \in Errors BY DEF Errors
    <2>2. StoreRefusal(r.plan) \in 400..599 BY <1>6 DEF StoreRefusal
    <2>3. PICK status \in 400..599 : status = StoreRefusal(r.plan) BY <2>2
    <2> QED BY <1>4, <1>6, <2>1, <2>3
  <1>7. CASE /\ ~Stale(r) /\ StoreRefusal(r.plan) = 0
             /\ routes' = Written(r.plan)
             /\ version' = version + 1
             /\ Reply(r, Success(call[r.by].k.verb), "none")
             /\ Count(r.by, IF r.plan.store = "insert" THEN 1 ELSE 0)
    <2>1. /\ TableSound'
          /\ routes' \in [DOMAIN routes' -> Definition] /\ IsFiniteSet(DOMAIN routes')
      BY <1>0, <1>2, <1>7, WrittenSound
    <2>2. Success(call[r.by].k.verb) \in 200..299 BY SuccessOk
    <2>3. PICK status \in 200..299 : status = Success(call[r.by].k.verb) BY <2>2
    <2>4. Reply(r, status, "none") BY <1>7, <2>3, Zenon
    <2>5. status \in Nat OBVIOUS
    <2>6. "none" \in Errors BY DEF Errors
    <2>7. PICK made \in {0, 1} : Count(r.by, made) BY <1>7
    <2>8. WireSound' /\ OutcomeTrue' /\ wire' \subseteq RequestType
      BY <1>0, <1>2, <1>7, <2>4, <2>6, <2>7, <2>5, ReplyKeeps
    <2>9. call' \in [Callers -> CallType] BY <1>0, <2>7, CountFacts DEF Counts
    <2>10. JobsDistinct' BY <1>0, <1>2 DEF JobsDistinct, Active
    <2>11. TypeOK' BY <1>0, <1>1, <1>2, <1>7, <2>1, <2>8, <2>9 DEF TypeOK
    <2> QED BY <2>1, <2>8, <2>10, <2>11 DEF IInv, NodeInv
  <1> QED BY <1>3, <1>5, <1>6, <1>7, Zenon DEF Apply

-----------------------------------------------------------------------------
(* Replay jobs *)

\* A job that is finished, that was active with the same kind, or that is the
\* only one of its kind below the cap, leaves the jobs distinct.
LEMMA JobsWith ==
    ASSUME TypeOK, JobsDistinct, NEW j, NEW v \in Job, jobs' = With(jobs, j, v),
           \/ j \in Active /\ jobs[j].kind = v.kind
           \/ SameJob(v.kind) = {} /\ ~Full
    PROVE  /\ JobsDistinct'
           /\ jobs' \in [DOMAIN jobs' -> Job] /\ IsFiniteSet(DOMAIN jobs')
  <1>1. /\ jobs' \in [DOMAIN jobs' -> Job] /\ DOMAIN jobs' = DOMAIN jobs \cup {j}
        /\ jobs'[j] = v /\ \A i \in DOMAIN jobs \ {j} : jobs'[i] = jobs[i]
    <2>1. jobs \in [DOMAIN jobs -> Job] BY DEF TypeOK
    <2> QED BY <2>1 DEF With
  <1>2. IsFiniteSet(DOMAIN jobs') BY <1>1, OneMore, ZenonT(40) DEF TypeOK
  <1>3. /\ Active' \subseteq Active \cup {j} /\ \A i \in Active' \ {j} : i \in Active /\ jobs'[i] = jobs[i]
        /\ Active \subseteq DOMAIN jobs
    BY <1>1, Zenon DEF Active
  <1>4. IsFiniteSet(Active) /\ Cardinality(Active) \in Nat BY <1>3, NoMore DEF TypeOK
  <1>5. CASE j \in Active /\ jobs[j].kind = v.kind
    <2>1. Active' \subseteq Active BY <1>3, <1>5
    <2>2. Cardinality(Active') <= Cardinality(Active) /\ Cardinality(Active') \in Nat BY <1>4, <2>1, NoMore
    <2>3. Cardinality(Active') <= MaxActive BY <1>4, <2>2, BoundsAssumption DEF JobsDistinct
    <2>4. \A i \in Active' : i \in Active /\ jobs'[i].kind = jobs[i].kind BY <1>1, <1>3, <1>5, <2>1
    <2>5. \A i, l \in Active' : jobs'[i].kind = jobs'[l].kind => i = l BY <2>4 DEF JobsDistinct
    <2> QED BY <1>1, <1>2, <2>3, <2>5 DEF JobsDistinct
  <1>6. CASE SameJob(v.kind) = {} /\ ~Full
    <2>1. Cardinality(Active') <= Cardinality(Active) + 1 /\ Cardinality(Active') \in Nat
      BY <1>3, <1>4, OneMore
    <2>2. Cardinality(Active') <= MaxActive BY <1>4, <1>6, <2>1, BoundsAssumption DEF Full
    <2>3. \A i \in Active : jobs[i].kind # v.kind BY <1>6 DEF SameJob
    <2>4. \A i, l \in Active' : jobs'[i].kind = jobs'[l].kind => i = l
      BY <1>1, <1>3, <2>3 DEF JobsDistinct
    <2> QED BY <1>1, <1>2, <2>2, <2>4 DEF JobsDistinct
  <1> QED BY <1>5, <1>6

\* An answer that reports no change, or the start of a job that is there.
LEMMA AnswerKeeps ==
    ASSUME IInv, NEW r \in wire, r.phase # "answered", NEW status \in Nat, NEW error \in Errors,
           Reply(r, status, error), status \in 200..299 => call[r.by].k.verb = "start",
           UNCHANGED <<table, jobs, minted, call, faults>>
    PROVE  IInv'
  <1>0. TypeOK /\ WireSound /\ OutcomeTrue /\ minted \in Nat BY DEF IInv, NodeInv, TypeOK
  <1>1. WireSound' /\ OutcomeTrue' /\ wire' \subseteq RequestType BY <1>0, ReplyKeeps
  <1> QED BY <1>0, <1>1, NodeKept

\* A change to the jobs that is answered and counted.
LEMMA JobChangeKeeps ==
    ASSUME IInv, NEW r \in wire, r.phase # "answered", NEW status \in 200..299, Reply(r, status, "none"),
           NEW made \in {0, 1}, Count(r.by, made), UNCHANGED <<table, faults>>, minted' \in Nat,
           JobsDistinct', jobs' \in [DOMAIN jobs' -> Job], IsFiniteSet(DOMAIN jobs')
    PROVE  IInv'
  <1>0. TypeOK /\ WireSound /\ OutcomeTrue /\ TableSound BY DEF IInv, NodeInv
  <1>1. status \in Nat /\ "none" \in Errors BY DEF Errors
  <1>2. WireSound' /\ OutcomeTrue' /\ wire' \subseteq RequestType BY <1>0, <1>1, ReplyKeeps
  <1>3. call' \in [Callers -> CallType] BY <1>0, CountFacts DEF Counts
  <1>4. TableSound' BY <1>0 DEF TableSound, table
  <1>5. TypeOK' BY <1>0, <1>2, <1>3 DEF TypeOK, table
  <1> QED BY <1>2, <1>4, <1>5 DEF IInv, NodeInv

LEMMA StartReplayKeeps ==
    ASSUME IInv, NEW r \in wire, StartReplay(r)
    PROVE  IInv'
  <1> DEFINE k == call[r.by].k
             named == k.id \in DOMAIN jobs
  <1>0. TypeOK /\ JobsDistinct /\ minted \in Nat BY DEF IInv, NodeInv, TypeOK
  <1>1. PICK j : j = IF k.id = Unnamed THEN FirstId + minted ELSE k.id OBVIOUS
  <1>2. r.phase = "sent" /\ k.verb = "start" /\ UNCHANGED <<table, faults>> BY DEF StartReplay
  <1>3. "invalid_filter" \in Errors /\ "none" \in Errors /\ "too_many_replays" \in Errors
        /\ "role_not_enabled" \in Errors
    BY DEF Errors
  <1>4. ASSUME NEW status \in Nat, NEW error \in Errors, Reply(r, status, error),
               UNCHANGED <<jobs, minted, call>>
        PROVE  IInv'
    BY <1>2, <1>4, AnswerKeeps
  <1>5. CASE /\ UNCHANGED <<jobs, minted, call>>
             /\ \/ Reply(r, 400, "invalid_filter") \/ Reply(r, 200, "none")
                \/ Reply(r, 409, "too_many_replays") \/ Reply(r, 409, "role_not_enabled")
    <2>1. 400 \in Nat /\ 200 \in Nat /\ 409 \in Nat OBVIOUS
    <2> QED BY <1>3, <1>4, <1>5, <2>1
  <1>6. CASE /\ SameJob(k.kind) = {} /\ ~Full
             /\ k.kind \in Served
             /\ Put(j, k.kind, "running")
             /\ minted' = IF j # k.id THEN minted + 1 ELSE minted
             /\ Reply(r, 202, "none")
             /\ Count(r.by, 1)
    <2>1. PICK v : v = [kind |-> k.kind, state |-> "running"] BY ZenonT(40)
    <2>2. v \in Job /\ v.kind = k.kind BY <1>6, <2>1 DEF Job
    <2>3. jobs' = With(jobs, j, v) BY <1>6, <2>1 DEF Put
    <2>4. /\ JobsDistinct' /\ jobs' \in [DOMAIN jobs' -> Job] /\ IsFiniteSet(DOMAIN jobs')
      BY <1>0, <1>6, <2>2, <2>3, JobsWith
    <2>5. minted' \in Nat BY <1>0, <1>6
    <2>6. 202 \in 200..299 /\ 1 \in {0, 1} OBVIOUS
    <2> QED BY <1>2, <1>6, <2>4, <2>5, <2>6, JobChangeKeeps, ZenonT(40)
  <1> QED BY <1>1, <1>5, <1>6, ZenonT(40) DEF StartReplay

LEMMA UpdateReplayKeeps ==
    ASSUME IInv, NEW r \in wire, UpdateReplay(r)
    PROVE  IInv'
  <1> DEFINE k == call[r.by].k
  <1>0. TypeOK /\ JobsDistinct /\ minted \in Nat BY DEF IInv, NodeInv, TypeOK
  <1>1. r.phase = "sent" /\ k.verb \in DOMAIN Patches /\ UNCHANGED <<table, minted, faults>>
    BY DEF UpdateReplay
  <1>2. k.verb # "start" BY <1>1 DEF Patches
  <1>3. CASE Reply(r, 404, "replay_not_found") /\ UNCHANGED <<jobs, call>>
    <2>1. "replay_not_found" \in Errors BY DEF Errors
    <2>2. 404 \in Nat /\ 404 \notin 200..299 OBVIOUS
    <2> QED BY <1>1, <1>3, <2>1, <2>2, AnswerKeeps
  <1>4. CASE Reply(r, 409, "replay_finished") /\ UNCHANGED <<jobs, call>>
    <2>1. "replay_finished" \in Errors BY DEF Errors
    <2>2. 409 \in Nat /\ 409 \notin 200..299 OBVIOUS
    <2> QED BY <1>1, <1>4, <2>1, <2>2, AnswerKeeps
  <1>5. CASE /\ k.id \in Active
             /\ Put(k.id, jobs[k.id].kind, Patches[k.verb])
             /\ Reply(r, 200, "none")
             /\ Count(r.by, 0)
    <2>1. PICK v : v = [kind |-> jobs[k.id].kind, state |-> Patches[k.verb]] BY Zenon
    <2>2. Patches[k.verb] \in {"running", "paused"} \cup Finished BY <1>1 DEF Patches, Finished
    <2>3. jobs[k.id].kind \in Served BY <1>0, <1>5, ZenonT(40) DEF TypeOK, Active, Job
    <2>4. v \in Job /\ v.kind = jobs[k.id].kind BY <2>1, <2>2, <2>3 DEF Job
    <2>5. jobs' = With(jobs, k.id, v) BY <1>5, <2>1 DEF Put
    <2>6. /\ JobsDistinct' /\ jobs' \in [DOMAIN jobs' -> Job] /\ IsFiniteSet(DOMAIN jobs')
      BY <1>0, <1>5, <2>4, <2>5, JobsWith, ZenonT(40)
    <2>7. 200 \in 200..299 /\ 0 \in {0, 1} OBVIOUS
    <2> QED BY <1>0, <1>1, <1>5, <2>6, <2>7, JobChangeKeeps, ZenonT(40)
  <1> QED BY <1>3, <1>4, <1>5, ZenonT(40) DEF UpdateReplay

LEMMA JobStopsKeeps ==
    ASSUME IInv, NEW j \in DOMAIN jobs, JobStops(j)
    PROVE  IInv'
  <1>0. TypeOK /\ WireSound /\ OutcomeTrue /\ TableSound /\ JobsDistinct BY DEF IInv, NodeInv
  <1>1. UNCHANGED <<routes, version, minted, wire, call, faults>> BY DEF JobStops, table
  <1>2. PICK state \in {"done", "paused"} : jobs' = With(jobs, j, [kind |-> jobs[j].kind, state |-> state])
    BY DEF JobStops, Put
  <1>3. j \in Active /\ jobs[j].kind \in Served
    BY <1>0 DEF JobStops, Active, Finished, TypeOK, Job
  <1>4. PICK v : v = [kind |-> jobs[j].kind, state |-> state] OBVIOUS
  <1>5. v \in Job /\ v.kind = jobs[j].kind BY <1>3, <1>4 DEF Job, Finished
  <1>6. /\ JobsDistinct' /\ jobs' \in [DOMAIN jobs' -> Job] /\ IsFiniteSet(DOMAIN jobs')
    BY <1>0, <1>2, <1>3, <1>4, <1>5, JobsWith
  <1>7. TypeOK' /\ TableSound' /\ OutcomeTrue' BY <1>0, <1>1, <1>6 DEF TypeOK, TableSound, OutcomeTrue
  <1>8. WireSound'
    BY <1>0, <1>1, Zenon DEF WireSound, PlanSound, Conflict, RequestSound, Live, Waiting, Told
  <1> QED BY <1>6, <1>7, <1>8 DEF IInv, NodeInv

LEMMA StoreDownKeeps ==
    ASSUME IInv, NEW r \in wire, StoreDown(r)
    PROVE  IInv'
  <1>0. TypeOK /\ WireSound /\ OutcomeTrue /\ TableSound /\ JobsDistinct BY DEF IInv, NodeInv
  <1>1. /\ r.phase # "answered" /\ faults < MaxFaults /\ faults' = faults + 1
        /\ Reply(r, 503, "store_unavailable") /\ UNCHANGED <<table, jobs, minted, call>>
    BY DEF StoreDown, Fault
  <1>2. "store_unavailable" \in Errors BY DEF Errors
  <1>3. 503 \in Nat /\ 503 \notin 200..299 OBVIOUS
  <1>4. WireSound' /\ OutcomeTrue' /\ wire' \subseteq RequestType
    BY <1>0, <1>1, <1>2, <1>3, ReplyKeeps
  <1>5. TypeOK' /\ TableSound' /\ JobsDistinct'
    BY <1>0, <1>1, <1>4, BoundsAssumption DEF TypeOK, TableSound, JobsDistinct, Active, table
  <1> QED BY <1>4, <1>5 DEF IInv, NodeInv

-----------------------------------------------------------------------------
(* The theorems *)

LEMMA InvInit == Init => IInv
  <1> SUFFICES ASSUME Init PROVE IInv OBVIOUS
  <1>1. /\ routes \in [DOMAIN routes -> Definition] /\ DOMAIN routes \in {{}, {1}}
        /\ jobs \in [DOMAIN jobs -> Job] /\ DOMAIN jobs = {}
    <2>1. DOMAIN <<>> = {} /\ \A S : <<>> \in [DOMAIN <<>> -> S] OBVIOUS
    <2>2. CASE routes = <<>> BY <2>1, <2>2 DEF Init
    <2>3. CASE routes = [i \in {1} |-> [enabled |-> TRUE, revision |-> 1]]
      <3>1. [enabled |-> TRUE, revision |-> 1] \in Definition BY DEF Definition
      <3>2. PICK d \in Definition : d = [enabled |-> TRUE, revision |-> 1] BY <3>1
      <3>3. routes = [i \in {1} |-> d] BY <2>3, <3>2
      <3>4. jobs \in [DOMAIN jobs -> Job] /\ DOMAIN jobs = {} BY <2>1 DEF Init
      <3> QED BY <3>3, <3>4
    <2> QED BY <2>2, <2>3 DEF Init
  <1>2. /\ IsFiniteSet({}) /\ Cardinality({}) = 0 /\ IsFiniteSet({1}) /\ Cardinality({1}) = 1
    BY FS_EmptySet, FS_Singleton, ZenonT(40)
  <1>3. NoCall \in Calls BY CallsAssumption DEF NoCall
  <1>4. /\ call \in [Callers -> CallType]
        /\ \A c \in Callers : call[c].phase = "idle" /\ call[c].n = 0 /\ call[c].wrote = 0
    <2>1. PICK outcome \in Reports : outcome = "none" BY DEF Reports
    <2>2. PICK k \in Calls : k = NoCall BY <1>3
    <2>3. call = [c \in Callers |-> [k |-> k, phase |-> "idle", outcome |-> outcome,
                                     n |-> 0, wrote |-> 0, made |-> 0]]
      BY <2>1, <2>2 DEF Init
    <2> QED BY <2>3 DEF CallType
  <1>5. TypeOK BY <1>1, <1>2, <1>4, BoundsAssumption DEF Init, TypeOK
  <1>6. TableSound BY <1>1, <1>2, BoundsAssumption DEF TableSound
  <1>7. Active = {} BY <1>1 DEF Active
  <1>8. JobsDistinct BY <1>2, <1>7, BoundsAssumption DEF JobsDistinct
  <1>9. WireSound /\ OutcomeTrue BY <1>4 DEF Init, WireSound, OutcomeTrue
  <1> QED BY <1>5, <1>6, <1>8, <1>9 DEF IInv, NodeInv

LEMMA InvStep == IInv /\ [Next]_vars => IInv'
  <1> SUFFICES ASSUME IInv, [Next]_vars PROVE IInv' OBVIOUS
  <1>1. ASSUME NEW c \in Callers, Issue(c) PROVE IInv' BY <1>1, IssueKeeps
  <1>2. ASSUME NEW r \in wire, Handler(r) PROVE IInv'
    BY <1>2, ValidateKeeps, ApplyKeeps, StartReplayKeeps, UpdateReplayKeeps DEF Handler
  <1>3. ASSUME NEW r \in wire, Receive(r) PROVE IInv' BY <1>3, ReceiveKeeps
  <1>4. ASSUME NEW r \in wire, Unreachable(r) PROVE IInv' BY <1>4, UnreachableKeeps
  <1>5. ASSUME NEW r \in wire, StoreDown(r) PROVE IInv' BY <1>5, StoreDownKeeps
  <1>6. ASSUME NEW j \in DOMAIN jobs, JobStops(j) PROVE IInv' BY <1>6, JobStopsKeeps
  <1>7. CASE UNCHANGED vars
    <2>1. /\ UNCHANGED <<routes, version, jobs, minted, wire, call, faults>> BY <1>7 DEF vars
    <2>2. TypeOK' /\ TableSound' /\ OutcomeTrue' /\ JobsDistinct'
      BY <2>1 DEF IInv, NodeInv, TypeOK, TableSound, OutcomeTrue, JobsDistinct, Active
    <2>3. WireSound'
      BY <2>1, Zenon DEF IInv, NodeInv, WireSound, PlanSound, Conflict, RequestSound, Live, Waiting, Told
    <2> QED BY <2>2, <2>3 DEF IInv, NodeInv
  <1> QED BY <1>1, <1>2, <1>3, <1>4, <1>5, <1>6, <1>7 DEF Next

\* For any callers, calls and bounds: two enabled routes never share a path and
\* method, the table and the replay jobs stay within their caps, no kind of job
\* runs twice, and a plan fits the table as long as it has the version the plan
\* saw (Routes.mutate with the store's compare-and-set, Replayer.start).
THEOREM NodeIsSound == Spec => []NodeInv
  <1>1. IInv => NodeInv BY DEF IInv
  <1> QED BY <1>1, InvInit, InvStep, PTL DEF Spec

\* For any number of retries and losses, a client that resolved a write made it,
\* and one that was refused at its first request neither made it nor has a
\* request left that could (the error mapping of the two TypeScript clients).
THEOREM ReportsAreTrue == Spec => []OutcomeTrue
  <1>1. IInv => OutcomeTrue BY DEF IInv
  <1> QED BY <1>1, InvInit, InvStep, PTL DEF Spec

\* The step a write makes of the definitions that stay in the table.
NoLostUpdate ==
    \A i \in DOMAIN routes \cap DOMAIN routes' :
        routes'[i] # routes[i] => routes'[i].revision = routes[i].revision + 1

LEMMA RevisionsStep == IInv /\ [Next]_vars => NoLostUpdate
  <1> SUFFICES ASSUME IInv, [Next]_vars PROVE NoLostUpdate OBVIOUS
  <1>1. ASSUME NEW r \in wire, Apply(r) PROVE NoLostUpdate
    <2>1. r.phase = "planned" /\ PlanSound(r) /\ TypeOK /\ TableSound
      BY <1>1 DEF Apply, IInv, NodeInv, WireSound
    <2>2. CASE ~Stale(r) /\ StoreRefusal(r.plan) = 0 /\ routes' = Written(r.plan)
      BY <2>1, <2>2, WrittenSound DEF NoLostUpdate
    <2>3. CASE routes' = routes BY <2>3 DEF NoLostUpdate
    <2> QED BY <1>1, <2>2, <2>3 DEF Apply, table
  <1>2. CASE routes' = routes BY <1>2 DEF NoLostUpdate
  <1> QED
    BY <1>1, <1>2, ZenonT(40) DEF Next, Handler, Issue, Validate, StartReplay, UpdateReplay, Receive,
       Unreachable, JobStops, StoreDown, table, vars

\* No update of a route is lost, whatever writes race: a definition that stays in
\* the table changes only to its next revision (the store's version check).
THEOREM NoUpdateIsLost == Spec => RevisionStep
  <1>1. IInv /\ [Next]_vars => [NoLostUpdate]_vars BY RevisionsStep
  <1>2. Spec => [][NoLostUpdate]_vars BY <1>1, InvInit, InvStep, PTL DEF Spec
  <1> QED BY <1>2 DEF RevisionStep, NoLostUpdate
=============================================================================
