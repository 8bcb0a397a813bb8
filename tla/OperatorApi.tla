---------------------------- MODULE OperatorApi ----------------------------
(* Operators' programs that use the TypeScript clients of the two control    *)
(* listeners of a node, route management (createRoutesClient) and operations *)
(* (createAdminClient), against the node's handlers.                         *)
(*                                                                           *)
(* A write to the route table is validated against a snapshot and applied    *)
(* only if the table still has that version; a write that lost the race      *)
(* validates again, at most MaxAttempts times.  A replay job is started and  *)
(* patched by one process.  Between a caller and the node anything can fail: *)
(* the request may never arrive, or its answer may not come back while the   *)
(* handler goes on.  The caller does what the clients' errors tell it: it    *)
(* calls again exactly when the error is retryable.                          *)
(*                                                                           *)
(* Every route of the model has the same path and method, so two of them     *)
(* conflict when both are enabled.                                           *)
EXTENDS Integers, FiniteSets, Functions

CONSTANTS
    Callers,        \* the programs; each makes one call
    Calls,          \* the calls they may make
    MaxRoutes,      \* routes.max_routes
    MaxAttempts,    \* @max_attempts of Ankusa.Routes
    MaxActive,      \* @max_active of the replayer
    Served,         \* the kinds of job the roles of the node can run
    MaxFaults       \* bound: requests or answers lost, store errors

Unnamed == 0        \* no id in the body: the node makes one
Unaddressable == -1 \* an id a URL parser would normalise away
FirstId == 10       \* ids the node makes are numbered from here

RouteVerbs == {"create", "replace", "update", "delete", "get", "ip_rules"}
Kinds == {"dlq", "archive", "lifecycle"}

\* What PATCH /v1/replays/{id} makes of a job.
Patches == [cancel |-> "cancelled", pause |-> "paused", resume |-> "running"]
ReplayVerbs == {"start"} \cup DOMAIN Patches

ASSUME CallsAssumption ==
    /\ Calls # {}
    /\ \A k \in Calls : /\ k.verb \in RouteVerbs \cup ReplayVerbs
                        /\ k.id \in Unaddressable..FirstId - 1
                        /\ k.enabled \in BOOLEAN
                        /\ k.kind \in Kinds
ASSUME BoundsAssumption ==
    /\ MaxRoutes \in Nat \ {0} /\ MaxAttempts \in Nat \ {0}
    /\ MaxActive \in Nat \ {0} /\ MaxFaults \in Nat /\ Served \subseteq Kinds

VARIABLES
    routes,     \* the route table: id -> definition, with its revision
    version,    \* the version of the table
    jobs,       \* the replay jobs: id -> kind and state
    minted,     \* how many ids the node has made
    wire,       \* requests on their way, in a handler, or answered
    call,       \* each program's call and what came of it
    faults

vars == <<routes, version, jobs, minted, wire, call, faults>>
table == <<routes, version>>

-----------------------------------------------------------------------------
(* The clients.                                                              *)

Answer(status, error) == [status |-> status, error |-> error]
NoAnswer == Answer(0, "none")

\* request of the routes client: a 2xx is the result, a 404 its own error, any
\* other 4xx a rejection, and everything else is the gateway's.
RoutesOutcome(answer) ==
    CASE answer.status \in 200..299 -> "ok"
      [] answer.status = 404 -> "not_found"
      [] answer.status \in 400..499 \ {404} -> "rejected"
      [] OTHER -> "unavailable"

\* request of the admin client: a role the node does not run is its own error.
AdminOutcome(answer) ==
    CASE answer.status \in 200..299 -> "ok"
      [] answer.status = 409 /\ answer.error = "role_not_enabled" -> "role_not_enabled"
      [] answer.status \in 400..499 \ {409} \/ (answer.status = 409 /\ answer.error # "role_not_enabled") -> "rejected"
      [] OTHER -> "unavailable"

Outcome(k, answer) ==
    IF k.verb \in RouteVerbs THEN RoutesOutcome(answer) ELSE AdminOutcome(answer)

\* A variant in which no error is worth a retry.
RetryableNever(outcome) == FALSE

\* The retryable bit of the two error hierarchies.
Retryable(outcome) == outcome = "unavailable"

\* The methods that put an id in the URL check it first (assertRouteId).
Addressed(k) == k.verb \in {"replace", "update", "delete", "get"}
AssertRouteId(k) == Addressed(k) => k.id # Unaddressable

-----------------------------------------------------------------------------
\* The table or the jobs `f` with `v` stored under `i`.
With(f, i, v) == [j \in DOMAIN f \cup {i} |-> IF j = i THEN v ELSE f[j]]

Fault ==
    /\ faults < MaxFaults
    /\ faults' = faults + 1

Request(c, n) ==
    [by |-> c, n |-> n, id |-> call[c].k.id, phase |-> "sent", seen |-> 0,
     attempt |-> 1, plan |-> [store |-> "none", id |-> 0, enabled |-> FALSE, revision |-> 0],
     answer |-> NoAnswer]

Waiting(c) == call[c].phase = "waiting"

\* A request whose answer the caller still waits for.
Live(r) == Waiting(r.by) /\ r.n = call[r.by].n

Move(r, s) == wire' = (wire \ {r}) \cup {s}

\* A variant that does not answer a store error.
ReplySilent(r, status, error) ==
    IF Live(r) /\ status # 503
    THEN Move(r, [r EXCEPT !.phase = "answered", !.answer = Answer(status, error)])
    ELSE wire' = wire \ {r}

\* The handler answers; nobody reads the answer of a request that was given up.
Reply(r, status, error) ==
    IF Live(r)
    THEN Move(r, [r EXCEPT !.phase = "answered", !.answer = Answer(status, error)])
    ELSE wire' = wire \ {r}

\* A program makes its call: with an id that addresses nothing no request is
\* made at all.
Issue(c) ==
    /\ call[c].phase = "idle"
    /\ \E k \in Calls :
         IF AssertRouteId(k)
         THEN /\ call' = [call EXCEPT ![c].k = k, ![c].phase = "waiting", ![c].n = 1]
              /\ wire' = wire \cup {[Request(c, 1) EXCEPT !.id = k.id]}
         ELSE /\ call' = [call EXCEPT ![c].k = k, ![c].phase = "done",
                                      ![c].outcome = "invalid_id"]
              /\ UNCHANGED wire
    /\ UNCHANGED <<table, jobs, minted, faults>>

\* What a caller does with the outcome of a request: again, or done.
Conclude(c, outcome, left) ==
    IF Retryable(outcome)
    THEN /\ call' = [call EXCEPT ![c].n = @ + 1]
         /\ wire' = left \cup {Request(c, call[c].n + 1)}
    ELSE /\ call' = [call EXCEPT ![c].phase = "done", ![c].outcome = outcome]
         /\ wire' = left

\* The answer of the node reaches the caller.
Receive(r) ==
    /\ Live(r) /\ r.phase = "answered"
    /\ Conclude(r.by, Outcome(call[r.by].k, r.answer), wire \ {r})
    /\ UNCHANGED <<table, jobs, minted, faults>>

\* The request fails between caller and node: a timeout, a network error, a
\* gateway's own 5xx or 3xx.  It may have been lost on the way, or the handler
\* may go on with nobody waiting for it.
Unreachable(r) ==
    /\ Live(r) /\ Fault
    /\ \E left \in {wire, wire \ {r}} :
         /\ r.phase = "planned" => left = wire
         /\ r.phase = "answered" => left = wire \ {r}
         /\ Conclude(r.by, "unavailable", left)
    /\ UNCHANGED <<table, jobs, minted>>

-----------------------------------------------------------------------------
(* The node: route management.                                               *)

\* Another enabled route for the same path and method (no_conflict).
Conflict(id, enabled) ==
    enabled /\ \E i \in DOMAIN routes \ {id} : routes[i].enabled

Plan(store, id, enabled, revision) ==
    [store |-> store, id |-> id, enabled |-> enabled, revision |-> revision]

\* What a validated change stores: a new definition starts at revision 1, a
\* replaced one counts on from the definition it was validated against.
Planned(verb, id, enabled) ==
    CASE verb \in {"delete", "ip_rules"} -> Plan(verb, id, FALSE, 0)
      [] verb \in {"create", "replace", "update"} /\ id \in DOMAIN routes ->
           Plan("replace", id, enabled, routes[id].revision + 1)
      [] OTHER -> Plan("insert", id, enabled, 1)

\* Why a change is refused before the store is asked; 0: it is not.
Refusal(verb, id, enabled) ==
    IF verb \in {"update", "get"} /\ id \notin DOMAIN routes THEN 404
    ELSE IF \/ verb = "create" /\ id \in DOMAIN routes
            \/ verb \in {"create", "replace", "update"} /\ Conflict(id, enabled)
    THEN 409 ELSE 0

\* A handler validates a change against the current snapshot: it reads it,
\* refuses it, or plans a write for exactly this version.  A POST without an
\* id gets a fresh one, once per request.
Validate(r) ==
    LET k == call[r.by].k
        id == IF r.id = Unnamed /\ k.verb = "create" THEN FirstId + minted ELSE r.id
        refusal == Refusal(k.verb, id, k.enabled)
    IN  /\ r.phase = "sent" /\ k.verb \in RouteVerbs
        /\ minted' = IF id # r.id THEN minted + 1 ELSE minted
        /\ \/ /\ refusal # 0
              /\ Reply(r, refusal, "refused")
           \/ /\ refusal = 0 /\ k.verb = "get"
              /\ Reply(r, 200, "none")
           \/ /\ refusal = 0 /\ k.verb # "get"
              /\ Move(r, [r EXCEPT !.phase = "planned", !.id = id, !.seen = version,
                                   !.plan = Planned(k.verb, id, k.enabled)])
        /\ UNCHANGED <<table, jobs, call, faults>>

\* A variant that compares only for an insert.
StaleInsert(r) == r.plan.store = "insert" /\ r.seen # version

\* The store refuses a write planned against another version.
Stale(r) == r.plan.store \in {"insert", "replace"} /\ r.seen # version

\* The table after a write.
Written(plan) ==
    CASE plan.store = "delete" -> Restrict(routes, DOMAIN routes \ {plan.id})
      [] plan.store = "ip_rules" -> routes
      [] OTHER -> With(routes, plan.id, [enabled |-> plan.enabled, revision |-> plan.revision])

\* A variant whose cap is off by one.
StoreRefusalLate(plan) ==
    CASE plan.store = "insert" /\ Cardinality(DOMAIN routes) > MaxRoutes -> 409
      [] plan.store = "delete" /\ plan.id \notin DOMAIN routes -> 404
      [] OTHER -> 0

\* Why the store itself refuses the write; 0: it does not.
StoreRefusal(plan) ==
    CASE plan.store = "insert" /\ Cardinality(DOMAIN routes) >= MaxRoutes -> 409
      [] plan.store = "delete" /\ plan.id \notin DOMAIN routes -> 404
      [] OTHER -> 0

\* The status of a write that was made.
Success(verb) == CASE verb = "create" -> 201 [] verb = "delete" -> 204 [] OTHER -> 200

\* The caller's ledger of what its requests changed (history, not code).
Count(c, made) == call' = [call EXCEPT ![c].wrote = @ + 1, ![c].made = @ + made]

\* A write may lose so many races, and no more.
Exhausted(r) == r.attempt >= MaxAttempts

\* The planned write reaches the store, which makes it whole or not at all.
\* One that lost the race is validated again; after MaxAttempts it is a 503.
Apply(r) ==
    /\ r.phase = "planned"
    /\ \/ /\ Stale(r) /\ ~Exhausted(r)
          /\ Move(r, [r EXCEPT !.phase = "sent", !.attempt = @ + 1])
          /\ UNCHANGED <<table, call>>
       \/ /\ Stale(r) /\ Exhausted(r)
          /\ Reply(r, 503, "store_unavailable")
          /\ UNCHANGED <<table, call>>
       \/ /\ ~Stale(r) /\ StoreRefusal(r.plan) # 0
          /\ Reply(r, StoreRefusal(r.plan), "refused")
          /\ UNCHANGED <<table, call>>
       \/ /\ ~Stale(r) /\ StoreRefusal(r.plan) = 0
          /\ routes' = Written(r.plan)
          /\ version' = version + 1
          /\ Reply(r, Success(call[r.by].k.verb), "none")
          /\ Count(r.by, IF r.plan.store = "insert" THEN 1 ELSE 0)
    /\ UNCHANGED <<jobs, minted, faults>>

-----------------------------------------------------------------------------
(* The node: replay jobs.                                                    *)

Finished == {"cancelled", "done", "failed"}
Active == {j \in DOMAIN jobs : jobs[j].state \notin Finished}

Full == Cardinality(Active) >= MaxActive
SameJob(kind) == {j \in Active : jobs[j].kind = kind}

Put(j, kind, state) == jobs' = With(jobs, j, [kind |-> kind, state |-> state])

\* POST /v1/replays: the job of that id in any state, or the active job of the
\* same kind and filter, is the answer; else a new job, within the cap and on
\* a node that runs what the job needs.
StartReplay(r) ==
    LET k == call[r.by].k
        named == k.id \in DOMAIN jobs
        j == IF k.id = Unnamed THEN FirstId + minted ELSE k.id
    IN  /\ r.phase = "sent" /\ k.verb = "start"
        /\ \/ /\ named /\ jobs[k.id].kind # k.kind
              /\ Reply(r, 400, "invalid_filter")
              /\ UNCHANGED <<jobs, minted, call>>
           \/ /\ IF named THEN jobs[k.id].kind = k.kind ELSE SameJob(k.kind) # {}
              /\ Reply(r, 200, "none")
              /\ UNCHANGED <<jobs, minted, call>>
           \/ /\ ~named /\ SameJob(k.kind) = {} /\ Full
              /\ Reply(r, 409, "too_many_replays")
              /\ UNCHANGED <<jobs, minted, call>>
           \/ /\ ~named /\ SameJob(k.kind) = {} /\ ~Full
              /\ k.kind \notin Served
              /\ Reply(r, 409, "role_not_enabled")
              /\ UNCHANGED <<jobs, minted, call>>
           \/ /\ ~named /\ SameJob(k.kind) = {} /\ ~Full
              /\ k.kind \in Served
              /\ Put(j, k.kind, "running")
              /\ minted' = IF j # k.id THEN minted + 1 ELSE minted
              /\ Reply(r, 202, "none")
              /\ Count(r.by, 1)
        /\ UNCHANGED <<table, faults>>

\* PATCH /v1/replays/{id}: a job that has not finished takes any state.
UpdateReplay(r) ==
    LET k == call[r.by].k
    IN  /\ r.phase = "sent" /\ k.verb \in DOMAIN Patches
        /\ \/ /\ k.id \notin DOMAIN jobs
              /\ Reply(r, 404, "replay_not_found")
              /\ UNCHANGED <<jobs, call>>
           \/ /\ k.id \in DOMAIN jobs \ Active
              /\ Reply(r, 409, "replay_finished")
              /\ UNCHANGED <<jobs, call>>
           \/ /\ k.id \in Active
              /\ Put(k.id, jobs[k.id].kind, Patches[k.verb])
              /\ Reply(r, 200, "none")
              /\ Count(r.by, 0)
        /\ UNCHANGED <<table, minted, faults>>

\* A running job reaches its end, or pauses because too much of it fails.
JobStops(j) ==
    /\ jobs[j].state = "running"
    /\ \E state \in {"done", "paused"} : Put(j, jobs[j].kind, state)
    /\ UNCHANGED <<table, minted, wire, call, faults>>

\* The store fails before the change is made: the audit row or the job cannot
\* be written, or no table is loaded.  The node answers 503.
StoreDown(r) ==
    /\ r.phase \in {"sent", "planned"} /\ call[r.by].k.verb # "get"
    /\ Fault
    /\ Reply(r, 503, "store_unavailable")
    /\ UNCHANGED <<table, jobs, minted, call>>

-----------------------------------------------------------------------------
NoCall == CHOOSE k \in Calls : TRUE

\* An empty table or one seeded with an enabled route, and no jobs.
Init ==
    /\ routes \in {<<>>, [i \in {1} |-> [enabled |-> TRUE, revision |-> 1]]}
    /\ version = 1
    /\ jobs = <<>>
    /\ minted = 0
    /\ wire = {}
    /\ call = [c \in Callers |-> [k |-> NoCall, phase |-> "idle", outcome |-> "none",
                                  n |-> 0, wrote |-> 0, made |-> 0]]
    /\ faults = 0

Handler(r) == Validate(r) \/ Apply(r) \/ StartReplay(r) \/ UpdateReplay(r)

Next ==
    \/ \E c \in Callers : Issue(c)
    \/ \E r \in wire : Handler(r) \/ Receive(r) \/ Unreachable(r) \/ StoreDown(r)
    \/ \E j \in DOMAIN jobs : JobStops(j)

Spec == Init /\ [][Next]_vars

\* A handler that was entered runs to its answer, and an answer that was not
\* lost arrives.
Progress(c) == \E r \in wire : r.by = c /\ Live(r) /\ (Handler(r) \/ Receive(r))

FairSpec == Spec /\ \A c \in Callers : WF_vars(Progress(c))

-----------------------------------------------------------------------------
Definition == [enabled : BOOLEAN, revision : Nat \ {0}]
Job == [kind : Served, state : {"running", "paused"} \cup Finished]
Stores == {"none", "insert", "replace", "delete", "ip_rules"}
Errors == {"none", "refused", "store_unavailable", "invalid_filter", "too_many_replays",
           "role_not_enabled", "replay_not_found", "replay_finished"}
Reports == {"none", "ok", "not_found", "rejected", "role_not_enabled", "unavailable", "invalid_id"}
PlanType == [store : Stores, id : Int, enabled : BOOLEAN, revision : Nat]
RequestType ==
    [by : Callers, n : Nat \ {0}, id : Int, phase : {"sent", "planned", "answered"}, seen : Nat,
     attempt : 1..MaxAttempts, plan : PlanType, answer : [status : Nat, error : Errors]]
CallType ==
    [k : Calls, phase : {"idle", "waiting", "done"}, outcome : Reports, n : Nat, wrote : Nat, made : Nat]

\* The types of the variables.
TypeOK ==
    /\ routes \in [DOMAIN routes -> Definition] /\ IsFiniteSet(DOMAIN routes)
    /\ version \in Nat \ {0}
    /\ jobs \in [DOMAIN jobs -> Job] /\ IsFiniteSet(DOMAIN jobs)
    /\ minted \in Nat /\ faults \in 0..MaxFaults
    /\ wire \subseteq RequestType
    /\ call \in [Callers -> CallType]

\* However the writes of several callers, their retries and their late
\* requests interleave, two enabled routes never hold the same path and method,
\* and the table never outgrows its cap (validate, then store at that version).
TableSound ==
    /\ \A i, j \in DOMAIN routes : routes[i].enabled /\ routes[j].enabled => i = j
    /\ Cardinality(DOMAIN routes) <= MaxRoutes

\* No update is lost: a definition that stays in the table changes only to its
\* next revision, so each write was validated against the one before it.
RevisionStep ==
    [][\A i \in DOMAIN routes \cap DOMAIN routes' :
          routes'[i] # routes[i] => routes'[i].revision = routes[i].revision + 1]_vars

\* What a client reports is what the node did: a write that resolved was made,
\* and one refused at its first request was not made and never will be.
OutcomeTrue ==
    \A c \in Callers :
        call[c].phase = "done" =>
            /\ call[c].outcome = "ok" /\ call[c].k.verb \notin {"get", "start"} => call[c].wrote > 0
            /\ call[c].outcome # "ok" /\ call[c].n <= 1 =>
                   call[c].wrote = 0 /\ \A r \in wire : r.by # c

\* The replayer never runs two jobs of one kind and filter side by side, nor
\* more than its cap, whatever callers retry.
JobsDistinct ==
    /\ \A i, j \in Active : jobs[i].kind = jobs[j].kind => i = j
    /\ Cardinality(Active) <= MaxActive

\* A planned insert or replace is sound for the version it was validated against.
PlanSound(r) ==
    /\ r.seen <= version
    /\ r.phase = "planned" => r.plan.store # "none"
    /\ r.phase = "planned" /\ r.plan.store \in {"insert", "replace"} /\ r.seen = version =>
          /\ ~Conflict(r.plan.id, r.plan.enabled)
          /\ r.plan.store = "insert" => r.plan.id \notin DOMAIN routes /\ r.plan.revision = 1
          /\ r.plan.store = "replace" =>
                /\ r.plan.id \in DOMAIN routes
                /\ r.plan.revision = routes[r.plan.id].revision + 1

\* What the answer of a request tells its caller agrees with the ledger.
Told(r) ==
    LET c == call[r.by]
    IN  /\ Outcome(c.k, r.answer) = "ok" /\ c.k.verb \notin {"get", "start"} => c.wrote > 0
        /\ Outcome(c.k, r.answer) # "ok" /\ c.n = 1 => c.wrote = 0

\* A request is one its caller made; only the last one is answered, and while
\* the first one is unanswered nothing was written.
RequestSound(r) ==
    /\ call[r.by].phase # "idle" /\ r.n <= call[r.by].n
    /\ IF r.phase = "answered" THEN Live(r) /\ Told(r)
       ELSE call[r.by].n = 1 => call[r.by].wrote = 0

\* The requests and the calls they belong to: no two have one number.
WireSound ==
    /\ \A r \in wire : PlanSound(r) /\ RequestSound(r)
    /\ \A q, r \in wire : q.by = r.by /\ q.n = r.n => q = r
    /\ \A c \in Callers : call[c].phase = "idle" => call[c].n = 0 /\ call[c].wrote = 0

\* What the node holds is sound in every state: the types, the route table, the
\* replay jobs, and the requests between caller and store, whose plans fit the
\* table as long as its version is the one they saw (Routes.mutate,
\* Replayer.start).
NodeInv == TypeOK /\ TableSound /\ JobsDistinct /\ WireSound

\* Every call comes to an outcome that is not retryable: the optimistic loop
\* of the node ends, and so does the caller's.
CallsEnd == \A c \in Callers : Waiting(c) ~> call[c].phase = "done"

\* The unavailable errors of both clients are documented as safe to retry and
\* createReplay as idempotent under a proxy's retry: no call creates two things.
CreatesOnce == \A c \in Callers : call[c].made <= 1
=============================================================================
