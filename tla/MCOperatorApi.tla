--------------------------- MODULE MCOperatorApi ---------------------------
(* Two programs; every verb on one named id, creation without an id, an      *)
(* unaddressable id, replay jobs on a node without a queue writer.           *)
EXTENDS OperatorApi

Call(verb, id, enabled, kind) == [verb |-> verb, id |-> id, enabled |-> enabled, kind |-> kind]

AllCalls ==
    {Call(v, 1, TRUE, "dlq") : v \in {"create", "replace", "delete", "get", "cancel", "pause", "resume"}}
    \cup {Call(v, 1, FALSE, "dlq") : v \in {"replace", "update"}}
    \cup {Call("update", 1, TRUE, "dlq"), Call("ip_rules", 0, FALSE, "dlq"),
          Call("create", 0, TRUE, "dlq"), Call("create", 0, FALSE, "dlq"),
          Call("delete", -1, FALSE, "dlq"),
          Call("start", 0, FALSE, "dlq"), Call("start", 1, FALSE, "dlq"),
          Call("start", 1, FALSE, "archive"), Call("start", 0, FALSE, "lifecycle")}
=============================================================================
