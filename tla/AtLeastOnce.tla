---------------------------- MODULE AtLeastOnce ----------------------------
(***************************************************************************)
(* What a consumer of Ankusa's queue messages promises (docs/delivery.md,     *)
(* "Consumer failure policy"): a hook the broker has accepted leaves the       *)
(* broker only once its event was handled or the hook itself was buried in a   *)
(* dead-letter store.  It may be handled more than once; it is never lost.     *)
(*                                                                          *)
(* Event[h] is the event hook h reports: a provider that retries, or a replay, *)
(* makes two hooks of one event, and handling either handles the event.        *)
(***************************************************************************)
CONSTANTS Hooks, Event

VARIABLES
    accepted,    \* hooks the broker has stored
    pending,     \* the ones it still holds
    handled,     \* events that were handled
    buried       \* hooks in the dead-letter store

vars == <<accepted, pending, handled, buried>>

Done(h) == Event[h] \in handled \/ h \in buried

Init == accepted = {} /\ pending = {} /\ handled = {} /\ buried = {}

Accept(h) ==
    /\ h \notin accepted
    /\ accepted' = accepted \cup {h} /\ pending' = pending \cup {h}
    /\ UNCHANGED <<handled, buried>>

Handle(h) ==
    /\ h \in accepted
    /\ handled' = handled \cup {Event[h]}
    /\ UNCHANGED <<accepted, pending, buried>>

(* A broker may bury a hook and let go of it in one step. *)
Bury(h) ==
    /\ h \in accepted
    /\ buried' = buried \cup {h} /\ pending' \in {pending, pending \ {h}}
    /\ UNCHANGED <<accepted, handled>>

Settle(h) ==
    /\ h \in pending /\ Done(h)
    /\ pending' = pending \ {h}
    /\ UNCHANGED <<accepted, handled, buried>>

Next == \E h \in Hooks : Accept(h) \/ Handle(h) \/ Bury(h) \/ Settle(h)

Spec == Init /\ [][Next]_vars

(* No accepted hook is lost: the broker holds it, its event was handled, or it   *)
(* is in the dead-letter store.                                                  *)
NothingLost == \A h \in accepted : h \in pending \/ Done(h)
=============================================================================
