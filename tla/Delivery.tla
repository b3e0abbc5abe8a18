------------------------------ MODULE Delivery ------------------------------
(***************************************************************************)
(* What the outbox promises of each event, as if the worker kept an        *)
(* account of it: it is delivered at least once before it counts as sent,  *)
(* and once more only for a delivery whose outcome is in doubt; what       *)
(* cannot be delivered is given up after MaxAttempts, and what is settled  *)
(* is left alone.                                                          *)
(***************************************************************************)
EXTENDS Naturals

CONSTANTS Events, MaxAttempts

VARIABLES
    state,  \* "absent", "pending", "sent" or "failed"
    tries,  \* attempts that have an outcome
    shown,  \* times the event was delivered
    doubt,  \* deliveries whose outcome nobody knows
    open,   \* events delivered whose outcome is still to be recorded
    free    \* events that count as sent without a delivery

vars == <<state, tries, shown, doubt, open, free>>

Init ==
    /\ state = [e \in Events |-> "absent"]
    /\ tries = [e \in Events |-> 0]
    /\ shown = [e \in Events |-> 0]
    /\ doubt = [e \in Events |-> 0]
    /\ open = {}
    /\ free \subseteq Events

More(f, S) == [e \in Events |-> f[e] + IF e \in S THEN 1 ELSE 0]
Waiting == {e \in Events : state[e] = "pending"} \ open

Owe(e) ==
    /\ state[e] = "absent"
    /\ state' = [state EXCEPT ![e] = "pending"]
    /\ UNCHANGED <<tries, shown, doubt, open, free>>

(* Some events are delivered together; every delivery before this one is in *)
(* doubt.                                                                   *)
Show(S) ==
    /\ \A e \in S : shown[e] = doubt[e]
    /\ shown' = More(shown, S)
    /\ open' = open \cup S
    /\ UNCHANGED <<state, tries, doubt, free>>

(* They are, and whether they were is never known.                          *)
ShowInDoubt(S) ==
    /\ \A e \in S : shown[e] = doubt[e]
    /\ shown' = More(shown, S)
    /\ doubt' = More(doubt, S)
    /\ UNCHANGED <<state, tries, open, free>>

(* What was delivered is forgotten before it is recorded, all of it.        *)
Forget ==
    /\ open # {}
    /\ doubt' = More(doubt, open)
    /\ open' = {}
    /\ UNCHANGED <<state, tries, shown, free>>

Settle(e) ==
    /\ e \in open \/ e \in Waiting \cap free
    /\ state' = [state EXCEPT ![e] = "sent"]
    /\ tries' = [tries EXCEPT ![e] = @ + 1]
    /\ open' = open \ {e}
    /\ UNCHANGED <<shown, doubt, free>>

(* An attempt fails, and the last one is the last.                          *)
Fail(e) ==
    /\ e \in Waiting
    /\ tries' = [tries EXCEPT ![e] = @ + 1]
    /\ state' = [state EXCEPT ![e] = IF tries[e] + 1 = MaxAttempts THEN "failed" ELSE @]
    /\ UNCHANGED <<shown, doubt, open, free>>

Next ==
    \/ Forget
    \/ \E e \in Events : Owe(e) \/ Settle(e) \/ Fail(e)
    \/ \E S \in SUBSET Waiting : Show(S) \/ ShowInDoubt(S)

Spec == Init /\ [][Next]_vars
=============================================================================
