------------------------------ MODULE Takeout ------------------------------
(***************************************************************************)
(* What the order store promises about taking orders out into batches, as  *)
(* if every order were handled in one indivisible step: an order is taken  *)
(* out at most once, only while it is new, and it cannot be canceled after *)
(* that without a cancel notice being raised in the same step.             *)
(***************************************************************************)
EXTENDS Naturals

CONSTANTS Orders, BatchIds

VARIABLES
    phase,    \* what is known of each order
    takenBy,  \* the batches that hold each order: none or one
    notices   \* cancel notices raised for each order

vars == <<phase, takenBy, notices>>

Known == {"new", "processing", "canceled", "archived"}

Init ==
    /\ phase = [o \in Orders |-> "absent"]
    /\ takenBy = [o \in Orders |-> {}]
    /\ notices = [o \in Orders |-> 0]

(* Order o is seen to cancel: it was known, and it was not canceled.        *)
Cancels(o, s) == s = "canceled" /\ phase[o] \notin {"absent", "canceled"}

(* Order o is seen in state s. A cancellation of an order taken out raises  *)
(* a notice; one of an order BigSeller already printed may.                 *)
Observe(o, s) ==
    /\ phase' = [phase EXCEPT ![o] = s]
    /\ \/ /\ Cancels(o, s)
          /\ notices' = [notices EXCEPT ![o] = @ + 1]
       \/ /\ ~(Cancels(o, s) /\ takenBy[o] # {})
          /\ UNCHANGED notices
    /\ UNCHANGED takenBy

(* A fresh batch takes a nonempty set of new orders no batch holds.         *)
Take(i, S) ==
    /\ S # {}
    /\ \A o \in Orders : i \notin takenBy[o]
    /\ \A o \in S : phase[o] = "new" /\ takenBy[o] = {}
    /\ takenBy' = [o \in Orders |-> IF o \in S THEN {i} ELSE takenBy[o]]
    /\ UNCHANGED <<phase, notices>>

Next ==
    \/ \E o \in Orders, s \in Known : Observe(o, s)
    \/ \E i \in BatchIds, S \in SUBSET Orders : Take(i, S)

Spec == Init /\ [][Next]_vars
=============================================================================
