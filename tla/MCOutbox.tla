------------------------------ MODULE MCOutbox ------------------------------
(* Constants of the Outbox runs: an urgent order ahead of the others, so    *)
(* that the polls, one or two rows long, have a head to be blocked at.      *)
EXTENDS Outbox, TLC

MCKind == (1 :> "urgent") @@ (2 :> "plain") @@ (3 :> "urgent") @@ (4 :> "canceled")
MCKindLive == (1 :> "urgent") @@ (2 :> "plain") @@ (3 :> "canceled")
=============================================================================
