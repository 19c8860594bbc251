------------------------------ MODULE Entitlement ------------------------------
(***************************************************************************)
(* What billing promises about one workspace, with no invoice, reference,  *)
(* queue or handler in sight: a workspace is only ever put on an offer     *)
(* that is free, or that costs no more than a charge its owner has really  *)
(* paid.  Checkout.tla is the detailed system and implements this module.  *)
(*                                                                         *)
(* An offer is a record with at least an `amount' (minor units, 0 = free)  *)
(* and a `currency', without which two amounts cannot be compared.         *)
(***************************************************************************)
EXTENDS Naturals

CONSTANTS Offers, FreeOffer

VARIABLES
    charges,   \* the offers customers have been charged for, ever
    held       \* the offer the workspace's subscription row carries

vars == <<charges, held>>

Covered(o) ==
    o.amount = 0 \/ \E c \in charges : c.currency = o.currency /\ c.amount >= o.amount

Init == charges = {} /\ held = FreeOffer

Charge(o) == charges' = charges \cup {o} /\ UNCHANGED held

Grant(o) == Covered(o) /\ held' = o /\ UNCHANGED charges

Next == \E o \in Offers : Charge(o) \/ Grant(o)

Spec == Init /\ [][Next]_vars
=============================================================================
