------------------------------ MODULE MCBilling ------------------------------
(* Constant values for model checking Billing. *)
EXTENDS Billing, TLC

Move(from, to, type) == [from |-> from, to |-> to, type |-> type]

MCRemoteStatuses == {"PENDING", "OVERDUE", "RECEIVED", "REFUNDED", "DELETED",
                     "CHARGEBACK_REQUESTED"}

\* A charge falls due, is paid in or after time, refunded, or deleted unpaid.
BoletoMoves ==
    {Move("PENDING", "OVERDUE", "PAYMENT_OVERDUE"),
     Move("PENDING", "RECEIVED", "PAYMENT_RECEIVED"),
     Move("OVERDUE", "RECEIVED", "PAYMENT_RECEIVED"),
     Move("RECEIVED", "REFUNDED", "PAYMENT_REFUNDED"),
     Move("PENDING", "DELETED", "PAYMENT_DELETED"),
     Move("OVERDUE", "DELETED", "PAYMENT_DELETED")}

\* ... or its payment is disputed, and the dispute is won.
DisputedMoves == BoletoMoves \cup
    {Move("RECEIVED", "CHARGEBACK_REQUESTED", "PAYMENT_CHARGEBACK_REQUESTED"),
     Move("CHARGEBACK_REQUESTED", "RECEIVED", "PAYMENT_RECEIVED")}

Symmetry == Permutations(Handlers) \cup Permutations(Reconcilers)
=============================================================================
