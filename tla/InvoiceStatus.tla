--------------------------- MODULE InvoiceStatus ---------------------------
(***************************************************************************)
(* The status rules of internal/billing: how a status or an event of the   *)
(* payment provider is translated into an invoice status, and which        *)
(* translated status an invoice accepts.  Pure operators, shared by every  *)
(* module about invoices.                                                  *)
(***************************************************************************)

\* The statuses an invoice row can carry.
Statuses == {"draft", "issued", "overdue", "paid", "cancelled"}

\* The statuses the provider adapter can ask for: it never yields "draft".
MappedStatuses == {"issued", "overdue", "paid", "cancelled"}

\* The row does not exist.
NoRow == "none"

-----------------------------------------------------------------------------
(* Provider statuses, by the invoice status they are mapped to. *)

SettledRemote   == {"RECEIVED", "CONFIRMED", "RECEIVED_IN_CASH"}
OverdueRemote   == {"OVERDUE"}
CancelledRemote == {"REFUNDED", "REFUND_REQUESTED", "CHARGEBACK_REQUESTED",
                    "CHARGEBACK_DISPUTE", "AWAITING_CHARGEBACK_REVERSAL"}

\* Mutant: the provider's word is stored as it came.
mapAsaasStatusVerbatim(remote) == remote

\* Every other provider status, "PENDING" and "DELETED" among them, is "issued".
mapAsaasStatus(remote) ==
    CASE remote \in SettledRemote   -> "paid"
      [] remote \in OverdueRemote   -> "overdue"
      [] remote \in CancelledRemote -> "cancelled"
      [] OTHER                      -> "issued"

(* Webhook event types that overrule the status they carry. *)

SettledEvents   == {"PAYMENT_RECEIVED", "PAYMENT_CONFIRMED",
                    "PAYMENT_RECEIVED_IN_CASH"}
OverdueEvents   == {"PAYMENT_OVERDUE"}
CancelledEvents == {"PAYMENT_DELETED", "PAYMENT_REFUNDED",
                    "PAYMENT_REFUND_IN_PROGRESS",
                    "PAYMENT_CHARGEBACK_REQUESTED",
                    "PAYMENT_CHARGEBACK_DISPUTE"}

\* The status a (type, provider status) pair asks for.  A provider status
\* that is already one of ours, as GetInvoice returns it, is kept.
Desired(type, remote) ==
    CASE type \in SettledEvents   -> "paid"
      [] type \in OverdueEvents   -> "overdue"
      [] type \in CancelledEvents -> "cancelled"
      [] OTHER -> IF remote \in MappedStatuses THEN remote
                  ELSE mapAsaasStatus(remote)

\* Mutant: the check of line 68 for a cancelled invoice is missing.
AcceptsCancelled(current, desired) ==
    /\ current # desired
    /\ current = "paid" => desired = "cancelled"
    /\ desired = "issued" => current = "draft"
    /\ desired = "overdue" => current \in {"issued", "draft"}

\* An invoice with status current moves to the status desired.
Accepts(current, desired) ==
    /\ current \notin {"cancelled", desired}
    /\ current = "paid" => desired = "cancelled"
    /\ desired = "issued" => current = "draft"
    /\ desired = "overdue" => current \in {"issued", "draft"}

\* paymentStatus returns the pair (next, changed); changed is next # current.
paymentStatus(current, type, remote) ==
    IF Accepts(current, Desired(type, remote)) THEN Desired(type, remote)
    ELSE current

-----------------------------------------------------------------------------
\* The event type Reconcile passes: it overrules nothing.
ReconcileType == "PAYMENT_RECONCILED"

\* How far along its life an invoice is.  Never used by the code: the
\* measure in which "never regresses" is stated.
Rank(status) == CASE status = NoRow       -> 0
                  [] status = "draft"     -> 1
                  [] status = "issued"    -> 2
                  [] status = "overdue"   -> 3
                  [] status = "paid"      -> 4
                  [] status = "cancelled" -> 5
=============================================================================
