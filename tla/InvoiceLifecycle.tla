-------------------------- MODULE InvoiceLifecycle --------------------------
(***************************************************************************)
(* What billing promises of an invoice, without saying how: its row        *)
(* appears once, its status only moves forward, and the moment it becomes  *)
(* paid its settlement is recorded for good (docs/billing.md).             *)
(*                                                                         *)
(* Spec is the promise.  LedgerSpec is the weaker promise that is left     *)
(* when statuses may also be overwritten from stale information: rows and  *)
(* settlements are still never lost, and nothing is paid without one.      *)
(***************************************************************************)
EXTENDS InvoiceStatus

CONSTANT Invoices

VARIABLES status, payments

vars == <<status, payments>>

Init == /\ status = [i \in Invoices |-> NoRow]
        /\ payments = {}

\* The invoice is recorded.
Record(i) == /\ status[i] = NoRow
             /\ status' = [status EXCEPT ![i] = "issued"]
             /\ UNCHANGED payments

\* The status changes to next, with its settlement when next is "paid".
Become(i, next) ==
    /\ status[i] # NoRow
    /\ status' = [status EXCEPT ![i] = next]
    /\ payments' = IF next = "paid" THEN payments \cup {i} ELSE payments

\* The invoice accepts a status that is further along.
Advance(i) == \E next \in MappedStatuses :
                 Accepts(status[i], next) /\ Become(i, next)

\* The invoice takes whatever status it is told.
Overwrite(i) == \E next \in MappedStatuses : Become(i, next)

Spec == Init /\ [][\E i \in Invoices : Record(i) \/ Advance(i)]_vars

LedgerSpec == Init /\ [][\E i \in Invoices : Record(i) \/ Overwrite(i)]_vars
=============================================================================
