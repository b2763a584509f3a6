----------------------------- MODULE Dashboard ------------------------------
(***************************************************************************)
(* The amounts at the top of the dashboard, as the summary routes compute  *)
(* them from the collections of Ledger, each by an aggregation of its own, *)
(* and what ties them together.                                            *)
(***************************************************************************)
EXTENDS Ledger, Figures, Functions

ASSUME DashboardAssumption == IsFiniteSet(Invoices)

LiveInvoices == {i \in Invoices : invoice[i].state = "live"}
LivePayments == {p \in Payments : payment[p].state = "live"}

\* The orders in which the collections are scanned.
NInvoices == Cardinality(Invoices)
InvoiceScan == CHOOSE s \in Bijection(1..NInvoices, Invoices) : TRUE
PaymentScan == [k \in 1..NPayments |-> k]

\* What a scan of n documents adds up: the amounts of those that are matched.
Matched(scan, n, amount) ==
    [k \in 1..n |-> IF scan[k] \in DOMAIN amount THEN amount[scan[k]] ELSE 0]

\* A $group over all the documents that are matched, a function that gives each
\* its amount: an array of one sum, or of none.
Grouped(scan, n, amount) ==
    IF DOMAIN amount = {} THEN <<>> ELSE <<SumTo(Matched(scan, n, amount), n)>>

\* The totals of the invoices.
InvoiceTotal == Grouped(InvoiceScan, NInvoices, [i \in LiveInvoices |-> invoice[i].total])

\* Mutant: an invoice paid in part counts as paid.
OpenStatusesUnpaid == {"unpaid"}

OpenStatuses == {"unpaid", "partially"}

\* What is left to pay on the invoices that are not paid.
TotalUndue ==
    LET open == {i \in LiveInvoices :
                    invoice[i].paymentStatus \in OpenStatuses}
    IN  Grouped(InvoiceScan, NInvoices, [i \in open |-> invoice[i].total - invoice[i].credit])

\* The amounts of the payments.
PaymentTotal == Grouped(PaymentScan, NPayments, [p \in LivePayments |-> payment[p].amount])

\* The amount on a card: 0 when there is nothing to sum up.
CardAmount(result) == IF result = <<>> THEN 0 ELSE result[1]

\* The cards of the amounts, but for the one of the quotes.
Cards == [Invoices |-> CardAmount(InvoiceTotal),
          paid     |-> CardAmount(PaymentTotal),
          Unpaid   |-> CardAmount(TotalUndue)]

\* The books of every invoice are in order and nothing is being written.
InOrder ==
    /\ InFlight = {}
    /\ \A i \in Invoices : flaws[i] = {} /\ fresh[i]

\* While no request runs, and no race or failure has left a flaw, the amounts of
\* the dashboard add up although two routes and three scans compute them: what was
\* invoiced less what was paid is what is unpaid, overpaid invoices and the payments
\* that went with a removed invoice included.
\* (invoiceController/summary.js:33-199, paymentController/summary.js:31-64 against
\* every handler of Ledger)
DashboardAddsUp == InOrder => Cards.Invoices - Cards.paid = Cards.Unpaid
=============================================================================
