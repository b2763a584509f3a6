---------------------------- MODULE LedgerSerial ----------------------------
(***************************************************************************)
(* Ledger when requests are served one at a time and nothing fails: it     *)
(* implements AccountBook.  A payment handler takes effect with its first  *)
(* write, the one to the payment, so the account of an invoice is its      *)
(* document moved on by what the request in flight still owes to it, and   *)
(* the entries of an invoice end with its removal, ahead of the cascade.   *)
(***************************************************************************)
EXTENDS Ledger

ASSUME SerialAssumption == MaxInFlight = 1 /\ Failures = FALSE

Booked(i) == \A h \in Slots : ~(request[h].at \in Booking /\ request[h].inv = i)

AccountOf(i) ==
    LET balance == invoice[i].credit + SumTo(Owed(i), NSlots)
    IN  [state   |-> invoice[i].state,
         total   |-> invoice[i].total,
         balance |-> balance,
         status  |-> IF Booked(i) THEN invoice[i].paymentStatus
                                  ELSE PaymentStatus(invoice[i].total, balance)]

EntryOf(p) ==
    IF payment[p].state = "live" /\ invoice[payment[p].invoice].state = "live"
    THEN [invoice |-> payment[p].invoice, amount |-> payment[p].amount]
    ELSE [invoice |-> NoInvoice, amount |-> 0]

Accounts == INSTANCE AccountBook WITH
    account <- [i \in Invoices |-> AccountOf(i)],
    entry   <- [p \in Payments |-> EntryOf(p)]

\* Ledger, alone, behaves as the account book: every handler is one atomic
\* operation of it that keeps to the limit, or has no effect.
\* (invoiceController/create.js:9-72, update.js:10-81, remove.js:6-35,
\* paymentController/create.js:8-83, update.js:9-84, remove.js:6-66)
ImplementsAccountBook == Accounts!Spec
=============================================================================
