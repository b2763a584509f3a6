------------------------------- MODULE Ledger -------------------------------
(***************************************************************************)
(* Invoices and the payments recorded against them, as the handlers of     *)
(* invoiceController/ and paymentController/ keep them in MongoDB.         *)
(*                                                                         *)
(* Node.js runs each request handler up to its next await, so a handler is *)
(* a sequence of steps, one per database operation, and the steps of       *)
(* concurrent requests interleave.  Only a single document operation is    *)
(* atomic: a handler reads an invoice, decides, writes a payment, and then *)
(* writes the invoice from what it read.  A request in flight is a record  *)
(* that holds the step it is at and the values it has read so far.         *)
(*                                                                         *)
(* A total is net of the discount, which is 0 for every invoice: the Joi   *)
(* schema of the routes accepts no discount.  Money is counted in cents.   *)
(* The responses, and a request that ends before it writes anything, leave *)
(* the state as it is and are not actions.                                 *)
(***************************************************************************)
EXTENDS Sums, FiniteSets

CONSTANTS
    Invoices,     \* identifiers of invoices
    NoInvoice,    \* the invoice of a payment that does not exist
    NPayments,    \* payments are 1..NPayments, in the order of their creation
    NSlots,       \* requests in flight have the slots 1..NSlots
    Amounts,      \* amounts a request may ask for
    Totals,       \* totals an invoice may be given
    MaxInFlight,  \* bound: requests being handled at the same time
    MaxRequests,  \* bound: requests that write, over the whole behaviour
    Failures      \* whether a database operation or the process may fail

ASSUME LedgerAssumption ==
    /\ NoInvoice \notin Invoices
    /\ NPayments \in Nat
    /\ NSlots \in Nat
    /\ Amounts \subseteq Int
    /\ Totals \subseteq Int
    /\ MaxInFlight \in Nat
    /\ MaxRequests \in Nat
    /\ Failures \in BOOLEAN

VARIABLES
    invoice,      \* the Invoice collection
    payment,      \* the Payment collection
    request,      \* the requests in flight
    accepted,     \* requests accepted so far
    flaws,        \* history: what went wrong on each invoice
    fresh         \* history: was the last paymentStatus computed from current values?

vars == <<invoice, payment, request, accepted, flaws, fresh>>

Payments == 1..NPayments
Slots == 1..NSlots
DocStates == {"absent", "live", "removed"}
Statuses == {"unpaid", "partially", "paid"}

\* The last step of the three payment handlers, the write to the invoice.
Booking == {"bookPayment", "bookAmendment", "bookRemoval"}
Steps == {"idle", "writeInvoice", "cascade", "insertPayment",
          "populateAmendment", "writeAmendment",
          "populateRemoval", "writeRemoval"} \cup Booking

\* What an interleaving or a failure can do to the books of an invoice:
\*   stale      a payment was written although it was no longer as read
\*   lost       a handler stopped between its two writes
\*   overtaken  a payment was removed before its creation reached the invoice
\*   orphan     a payment was inserted after the invoice's payments were removed
Flaws == {"stale", "lost", "overtaken", "orphan"}

InvoiceDoc == [state : DocStates, total : Int, credit : Int,
               paymentStatus : Statuses, payment : SUBSET Payments]
PaymentDoc == [state : DocStates, amount : Int, invoice : Invoices \cup {NoInvoice}]
Request == [at : Steps, inv : Invoices \cup {NoInvoice}, pay : Payments \cup {0},
            amount : Int,      \* the amount in the body
            prev : Int,        \* the amount of the payment as read
            total : Int,       \* the total of the invoice as read, or in the body
            credit : Int]      \* the credit of the invoice as read

NoRequest == [at |-> "idle", inv |-> NoInvoice, pay |-> 0, amount |-> 0,
              prev |-> 0, total |-> 0, credit |-> 0]

TypeOK ==
    /\ invoice \in [Invoices -> InvoiceDoc]
    /\ payment \in [Payments -> PaymentDoc]
    /\ request \in [Slots -> Request]
    /\ accepted \in Nat
    /\ flaws \in [Invoices -> SUBSET Flaws]
    /\ fresh \in [Invoices -> BOOLEAN]

Init ==
    /\ invoice = [i \in Invoices |-> [state |-> "absent", total |-> 0, credit |-> 0,
                                      paymentStatus |-> "unpaid", payment |-> {}]]
    /\ payment = [p \in Payments |-> [state |-> "absent", amount |-> 0,
                                      invoice |-> NoInvoice]]
    /\ request = [h \in Slots |-> NoRequest]
    /\ accepted = 0
    /\ flaws = [i \in Invoices |-> {}]
    /\ fresh = [i \in Invoices |-> TRUE]

-----------------------------------------------------------------------------
(***************************************************************************)
(* The decisions of the handlers.                                          *)
(***************************************************************************)

\* Mutant: an overpaid invoice counts as paid too.
PaymentStatusAtLeast(total, credit) ==
    IF credit >= total THEN "paid" ELSE IF credit > 0 THEN "partially" ELSE "unpaid"

\* The paymentStatus a handler writes.
PaymentStatus(total, credit) ==
    IF total = credit THEN "paid" ELSE IF credit > 0 THEN "partially" ELSE "unpaid"

\* Mutant: the status of the document is stored as its paymentStatus.
InitialStatusDraft(total) == "draft"

\* The paymentStatus of a new invoice.
InitialStatus(total) == IF total = 0 THEN "paid" ELSE "unpaid"

\* Mutant: the amount is compared with the whole total.
MaxAmountOfTotal(total, credit) == total

\* The largest increase of the credit the handlers accept.
MaxAmount(total, credit) == total - credit

\* Mutant: an amendment is booked in full, not as the change of the amount.
DeltaInFull(r) ==
    CASE r.at = "bookPayment"   -> r.amount
      [] r.at = "bookAmendment" -> r.amount
      [] r.at = "bookRemoval"   -> 0 - r.prev
      [] OTHER                  -> 0

\* What the last step of a payment handler adds to the credit ($inc).
Delta(r) ==
    CASE r.at = "bookPayment"   -> r.amount
      [] r.at = "bookAmendment" -> r.amount - r.prev
      [] r.at = "bookRemoval"   -> 0 - r.prev
      [] OTHER                  -> 0

-----------------------------------------------------------------------------
(***************************************************************************)
(* Requests: accepted into an idle slot, answered at their last step.      *)
(***************************************************************************)

InFlight == {h \in Slots : request[h].at # "idle"}

Admits ==
    /\ accepted < MaxRequests
    /\ Cardinality(InFlight) < MaxInFlight
    /\ accepted' = accepted + 1

\* Slots only name the requests in flight: the first idle one is taken.
Accept(h, r) ==
    /\ request[h].at = "idle"
    /\ \A g \in Slots : g < h => request[g].at # "idle"
    /\ Admits
    /\ request' = [request EXCEPT ![h] = r]

Proceed(h, step) ==
    /\ request' = [request EXCEPT ![h].at = step]
    /\ UNCHANGED accepted

Answer(h) ==
    /\ request' = [request EXCEPT ![h] = NoRequest]
    /\ UNCHANGED accepted

Blame(i, found) == flaws' = [flaws EXCEPT ![i] = @ \cup found]

FlawIf(condition, flaw) == IF condition THEN {flaw} ELSE {}
-----------------------------------------------------------------------------
(***************************************************************************)
(* invoiceController: create, update, remove.                              *)
(***************************************************************************)

\* The insert of the document.  The handler's second write stores the name of
\* the PDF, and its third, not awaited, counts the invoice: both are outside this
\* model.
CreateInvoice(i, total) ==
    /\ invoice[i].state = "absent"
    /\ Admits
    /\ invoice' = [invoice EXCEPT ![i] =
                     [state |-> "live", total |-> total, credit |-> 0,
                      paymentStatus |-> InitialStatus(total), payment |-> {}]]
    /\ UNCHANGED <<payment, request, flaws, fresh>>

\* update: the read.  It keeps the credit, from which the status is computed.
ReadInvoiceToUpdate(h, i, total) ==
    /\ invoice[i].state = "live"
    /\ Accept(h, [NoRequest EXCEPT !.at = "writeInvoice", !.inv = i, !.total = total,
                                   !.credit = invoice[i].credit])
    /\ UNCHANGED <<invoice, payment, flaws, fresh>>

\* update: the write, which finds nothing when the invoice was removed meanwhile.
WriteInvoice(h) ==
    LET r == request[h]
        i == r.inv
    IN  /\ r.at = "writeInvoice"
        /\ IF invoice[i].state = "live"
           THEN /\ invoice' = [invoice EXCEPT
                                 ![i].total = r.total,
                                 ![i].paymentStatus = PaymentStatus(r.total, r.credit)]
                /\ fresh' = [fresh EXCEPT ![i] = (invoice[i].credit = r.credit)]
           ELSE UNCHANGED <<invoice, fresh>>
        /\ Answer(h)
        /\ UNCHANGED <<payment, flaws>>

\* remove: the invoice is marked as removed ...
RemoveInvoice(h, i) ==
    /\ invoice[i].state = "live"
    /\ invoice' = [invoice EXCEPT ![i].state = "removed"]
    /\ Accept(h, [NoRequest EXCEPT !.at = "cascade", !.inv = i])
    /\ UNCHANGED <<payment, flaws, fresh>>

\* Mutant: the payments of the removed invoice are left alone.
CascadeNothing(i) == payment

\* The payments after those of invoice i are marked as removed.
PaymentsRemovedWith(i) ==
    [p \in Payments |-> IF payment[p].invoice = i
                        THEN [payment[p] EXCEPT !.state = "removed"]
                        ELSE payment[p]]

\* ... and then its payments are.
Cascade(h) ==
    /\ request[h].at = "cascade"
    /\ payment' = PaymentsRemovedWith(request[h].inv)
    /\ Answer(h)
    /\ UNCHANGED <<invoice, flaws, fresh>>

-----------------------------------------------------------------------------
(***************************************************************************)
(* paymentController: create, update, remove.                              *)
(***************************************************************************)

\* Mutant: the status is computed before the payment is counted.
BookedOnAsRead(doc, r, entries) ==
    [doc EXCEPT !.payment = entries,
                !.credit = @ + Delta(r),
                !.paymentStatus = PaymentStatus(r.total, r.credit)]

\* The invoice document after the last step of the three.  The credit is
\* incremented, the status is computed from the invoice as it was read.
BookedOn(doc, r, entries) ==
    [doc EXCEPT !.payment = entries,
                !.credit = @ + Delta(r),
                !.paymentStatus = PaymentStatus(r.total, r.credit + Delta(r))]

\* That step: one update of the document, with no filter on `removed`.
Book(h, entries) ==
    LET r == request[h]
        i == r.inv
    IN  /\ invoice' = [invoice EXCEPT ![i] = BookedOn(@, r, entries)]
        /\ fresh' = [fresh EXCEPT ![i] = /\ invoice[i].total = r.total
                                         /\ invoice[i].credit = r.credit]
        /\ Answer(h)
        /\ UNCHANGED <<payment, flaws>>

\* The next identifier the database hands out.
IsFresh(p) ==
    /\ payment[p].state = "absent"
    /\ \A q \in Payments : q < p => payment[q].state # "absent"

\* NPayments bounds the creations: one is accepted while there is an identifier for it.
IdentifierLeft ==
    Cardinality({h \in Slots : request[h].at = "insertPayment"})
      < Cardinality({p \in Payments : payment[p].state = "absent"})

\* create: the invoice is read and the amount checked against it.
ReadInvoiceToPay(h, i, amount) ==
    /\ amount # 0
    /\ invoice[i].state = "live"
    /\ amount <= MaxAmount(invoice[i].total, invoice[i].credit)
    /\ IdentifierLeft
    /\ Accept(h, [NoRequest EXCEPT !.at = "insertPayment", !.inv = i, !.amount = amount,
                                   !.total = invoice[i].total,
                                   !.credit = invoice[i].credit])
    /\ UNCHANGED <<invoice, payment, flaws, fresh>>

\* create: the payment is inserted, whatever became of the invoice.
InsertPayment(h, p) ==
    LET r == request[h]
        cascading == \E g \in Slots : request[g].at = "cascade" /\ request[g].inv = r.inv
    IN  /\ r.at = "insertPayment"
        /\ IsFresh(p)
        /\ payment' = [payment EXCEPT ![p] = [state |-> "live", amount |-> r.amount,
                                              invoice |-> r.inv]]
        /\ request' = [request EXCEPT ![h].at = "bookPayment", ![h].pay = p]
        /\ Blame(r.inv, FlawIf(invoice[r.inv].state = "removed" /\ ~cascading, "orphan"))
        /\ UNCHANGED <<invoice, accepted, fresh>>

BookPayment(h) ==
    /\ request[h].at = "bookPayment"
    /\ Book(h, invoice[request[h].inv].payment \cup {request[h].pay})
-----------------------------------------------------------------------------

\* update: the payment is read.
ReadPaymentToUpdate(h, p, amount) ==
    /\ amount # 0
    /\ payment[p].state = "live"
    /\ Accept(h, [NoRequest EXCEPT !.at = "populateAmendment", !.inv = payment[p].invoice,
                                   !.pay = p, !.amount = amount,
                                   !.prev = payment[p].amount])
    /\ UNCHANGED <<invoice, payment, flaws, fresh>>

\* Mutant: the invoice of the payment is not populated.
PopulatedNot(r) == r

\* The invoice of the payment as read by the autopopulate plugin, removed or not.
Populated(r) == [r EXCEPT !.total = invoice[r.inv].total, !.credit = invoice[r.inv].credit]

\* update: its invoice is read by a second query, and the change checked against it.
PopulateToUpdate(h) ==
    LET r == Populated(request[h])
    IN  /\ request[h].at = "populateAmendment"
        /\ request' = [request EXCEPT
                         ![h] = IF r.amount - r.prev <= MaxAmount(r.total, r.credit)
                                THEN [r EXCEPT !.at = "writeAmendment"]
                                ELSE NoRequest]
        /\ UNCHANGED <<invoice, payment, accepted, flaws, fresh>>

\* Mutant: the write does not ask that the payment is still there.
AmendsAny(p) == payment[p].state # "absent"

\* The filter of the write to the payment.
Amends(p) == payment[p].state = "live"

\* update: the payment is written.  When it was removed meanwhile the update
\* returns null, and reading result.invoice throws: the request ends there.
WritePayment(h) ==
    LET r == request[h]
        p == r.pay
    IN  /\ r.at = "writeAmendment"
        /\ IF Amends(p)
           THEN /\ payment' = [payment EXCEPT ![p].amount = r.amount]
                /\ Blame(r.inv, FlawIf(payment[p].amount # r.prev, "stale"))
                /\ Proceed(h, "bookAmendment")
           ELSE /\ Answer(h)
                /\ UNCHANGED <<payment, flaws>>
        /\ UNCHANGED <<invoice, fresh>>

BookAmendment(h) ==
    /\ request[h].at = "bookAmendment"
    /\ Book(h, invoice[request[h].inv].payment)
-----------------------------------------------------------------------------

\* remove: the payment is read.
ReadPaymentToRemove(h, p) ==
    /\ payment[p].state = "live"
    /\ Accept(h, [NoRequest EXCEPT !.at = "populateRemoval", !.inv = payment[p].invoice,
                                   !.pay = p, !.prev = payment[p].amount])
    /\ UNCHANGED <<invoice, payment, flaws, fresh>>

\* remove: its invoice is read by a second query.
PopulateToRemove(h) ==
    LET r == Populated(request[h])
    IN  /\ request[h].at = "populateRemoval"
        /\ request' = [request EXCEPT ![h] = [r EXCEPT !.at = "writeRemoval"]]
        /\ UNCHANGED <<invoice, payment, accepted, flaws, fresh>>

\* remove: the payment is marked as removed.  The handler goes on when the
\* update finds nothing because another request removed the payment first.
RemovePayment(h) ==
    LET r == request[h]
        p == r.pay
    IN  /\ r.at = "writeRemoval"
        /\ payment' = [payment EXCEPT ![p].state = "removed"]
        /\ Blame(r.inv, FlawIf(payment[p].state # "live" \/ payment[p].amount # r.prev, "stale")
                          \cup FlawIf(p \notin invoice[r.inv].payment, "overtaken"))
        /\ Proceed(h, "bookRemoval")
        /\ UNCHANGED <<invoice, fresh>>

\* Mutant: the removed payment stays in the list of the invoice.
BookRemovalListed(h) ==
    /\ request[h].at = "bookRemoval"
    /\ Book(h, invoice[request[h].inv].payment)

BookRemoval(h) ==
    /\ request[h].at = "bookRemoval"
    /\ Book(h, invoice[request[h].inv].payment \ {request[h].pay})
-----------------------------------------------------------------------------

\* An awaited operation is rejected (catchErrors answers 500), or the process
\* stops: nothing undoes what the handler has already written.
Fail(h) ==
    LET r == request[h]
    IN  /\ Failures
        /\ r.at # "idle"
        /\ Answer(h)
        /\ flaws' = IF r.at \in Booking \cup {"cascade"}
                    THEN [flaws EXCEPT ![r.inv] = @ \cup {"lost"}]
                    ELSE flaws
        /\ UNCHANGED <<invoice, payment, fresh>>

\* The steps of the server, once it has accepted a request.
Step(h) ==
    \/ WriteInvoice(h)
    \/ Cascade(h)
    \/ \E p \in Payments : InsertPayment(h, p)
    \/ BookPayment(h)
    \/ PopulateToUpdate(h)
    \/ WritePayment(h)
    \/ BookAmendment(h)
    \/ PopulateToRemove(h)
    \/ RemovePayment(h)
    \/ BookRemoval(h)

\* The requests of the users.
Arrival ==
    \/ \E i \in Invoices, total \in Totals : CreateInvoice(i, total)
    \/ \E h \in Slots, i \in Invoices, total \in Totals : ReadInvoiceToUpdate(h, i, total)
    \/ \E h \in Slots, i \in Invoices : RemoveInvoice(h, i)
    \/ \E h \in Slots, i \in Invoices, amount \in Amounts : ReadInvoiceToPay(h, i, amount)
    \/ \E h \in Slots, p \in Payments, amount \in Amounts : ReadPaymentToUpdate(h, p, amount)
    \/ \E h \in Slots, p \in Payments : ReadPaymentToRemove(h, p)

Next ==
    \/ Arrival
    \/ \E h \in Slots : Step(h) \/ Fail(h)

Spec == Init /\ [][Next]_vars

\* The event loop runs every handler on: a step that can be taken is taken.
FairSpec == Spec /\ \A h \in Slots : WF_vars(Step(h))

-----------------------------------------------------------------------------
(***************************************************************************)
(* Properties.                                                             *)
(***************************************************************************)

\* What payment p pays on invoice i.
Paid(i) == [p \in Payments |->
              IF payment[p].state = "live" /\ payment[p].invoice = i
              THEN payment[p].amount ELSE 0]

\* What request h still has to add to the credit of invoice i.
Owed(i) == [h \in Slots |-> IF request[h].inv = i THEN Delta(request[h]) ELSE 0]

BalancedAt(i) ==
    invoice[i].state # "removed" /\ flaws[i] \cap {"stale", "lost"} = {} =>
        invoice[i].credit + SumTo(Owed(i), NSlots) = SumTo(Paid(i), NPayments)

\* Conservation: whatever the interleaving of creations, amendments and removals
\* of payments, the credit of an invoice and what the requests in flight still owe
\* to it make up the sum of its live payments, unless a handler wrote a payment
\* that had changed since it was read, or stopped between its two writes.
\* (paymentController/create.js:40-76, update.js:58-77, remove.js:29-59)
BooksBalance == \A i \in Invoices : BalancedAt(i)

\* The paymentStatus shown for an invoice is that of its total and credit whenever
\* the last handler to write it had read the values it replaced, so that one
\* undisturbed request repairs what a race of others left behind.
\* (invoiceController/create.js:45, update.js:66-72, paymentController/create.js:58-70)
StatusIsCurrent ==
    \A i \in Invoices :
        invoice[i].state # "absent" /\ fresh[i] =>
            invoice[i].paymentStatus = PaymentStatus(invoice[i].total, invoice[i].credit)

\* The payment list of an invoice names its live payments, but for the ones whose
\* creation or removal is still to be booked, unless something went wrong on it.
\* ($push in paymentController/create.js:68, $pull in remove.js:48)
ListNamesLivePayments ==
    \A i \in Invoices :
        invoice[i].state = "live" /\ flaws[i] = {} =>
            LET live == {p \in Payments : payment[p].state = "live" /\ payment[p].invoice = i}
                at(step) == {request[h].pay : h \in {g \in Slots : request[g].at = step
                                                                    /\ request[g].inv = i}}
            IN  invoice[i].payment = (live \ at("bookPayment")) \cup at("bookRemoval")

\* A removed invoice keeps no live payment once its removal is done, unless the
\* removal stopped half-way or a payment was inserted after it.
\* (invoiceController/remove.js:7-29 against paymentController/create.js:18-40)
NoOrphanPayments ==
    \A i \in Invoices :
        /\ invoice[i].state = "removed"
        /\ flaws[i] \cap {"lost", "orphan"} = {}
        /\ \A h \in Slots : ~(request[h].at = "cascade" /\ request[h].inv = i)
        => \A p \in Payments : payment[p].invoice = i => payment[p].state # "live"

\* A removed document is never written again by a request that read it before its
\* removal, but for the credit, the payment list and the paymentStatus of an invoice,
\* which the last step of a payment handler writes.
\* (the removed: false filters of the updates: invoiceController/update.js:70,
\* paymentController/update.js:59)
RemovedStaysAsItWas ==
    [][/\ \A p \in Payments : payment[p].state = "removed" => payment'[p] = payment[p]
       /\ \A i \in Invoices : invoice[i].state = "removed" =>
            /\ invoice'[i].state = "removed"
            /\ invoice'[i].total = invoice[i].total]_vars

\* The limit told to the user ("The Max Amount you can add is ...") is kept: an
\* invoice becomes overpaid only when its total is edited.
\* (paymentController/create.js:31-37, update.js:31-38)
OverpaidOnlyByEdit ==
    [][\A i \in Invoices :
         /\ invoice[i].state # "absent"
         /\ invoice[i].credit <= invoice[i].total
         /\ invoice'[i].credit > invoice'[i].total
         => invoice'[i].total # invoice[i].total]_vars

\* Requests served one at a time, without failures, leave no flaw and no status
\* computed from outdated values: every flaw takes an overlap or a failure.
SerialIsFlawless ==
    \A i \in Invoices : flaws[i] = {} /\ fresh[i]

\* A removal that is accepted gets rid of the payments of the invoice in the end,
\* or the flaw that explains why not is on record.
RemovalReachesPayments ==
    \A i \in Invoices :
        invoice[i].state = "removed" ~>
            \/ flaws[i] \cap {"lost", "orphan"} # {}
            \/ \A p \in Payments : payment[p].invoice = i => payment[p].state # "live"
=============================================================================
