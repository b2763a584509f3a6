------------------------- MODULE LedgerSerialProofs -------------------------
(***************************************************************************)
(* Theorems about LedgerSerial, for all values of its constants: requests  *)
(* served one at a time, without failures, keep the books without a flaw,  *)
(* and do what the account book says, one step of it per handler.          *)
(***************************************************************************)
EXTENDS LedgerSerial, LedgerProofs, FiniteSetTheorems

USE LedgerAssumption, SerialAssumption

-----------------------------------------------------------------------------
(***************************************************************************)
(* What a request served alone knows: the values it has read are still     *)
(* those of the documents.                                                 *)
(***************************************************************************)

\* The values of the invoice are as r has read them.
Current(r) == /\ r.total = invoice[r.inv].total
              /\ r.credit = invoice[r.inv].credit

\* The limit allows the credit r has read to grow by delta.
Fits(r, delta) == delta <= MaxAmount(r.total, r.credit)

\* The payment is as r has read it.
AsRead(r) == /\ payment[r.pay].state = "live"
             /\ payment[r.pay].amount = r.prev

Others(h) == \A g \in Slots : g # h => request[g].at = "idle"

Alone == \A h \in Slots : request[h].at # "idle" => Others(h)

RequestInv(r) ==
    /\ r.at \notin {"idle", "cascade"} => invoice[r.inv].state = "live"
    /\ r.at = "writeInvoice" => r.credit = invoice[r.inv].credit /\ r.total \in Totals
    /\ r.at \in {"insertPayment", "writeAmendment", "writeRemoval"} \cup Booking => Current(r)
    /\ r.at \in {"insertPayment", "bookPayment"} => r.amount \in Amounts /\ Fits(r, r.amount)
    /\ r.at \in {"populateAmendment", "writeAmendment"} => AsRead(r) /\ r.amount \in Amounts
    /\ r.at \in {"writeAmendment", "bookAmendment"} => Fits(r, r.amount - r.prev)
    /\ r.at \in {"populateRemoval", "writeRemoval"} =>
         AsRead(r) /\ r.pay \in invoice[r.inv].payment
    /\ r.at \in {"populateRemoval", "writeRemoval", "bookRemoval"} => r.prev \in Amounts
    /\ r.at = "bookRemoval" => payment[r.pay].state = "removed"

\* A live payment is on the list of a live invoice, but for what the request in
\* flight still has to do about it.
PaymentInv(p) ==
    payment[p].state = "live" =>
        /\ payment[p].amount \in Amounts
        /\ \/ invoice[payment[p].invoice].state = "live"
           \/ \E h \in Slots : request[h].at = "cascade" /\ request[h].inv = payment[p].invoice
        /\ \/ p \in invoice[payment[p].invoice].payment
           \/ \E h \in Slots : request[h].at = "bookPayment" /\ request[h].pay = p

SerialInv ==
    /\ Alone
    /\ \A h \in Slots : RequestInv(request[h])
    /\ \A p \in Payments : PaymentInv(p)
    /\ SerialIsFlawless

\* A request is accepted when none is in flight.
LEMMA AdmittedAlone ==
    ASSUME Admits
    PROVE  \A g \in Slots : request[g].at = "idle"
<1>1. IsFiniteSet(Slots)
  BY FS_Interval DEF Slots
<1>2. IsFiniteSet(InFlight)
  BY <1>1, FS_Subset DEF InFlight
<1>3. Cardinality(InFlight) \in Nat /\ Cardinality(InFlight) < 1
  BY <1>2, FS_CardinalityType DEF Admits
<1>4. Cardinality(InFlight) = 0
  BY <1>3
<1>5. InFlight = {}
  BY <1>2, <1>4, FS_EmptySet
<1> QED
  BY <1>5 DEF InFlight

\* An idle request knows nothing.
LEMMA IdleInv ==
    ASSUME NEW g \in Slots, request'[g].at = "idle"
    PROVE  RequestInv(request[g])'
BY DEF RequestInv, Booking

\* A step of the only request in flight, or the acceptance of it.
LEMMA SoleStep ==
    ASSUME NEW h \in Slots, Others(h),
           \A g \in Slots : g # h => request'[g] = request[g],
           RequestInv(request[h])', \A p \in Payments : PaymentInv(p)', SerialIsFlawless'
    PROVE  SerialInv'
<1>1. \A g \in Slots : g # h => request'[g].at = "idle"
  BY DEF Others
<1>2. Alone'
  BY <1>1 DEF Alone, Others
<1>3. \A g \in Slots : RequestInv(request[g])'
  BY <1>1, IdleInv
<1> QED
  BY <1>2, <1>3 DEF SerialInv

\* The invoice of a live payment is live while no cascade is under way.
LEMMA LiveOnLive ==
    ASSUME SerialInv, NEW p \in Payments, payment[p].state = "live",
           \A g \in Slots : request[g].at # "cascade"
    PROVE  invoice[payment[p].invoice].state = "live"
BY DEF SerialInv, PaymentInv

LEMMA CreateInvoiceSerial ==
    ASSUME TypeOK, Refs, SerialInv, NEW i \in Invoices, NEW total \in Totals,
           CreateInvoice(i, total)
    PROVE  SerialInv'
<1>1. \A g \in Slots : request[g].at = "idle"
  BY AdmittedAlone DEF CreateInvoice
<1>2. request' = request /\ payment' = payment
  BY DEF CreateInvoice
<1>3. ASSUME NEW p \in Payments
      PROVE  PaymentInv(p)'
  <2>1. payment[p].state = "live" =>
          payment[p].invoice \in Invoices /\ payment[p].invoice # i
    BY DEF Refs, PaymentRefs, CreateInvoice
  <2> QED
    BY <1>2, <2>1 DEF SerialInv, PaymentInv, CreateInvoice, TypeOK
<1>4. \A h \in Slots : RequestInv(request[h])'
  BY <1>1, <1>2, IdleInv
<1>5. Alone' /\ SerialIsFlawless'
  BY <1>2 DEF CreateInvoice, SerialInv, Alone, Others, SerialIsFlawless
<1> QED
  BY <1>3, <1>4, <1>5 DEF SerialInv

LEMMA ReadInvoiceToUpdateSerial ==
    ASSUME TypeOK, Refs, SerialInv, NEW h \in Slots, NEW i \in Invoices, NEW total \in Totals,
           ReadInvoiceToUpdate(h, i, total)
    PROVE  SerialInv'
<1>1. \A g \in Slots : request[g].at = "idle"
  BY AdmittedAlone DEF ReadInvoiceToUpdate, Accept
<1>2. /\ UNCHANGED <<invoice, payment, flaws, fresh>>
      /\ request'[h].at = "writeInvoice" /\ request'[h].inv = i /\ request'[h].total = total
      /\ request'[h].credit = invoice[i].credit
      /\ \A g \in Slots : g # h => request'[g] = request[g]
  BY DEF ReadInvoiceToUpdate, Accept, TypeOK, NoRequest
<1>3. RequestInv(request[h])'
  BY <1>2 DEF ReadInvoiceToUpdate, RequestInv, Booking
<1>4. \A p \in Payments : PaymentInv(p)'
  BY <1>1, <1>2 DEF SerialInv, PaymentInv
<1>5. Others(h) /\ SerialIsFlawless'
  BY <1>1, <1>2 DEF Others, SerialInv, SerialIsFlawless
<1> QED
  BY <1>2, <1>3, <1>4, <1>5, SoleStep

LEMMA WriteInvoiceSerial ==
    ASSUME TypeOK, Refs, SerialInv, NEW h \in Slots, WriteInvoice(h)
    PROVE  SerialInv'
<1> DEFINE r == request[h]
           i == r.inv
<1>1. /\ r.at = "writeInvoice" /\ i \in Invoices /\ Others(h)
      /\ invoice[i].state = "live" /\ r.credit = invoice[i].credit
  BY DEF WriteInvoice, Refs, RequestRefs, SerialInv, Alone, RequestInv
<1>2. /\ request'[h].at = "idle" /\ \A g \in Slots : g # h => request'[g] = request[g]
      /\ payment' = payment
  BY DEF WriteInvoice, Answer, NoRequest, TypeOK
<1>3. \A j \in Invoices : /\ invoice'[j].state = invoice[j].state
                          /\ invoice'[j].payment = invoice[j].payment
  BY <1>1 DEF WriteInvoice, TypeOK, InvoiceDoc
<1>4. ASSUME NEW p \in Payments
      PROVE  PaymentInv(p)'
  <2>1. payment[p].state = "live" => payment[p].invoice \in Invoices
    BY DEF Refs, PaymentRefs
  <2>2. \A g \in Slots : request[g].at \notin {"cascade", "bookPayment"}
    BY <1>1 DEF Others
  <2> QED
    BY <1>2, <1>3, <2>1, <2>2 DEF SerialInv, PaymentInv
<1>5. SerialIsFlawless'
  BY <1>1 DEF WriteInvoice, SerialInv, SerialIsFlawless, TypeOK
<1>6. RequestInv(request[h])'
  BY <1>2, IdleInv
<1> QED
  BY <1>1, <1>2, <1>4, <1>5, <1>6, SoleStep

LEMMA RemoveInvoiceSerial ==
    ASSUME TypeOK, Refs, SerialInv, NEW h \in Slots, NEW i \in Invoices, RemoveInvoice(h, i)
    PROVE  SerialInv'
<1>1. \A g \in Slots : request[g].at = "idle"
  BY AdmittedAlone DEF RemoveInvoice, Accept
<1>2. /\ UNCHANGED <<payment, flaws, fresh>>
      /\ request'[h].at = "cascade" /\ request'[h].inv = i
      /\ \A g \in Slots : g # h => request'[g] = request[g]
  BY DEF RemoveInvoice, Accept, TypeOK, NoRequest
<1>3. \A j \in Invoices : /\ invoice'[j].state = IF j = i THEN "removed" ELSE invoice[j].state
                          /\ invoice'[j].payment = invoice[j].payment
  BY DEF RemoveInvoice, TypeOK, InvoiceDoc
<1>4. ASSUME NEW p \in Payments
      PROVE  PaymentInv(p)'
  <2>1. payment[p].state = "live" => payment[p].invoice \in Invoices
    BY DEF Refs, PaymentRefs
  <2> QED
    BY <1>1, <1>2, <1>3, <2>1 DEF SerialInv, PaymentInv
<1>5. RequestInv(request[h])'
  BY <1>2 DEF RequestInv, Booking
<1>6. Others(h) /\ SerialIsFlawless'
  BY <1>1, <1>2 DEF Others, SerialInv, SerialIsFlawless
<1> QED
  BY <1>2, <1>4, <1>5, <1>6, SoleStep

LEMMA CascadeSerial ==
    ASSUME TypeOK, Refs, SerialInv, NEW h \in Slots, Cascade(h)
    PROVE  SerialInv'
<1> DEFINE i == request[h].inv
<1>1. request[h].at = "cascade" /\ Others(h)
  BY DEF Cascade, SerialInv, Alone
<1>2. /\ request'[h].at = "idle" /\ \A g \in Slots : g # h => request'[g] = request[g]
      /\ UNCHANGED <<invoice, flaws, fresh>>
  BY DEF Cascade, Answer, NoRequest, TypeOK
<1>3. ASSUME NEW p \in Payments
      PROVE  PaymentInv(p)'
  <2>1. CASE payment[p].invoice = i
    <3>1. payment'[p].state = "removed"
      BY <2>1 DEF Cascade, PaymentsRemovedWith, TypeOK, PaymentDoc
    <3> QED
      BY <3>1 DEF PaymentInv
  <2>2. CASE payment[p].invoice # i
    <3>1. payment'[p] = payment[p]
      BY <2>2 DEF Cascade, PaymentsRemovedWith
    <3> QED
      BY <1>1, <1>2, <2>2, <3>1 DEF SerialInv, PaymentInv, Others
  <2> QED
    BY <2>1, <2>2
<1>4. RequestInv(request[h])' /\ SerialIsFlawless'
  BY <1>2, IdleInv DEF SerialInv, SerialIsFlawless
<1> QED
  BY <1>1, <1>2, <1>3, <1>4, SoleStep

LEMMA ReadInvoiceToPaySerial ==
    ASSUME TypeOK, Refs, SerialInv, NEW h \in Slots, NEW i \in Invoices, NEW amount \in Amounts,
           ReadInvoiceToPay(h, i, amount)
    PROVE  SerialInv'
<1>1. \A g \in Slots : request[g].at = "idle"
  BY AdmittedAlone DEF ReadInvoiceToPay, Accept
<1>2. /\ UNCHANGED <<invoice, payment, flaws, fresh>>
      /\ request'[h].at = "insertPayment" /\ request'[h].inv = i /\ request'[h].amount = amount
      /\ request'[h].total = invoice[i].total /\ request'[h].credit = invoice[i].credit
      /\ \A g \in Slots : g # h => request'[g] = request[g]
  BY DEF ReadInvoiceToPay, Accept, TypeOK, NoRequest
<1>3. RequestInv(request[h])'
  BY <1>2 DEF ReadInvoiceToPay, RequestInv, Booking, Current, Fits
<1>4. \A p \in Payments : PaymentInv(p)'
  BY <1>1, <1>2 DEF SerialInv, PaymentInv
<1>5. Others(h) /\ SerialIsFlawless'
  BY <1>1, <1>2 DEF Others, SerialInv, SerialIsFlawless
<1> QED
  BY <1>2, <1>3, <1>4, <1>5, SoleStep

LEMMA InsertPaymentSerial ==
    ASSUME TypeOK, Refs, SerialInv, NEW h \in Slots, NEW p \in Payments, InsertPayment(h, p)
    PROVE  SerialInv'
<1> DEFINE r == request[h]
<1>1. /\ r \in Request /\ r.at = "insertPayment" /\ r.inv \in Invoices /\ Others(h)
      /\ invoice[r.inv].state = "live" /\ Current(r) /\ r.amount \in Amounts
      /\ Fits(r, r.amount)
  BY DEF InsertPayment, TypeOK, Refs, RequestRefs, SerialInv, Alone, RequestInv
<1>2. /\ request'[h].at = "bookPayment" /\ request'[h].inv = r.inv /\ request'[h].pay = p
      /\ request'[h].amount = r.amount /\ request'[h].total = r.total
      /\ request'[h].credit = r.credit
      /\ \A g \in Slots : g # h => request'[g] = request[g]
  BY <1>1 DEF InsertPayment, TypeOK, Request
<1>3. /\ payment'[p] = [state |-> "live", amount |-> r.amount, invoice |-> r.inv]
      /\ \A q \in Payments : q # p => payment'[q] = payment[q]
      /\ UNCHANGED <<invoice, fresh>>
  BY DEF InsertPayment, TypeOK
<1>4. RequestInv(request[h])'
  BY <1>1, <1>2, <1>3 DEF RequestInv, Booking, Current, Fits
<1>5. ASSUME NEW q \in Payments
      PROVE  PaymentInv(q)'
  <2>1. CASE q = p
    BY <1>1, <1>2, <1>3, <2>1 DEF PaymentInv
  <2>2. CASE q # p
    <3>1. \A g \in Slots : request[g].at \notin {"cascade", "bookPayment"}
      BY <1>1 DEF Others
    <3> QED
      BY <1>3, <2>2, <3>1 DEF PaymentInv, SerialInv
  <2> QED
    BY <2>1, <2>2
<1>6. flaws' = flaws
  <2>1. FlawIf(invoice[r.inv].state = "removed"
                 /\ ~\E g \in Slots : request[g].at = "cascade" /\ request[g].inv = r.inv,
               "orphan") = {}
    BY <1>1 DEF FlawIf
  <2> QED
    BY <1>1, <2>1 DEF InsertPayment, Blame, TypeOK
<1>7. SerialIsFlawless'
  BY <1>3, <1>6 DEF SerialInv, SerialIsFlawless
<1> QED
  BY <1>1, <1>2, <1>4, <1>5, <1>7, SoleStep

LEMMA ReadPaymentToUpdateSerial ==
    ASSUME TypeOK, Refs, SerialInv, NEW h \in Slots, NEW p \in Payments, NEW amount \in Amounts,
           ReadPaymentToUpdate(h, p, amount)
    PROVE  SerialInv'
<1>1. \A g \in Slots : request[g].at = "idle"
  BY AdmittedAlone DEF ReadPaymentToUpdate, Accept
<1>2. /\ UNCHANGED <<invoice, payment, flaws, fresh>> /\ payment[p].state = "live"
      /\ request'[h].at = "populateAmendment" /\ request'[h].inv = payment[p].invoice
      /\ request'[h].pay = p /\ request'[h].amount = amount
      /\ request'[h].prev = payment[p].amount
      /\ \A g \in Slots : g # h => request'[g] = request[g]
  BY DEF ReadPaymentToUpdate, Accept, TypeOK, NoRequest
<1>3. invoice[payment[p].invoice].state = "live"
  BY <1>1, <1>2, LiveOnLive
<1>4. RequestInv(request[h])'
  BY <1>2, <1>3 DEF RequestInv, Booking, AsRead
<1>5. \A q \in Payments : PaymentInv(q)'
  BY <1>1, <1>2 DEF SerialInv, PaymentInv
<1>6. Others(h) /\ SerialIsFlawless'
  BY <1>1, <1>2 DEF Others, SerialInv, SerialIsFlawless
<1> QED
  BY <1>2, <1>4, <1>5, <1>6, SoleStep

LEMMA ReadPaymentToRemoveSerial ==
    ASSUME TypeOK, Refs, SerialInv, NEW h \in Slots, NEW p \in Payments,
           ReadPaymentToRemove(h, p)
    PROVE  SerialInv'
<1>1. \A g \in Slots : request[g].at = "idle"
  BY AdmittedAlone DEF ReadPaymentToRemove, Accept
<1>2. /\ UNCHANGED <<invoice, payment, flaws, fresh>> /\ payment[p].state = "live"
      /\ request'[h].at = "populateRemoval" /\ request'[h].inv = payment[p].invoice
      /\ request'[h].pay = p /\ request'[h].prev = payment[p].amount
      /\ \A g \in Slots : g # h => request'[g] = request[g]
  BY DEF ReadPaymentToRemove, Accept, TypeOK, NoRequest
<1>3. /\ invoice[payment[p].invoice].state = "live"
      /\ p \in invoice[payment[p].invoice].payment
      /\ payment[p].amount \in Amounts
  BY <1>1, <1>2, LiveOnLive DEF SerialInv, PaymentInv
<1>4. RequestInv(request[h])'
  BY <1>2, <1>3 DEF RequestInv, Booking, AsRead
<1>5. \A q \in Payments : PaymentInv(q)'
  BY <1>1, <1>2 DEF SerialInv, PaymentInv
<1>6. Others(h) /\ SerialIsFlawless'
  BY <1>1, <1>2 DEF Others, SerialInv, SerialIsFlawless
<1> QED
  BY <1>2, <1>4, <1>5, <1>6, SoleStep

\* The payments are as they were, and no creation or cascade was under way.
LEMMA PaymentsSame ==
    ASSUME SerialInv, UNCHANGED <<invoice, payment>>,
           \A g \in Slots : request[g].at \notin {"cascade", "bookPayment"}
    PROVE  \A p \in Payments : PaymentInv(p)'
BY DEF SerialInv, PaymentInv

LEMMA PopulateToUpdateSerial ==
    ASSUME TypeOK, Refs, SerialInv, NEW h \in Slots, PopulateToUpdate(h)
    PROVE  SerialInv'
<1> DEFINE old == request[h]
           r == Populated(old)
           s == [r EXCEPT !.at = "writeAmendment"]
           fits == r.amount - r.prev <= MaxAmount(r.total, r.credit)
<1>1. /\ old.at = "populateAmendment" /\ old.inv \in Invoices /\ Others(h)
      /\ invoice[old.inv].state = "live" /\ AsRead(old) /\ old.amount \in Amounts
  BY DEF PopulateToUpdate, Refs, RequestRefs, SerialInv, Alone, RequestInv
<1>2. /\ r \in Request /\ r.inv = old.inv /\ r.pay = old.pay /\ r.amount = old.amount
      /\ r.prev = old.prev /\ r.total = invoice[old.inv].total
      /\ r.credit = invoice[old.inv].credit
  BY <1>1, PopulatedFields
<1>3. /\ request' = [request EXCEPT ![h] = IF fits THEN s ELSE NoRequest]
      /\ UNCHANGED <<invoice, payment, accepted, flaws, fresh>>
  BY DEF PopulateToUpdate
<1> HIDE DEF r
<1>4. /\ s.at = "writeAmendment" /\ s.inv = old.inv /\ s.pay = old.pay
      /\ s.amount = old.amount /\ s.prev = old.prev /\ s.total = invoice[old.inv].total
      /\ s.credit = invoice[old.inv].credit
  BY <1>2 DEF Request
<1>5. fits => s.amount - s.prev <= MaxAmount(s.total, s.credit)
  BY <1>2, <1>4
<1> HIDE DEF s, fits
<1>6. /\ request'[h] = IF fits THEN s ELSE NoRequest
      /\ \A g \in Slots : g # h => request'[g] = request[g]
  BY <1>3 DEF TypeOK
<1>7. RequestInv(request[h])'
  <2>1. CASE fits
    BY <1>1, <1>3, <1>4, <1>5, <1>6, <2>1 DEF RequestInv, Booking, Current, Fits, AsRead
  <2>2. CASE ~fits
    BY <1>6, <2>2, IdleInv DEF NoRequest
  <2> QED
    BY <2>1, <2>2
<1>8. \A p \in Payments : PaymentInv(p)'
  BY <1>1, <1>3, PaymentsSame DEF Others
<1>9. SerialIsFlawless'
  BY <1>3 DEF SerialInv, SerialIsFlawless
<1> QED
  BY <1>1, <1>6, <1>7, <1>8, <1>9, SoleStep

LEMMA PopulateToRemoveSerial ==
    ASSUME TypeOK, Refs, SerialInv, NEW h \in Slots, PopulateToRemove(h)
    PROVE  SerialInv'
<1> DEFINE old == request[h]
           r == Populated(old)
           s == [r EXCEPT !.at = "writeRemoval"]
<1>1. /\ old.at = "populateRemoval" /\ old.inv \in Invoices /\ Others(h)
      /\ invoice[old.inv].state = "live" /\ AsRead(old) /\ old.prev \in Amounts
      /\ old.pay \in invoice[old.inv].payment
  BY DEF PopulateToRemove, Refs, RequestRefs, SerialInv, Alone, RequestInv
<1>2. /\ r \in Request /\ r.inv = old.inv /\ r.pay = old.pay
      /\ r.prev = old.prev /\ r.total = invoice[old.inv].total
      /\ r.credit = invoice[old.inv].credit
  BY <1>1, PopulatedFields
<1>3. /\ request' = [request EXCEPT ![h] = s]
      /\ UNCHANGED <<invoice, payment, accepted, flaws, fresh>>
  BY DEF PopulateToRemove
<1> HIDE DEF r
<1>4. /\ s.at = "writeRemoval" /\ s.inv = old.inv /\ s.pay = old.pay
      /\ s.prev = old.prev /\ s.total = invoice[old.inv].total
      /\ s.credit = invoice[old.inv].credit
  BY <1>2 DEF Request
<1> HIDE DEF s
<1>5. /\ request'[h] = s
      /\ \A g \in Slots : g # h => request'[g] = request[g]
  BY <1>3 DEF TypeOK
<1>6. RequestInv(request[h])'
  BY <1>1, <1>3, <1>4, <1>5 DEF RequestInv, Booking, Current, AsRead
<1>7. \A p \in Payments : PaymentInv(p)'
  BY <1>1, <1>3, PaymentsSame DEF Others
<1>8. SerialIsFlawless'
  BY <1>3 DEF SerialInv, SerialIsFlawless
<1> QED
  BY <1>1, <1>5, <1>6, <1>7, <1>8, SoleStep

\* The write of an amendment finds the payment as it was read.
LEMMA AmendmentWritten ==
    ASSUME TypeOK, Refs, SerialInv, NEW h \in Slots, WritePayment(h)
    PROVE  LET r == request[h] IN
           /\ r \in Request /\ r.at = "writeAmendment" /\ r.inv \in Invoices /\ Others(h)
           /\ r.pay \in Payments /\ payment[r.pay].invoice = r.inv /\ r.amount \in Amounts
           /\ invoice[r.inv].state = "live" /\ Current(r) /\ AsRead(r)
           /\ Fits(r, r.amount - r.prev)
           /\ request'[h] = [r EXCEPT !.at = "bookAmendment"]
           /\ \A g \in Slots : g # h => request'[g] = request[g]
           /\ payment'[r.pay] = [payment[r.pay] EXCEPT !.amount = r.amount]
           /\ \A q \in Payments : q # r.pay => payment'[q] = payment[q]
           /\ UNCHANGED <<invoice, flaws, fresh>>
<1> DEFINE r == request[h]
<1>1. /\ r \in Request /\ r.at = "writeAmendment" /\ r.inv \in Invoices /\ Others(h)
      /\ r.pay \in Payments /\ payment[r.pay].invoice = r.inv /\ r.amount \in Amounts
      /\ invoice[r.inv].state = "live" /\ Current(r) /\ AsRead(r)
      /\ Fits(r, r.amount - r.prev)
  BY DEF WritePayment, TypeOK, Refs, RequestRefs, OnPayment, SerialInv, Alone, RequestInv
<1>2. Amends(r.pay) /\ FlawIf(payment[r.pay].amount # r.prev, "stale") = {}
  BY <1>1 DEF Amends, AsRead, FlawIf
<1>3. flaws' = flaws
  <2>1. Blame(r.inv, FlawIf(payment[r.pay].amount # r.prev, "stale"))
    BY <1>2 DEF WritePayment
  <2> QED
    BY <1>1, <1>2, <2>1 DEF Blame, TypeOK
<1>4. /\ request' = [request EXCEPT ![h].at = "bookAmendment"]
      /\ payment' = [payment EXCEPT ![r.pay].amount = r.amount]
      /\ UNCHANGED <<invoice, fresh>>
  BY <1>2 DEF WritePayment, Proceed
<1>5. /\ request'[h] = [r EXCEPT !.at = "bookAmendment"]
      /\ \A g \in Slots : g # h => request'[g] = request[g]
      /\ payment'[r.pay] = [payment[r.pay] EXCEPT !.amount = r.amount]
      /\ \A q \in Payments : q # r.pay => payment'[q] = payment[q]
  BY <1>1, <1>4 DEF TypeOK
<1> QED
  BY <1>1, <1>3, <1>4, <1>5

LEMMA WritePaymentSerial ==
    ASSUME TypeOK, Refs, SerialInv, NEW h \in Slots, WritePayment(h)
    PROVE  SerialInv'
<1> DEFINE r == request[h]
<1>1. /\ r \in Request /\ r.at = "writeAmendment" /\ Others(h) /\ r.amount \in Amounts
      /\ r.pay \in Payments /\ payment[r.pay] \in PaymentDoc
      /\ invoice[r.inv].state = "live" /\ Current(r) /\ AsRead(r)
      /\ Fits(r, r.amount - r.prev)
  BY AmendmentWritten DEF TypeOK
<1>2. /\ request'[h] = [r EXCEPT !.at = "bookAmendment"]
      /\ \A g \in Slots : g # h => request'[g] = request[g]
      /\ payment'[r.pay] = [payment[r.pay] EXCEPT !.amount = r.amount]
      /\ \A q \in Payments : q # r.pay => payment'[q] = payment[q]
      /\ UNCHANGED <<invoice, flaws, fresh>>
  BY AmendmentWritten
<1>3. /\ request'[h].at = "bookAmendment" /\ request'[h].inv = r.inv
      /\ request'[h].amount = r.amount /\ request'[h].prev = r.prev
      /\ request'[h].total = r.total /\ request'[h].credit = r.credit
      /\ payment'[r.pay].state = payment[r.pay].state /\ payment'[r.pay].amount = r.amount
      /\ payment'[r.pay].invoice = payment[r.pay].invoice
  BY <1>1, <1>2 DEF Request, PaymentDoc
<1>4. RequestInv(request[h])'
  BY <1>1, <1>2, <1>3 DEF RequestInv, Booking, Current, Fits
<1>5. ASSUME NEW q \in Payments
      PROVE  PaymentInv(q)'
  <2>1. \A g \in Slots : request[g].at \notin {"cascade", "bookPayment"}
    BY <1>1 DEF Others
  <2>2. PaymentInv(q)
    BY DEF SerialInv
  <2>3. CASE q = r.pay
    BY <1>1, <1>2, <1>3, <2>1, <2>2, <2>3 DEF PaymentInv, AsRead
  <2>4. CASE q # r.pay
    BY <1>2, <2>1, <2>2, <2>4 DEF PaymentInv
  <2> QED
    BY <2>3, <2>4
<1>6. SerialIsFlawless'
  BY <1>2 DEF SerialInv, SerialIsFlawless
<1> QED
  BY <1>1, <1>2, <1>4, <1>5, <1>6, SoleStep

\* So does the write of a removal.
LEMMA RemovalWritten ==
    ASSUME TypeOK, Refs, SerialInv, NEW h \in Slots, RemovePayment(h)
    PROVE  LET r == request[h] IN
           /\ r \in Request /\ r.at = "writeRemoval" /\ r.inv \in Invoices /\ Others(h)
           /\ r.pay \in Payments /\ payment[r.pay].invoice = r.inv /\ r.prev \in Amounts
           /\ invoice[r.inv].state = "live" /\ Current(r) /\ AsRead(r)
           /\ request'[h] = [r EXCEPT !.at = "bookRemoval"]
           /\ \A g \in Slots : g # h => request'[g] = request[g]
           /\ payment'[r.pay] = [payment[r.pay] EXCEPT !.state = "removed"]
           /\ \A q \in Payments : q # r.pay => payment'[q] = payment[q]
           /\ UNCHANGED <<invoice, flaws, fresh>>
<1> DEFINE r == request[h]
<1>1. /\ r \in Request /\ r.at = "writeRemoval" /\ r.inv \in Invoices /\ Others(h)
      /\ r.pay \in Payments /\ payment[r.pay].invoice = r.inv /\ r.prev \in Amounts
      /\ invoice[r.inv].state = "live" /\ Current(r) /\ AsRead(r)
      /\ r.pay \in invoice[r.inv].payment
  BY DEF RemovePayment, TypeOK, Refs, RequestRefs, OnPayment, SerialInv, Alone, RequestInv
<1>2. /\ FlawIf(payment[r.pay].state # "live" \/ payment[r.pay].amount # r.prev, "stale") = {}
      /\ FlawIf(r.pay \notin invoice[r.inv].payment, "overtaken") = {}
  BY <1>1 DEF AsRead, FlawIf
<1>3. flaws' = flaws
  BY <1>1, <1>2 DEF RemovePayment, Blame, TypeOK
<1>4. /\ request' = [request EXCEPT ![h].at = "bookRemoval"]
      /\ payment' = [payment EXCEPT ![r.pay].state = "removed"]
      /\ UNCHANGED <<invoice, fresh>>
  BY DEF RemovePayment, Proceed
<1>5. /\ request'[h] = [r EXCEPT !.at = "bookRemoval"]
      /\ \A g \in Slots : g # h => request'[g] = request[g]
      /\ payment'[r.pay] = [payment[r.pay] EXCEPT !.state = "removed"]
      /\ \A q \in Payments : q # r.pay => payment'[q] = payment[q]
  BY <1>1, <1>4 DEF TypeOK
<1> QED
  BY <1>1, <1>3, <1>4, <1>5

LEMMA RemovePaymentSerial ==
    ASSUME TypeOK, Refs, SerialInv, NEW h \in Slots, RemovePayment(h)
    PROVE  SerialInv'
<1> DEFINE r == request[h]
<1>1. /\ r \in Request /\ r.at = "writeRemoval" /\ Others(h) /\ r.prev \in Amounts
      /\ r.pay \in Payments /\ payment[r.pay] \in PaymentDoc
      /\ invoice[r.inv].state = "live" /\ Current(r)
  BY RemovalWritten DEF TypeOK
<1>2. /\ request'[h] = [r EXCEPT !.at = "bookRemoval"]
      /\ \A g \in Slots : g # h => request'[g] = request[g]
      /\ payment'[r.pay] = [payment[r.pay] EXCEPT !.state = "removed"]
      /\ \A q \in Payments : q # r.pay => payment'[q] = payment[q]
      /\ UNCHANGED <<invoice, flaws, fresh>>
  BY RemovalWritten
<1>3. /\ request'[h].at = "bookRemoval" /\ request'[h].inv = r.inv
      /\ request'[h].prev = r.prev /\ request'[h].pay = r.pay
      /\ request'[h].total = r.total /\ request'[h].credit = r.credit
      /\ payment'[r.pay].state = "removed"
  BY <1>1, <1>2 DEF Request, PaymentDoc
<1>4. RequestInv(request[h])'
  BY <1>1, <1>2, <1>3 DEF RequestInv, Booking, Current
<1>5. ASSUME NEW q \in Payments
      PROVE  PaymentInv(q)'
  <2>1. \A g \in Slots : request[g].at \notin {"cascade", "bookPayment"}
    BY <1>1 DEF Others
  <2>2. PaymentInv(q)
    BY DEF SerialInv
  <2>3. CASE q = r.pay
    BY <1>1, <1>2, <1>3, <2>1, <2>2, <2>3 DEF PaymentInv, AsRead
  <2>4. CASE q # r.pay
    BY <1>2, <2>1, <2>2, <2>4 DEF PaymentInv
  <2> QED
    BY <2>3, <2>4
<1>6. SerialIsFlawless'
  BY <1>2 DEF SerialInv, SerialIsFlawless
<1> QED
  BY <1>1, <1>2, <1>4, <1>5, <1>6, SoleStep

\* The last step of a payment handler finds the invoice as it was read.
LEMMA BookingDone ==
    ASSUME TypeOK, Refs, SerialInv, NEW h \in Slots, NEW entries \in SUBSET Payments,
           request[h].at \in Booking, Book(h, entries)
    PROVE  LET r == request[h]
               doc == invoice[r.inv]
               new == invoice'[r.inv]
           IN  /\ r \in Request /\ r.inv \in Invoices /\ Others(h)
               /\ doc.state = "live" /\ Current(r)
               /\ new.state = doc.state /\ new.total = doc.total
               /\ new.credit = doc.credit + Delta(r) /\ new.payment = entries
               /\ new.paymentStatus = PaymentStatus(doc.total, doc.credit + Delta(r))
               /\ \A j \in Invoices : j # r.inv => invoice'[j] = invoice[j]
               /\ request'[h].at = "idle"
               /\ \A g \in Slots : g # h => request'[g] = request[g]
               /\ SerialIsFlawless'
               /\ UNCHANGED payment
<1> DEFINE r == request[h]
           doc == invoice[r.inv]
<1>1. /\ r \in Request /\ r.inv \in Invoices /\ Others(h)
      /\ doc \in InvoiceDoc /\ doc.state = "live" /\ Current(r)
  BY DEF TypeOK, Refs, RequestRefs, SerialInv, Alone, RequestInv, Booking
<1>2. invoice' = [invoice EXCEPT ![r.inv] = BookedOn(doc, r, entries)]
  BY DEF Book
<1>3. /\ invoice'[r.inv] = BookedOn(doc, r, entries)
      /\ \A j \in Invoices : j # r.inv => invoice'[j] = invoice[j]
  BY <1>1, <1>2 DEF TypeOK
<1>4. /\ invoice'[r.inv].state = doc.state /\ invoice'[r.inv].total = doc.total
      /\ invoice'[r.inv].credit = doc.credit + Delta(r) /\ invoice'[r.inv].payment = entries
      /\ invoice'[r.inv].paymentStatus = PaymentStatus(r.total, r.credit + Delta(r))
  BY <1>1, <1>3, BookedOnFields
<1>5. r.total = doc.total /\ r.credit = doc.credit
  BY <1>1 DEF Current
<1>6. /\ request'[h].at = "idle" /\ \A g \in Slots : g # h => request'[g] = request[g]
      /\ UNCHANGED payment
  BY DEF Book, Answer, NoRequest, TypeOK
<1>7. SerialIsFlawless'
  BY <1>1, <1>5 DEF Book, SerialInv, SerialIsFlawless, TypeOK
<1> QED
  BY <1>1, <1>3, <1>4, <1>5, <1>6, <1>7

\* Which payments it leaves on the list.
LEMMA BookingEntries ==
    ASSUME TypeOK, Refs, NEW h \in Slots,
           BookPayment(h) \/ BookAmendment(h) \/ BookRemoval(h)
    PROVE  /\ request[h].at \in Booking /\ request[h].pay \in Payments
           /\ request[h].inv \in Invoices
           /\ \E entries \in SUBSET Payments :
                /\ Book(h, entries)
                /\ entries =
                     CASE request[h].at = "bookPayment" ->
                            invoice[request[h].inv].payment \cup {request[h].pay}
                       [] request[h].at = "bookAmendment" ->
                            invoice[request[h].inv].payment
                       [] request[h].at = "bookRemoval" ->
                            invoice[request[h].inv].payment \ {request[h].pay}
<1>1. /\ request[h].at \in Booking /\ request[h].pay \in Payments /\ request[h].inv \in Invoices
      /\ invoice[request[h].inv].payment \in SUBSET Payments
  BY DEF BookPayment, BookAmendment, BookRemoval, Booking, TypeOK, InvoiceDoc, Refs,
         RequestRefs, OnPayment
<1> QED
  BY <1>1 DEF BookPayment, BookAmendment, BookRemoval

LEMMA BookSerial ==
    ASSUME TypeOK, Refs, SerialInv, NEW h \in Slots,
           BookPayment(h) \/ BookAmendment(h) \/ BookRemoval(h)
    PROVE  SerialInv'
<1> DEFINE r == request[h]
           list == invoice[r.inv].payment
<1>1. r.at \in Booking /\ r.pay \in Payments
  BY BookingEntries
<1>2. PICK entries \in SUBSET Payments :
         /\ Book(h, entries)
         /\ entries = CASE r.at = "bookPayment" -> list \cup {r.pay}
                        [] r.at = "bookAmendment" -> list
                        [] r.at = "bookRemoval" -> list \ {r.pay}
  BY BookingEntries
<1>3. /\ Others(h) /\ r.inv \in Invoices
      /\ invoice'[r.inv].state = invoice[r.inv].state /\ invoice'[r.inv].payment = entries
      /\ \A j \in Invoices : j # r.inv => invoice'[j] = invoice[j]
      /\ request'[h].at = "idle"
      /\ \A g \in Slots : g # h => request'[g] = request[g]
      /\ SerialIsFlawless' /\ UNCHANGED payment
  BY <1>1, <1>2, BookingDone
<1>4. ASSUME NEW q \in Payments
      PROVE  PaymentInv(q)'
  <2>1. SUFFICES ASSUME payment[q].state = "live"
                 PROVE  PaymentInv(q)'
    BY <1>3 DEF PaymentInv
  <2>2. payment[q].invoice \in Invoices /\ payment[q].amount \in Amounts
    BY <2>1 DEF Refs, PaymentRefs, SerialInv, PaymentInv
  <2>3. \A g \in Slots : request[g].at # "cascade"
    BY <1>1, <1>3 DEF Others, Booking
  <2>4. invoice'[payment[q].invoice].state = "live"
    BY <1>3, <2>1, <2>2, <2>3, LiveOnLive
  <2>5. q \in invoice'[payment[q].invoice].payment
    <3>1. q \in invoice[payment[q].invoice].payment \/ (r.at = "bookPayment" /\ r.pay = q)
      BY <1>1, <1>3, <2>1 DEF SerialInv, PaymentInv, Others
    <3>2. r.pay = q => payment[q].invoice = r.inv
      BY <1>1 DEF Refs, RequestRefs, OnPayment
    <3>3. r.at = "bookRemoval" => r.pay # q
      BY <2>1 DEF SerialInv, RequestInv
    <3> QED
      BY <1>1, <1>2, <1>3, <2>2, <3>1, <3>2, <3>3 DEF Booking
  <2> QED
    BY <1>3, <2>2, <2>4, <2>5 DEF PaymentInv
<1>5. RequestInv(request[h])'
  BY <1>3, IdleInv
<1> QED
  BY <1>3, <1>4, <1>5, SoleStep

LEMMA InitSerial == Init => SerialInv
BY DEF Init, NoRequest, SerialInv, Alone, Others, RequestInv, Booking, PaymentInv,
       SerialIsFlawless

LEMMA NextSerial == TypeOK /\ Refs /\ SerialInv /\ [Next]_vars => SerialInv'
<1> SUFFICES ASSUME TypeOK, Refs, SerialInv, [Next]_vars PROVE SerialInv'
  OBVIOUS
<1>1. CASE Arrival
  BY <1>1, CreateInvoiceSerial, ReadInvoiceToUpdateSerial, RemoveInvoiceSerial,
     ReadInvoiceToPaySerial, ReadPaymentToUpdateSerial, ReadPaymentToRemoveSerial DEF Arrival
<1>2. ASSUME NEW h \in Slots, Step(h)
      PROVE  SerialInv'
  BY <1>2, WriteInvoiceSerial, CascadeSerial, InsertPaymentSerial, PopulateToUpdateSerial,
     WritePaymentSerial, PopulateToRemoveSerial, RemovePaymentSerial, BookSerial DEF Step
<1>3. ASSUME NEW h \in Slots, Fail(h)
      PROVE  FALSE
  BY <1>3 DEF Fail
<1>4. CASE UNCHANGED vars
  BY <1>4 DEF vars, SerialInv, Alone, Others, RequestInv, Current, AsRead, PaymentInv,
              SerialIsFlawless
<1> QED
  BY <1>1, <1>2, <1>3, <1>4 DEF Next

SerialIInv == TypeOK /\ Refs /\ SerialInv

LEMMA SerialInvariant == Spec => []SerialIInv
<1>1. Init => SerialIInv
  BY InitRefs, InitSerial DEF SerialIInv
<1>2. SerialIInv /\ [Next]_vars => SerialIInv'
  BY NextRefs, NextSerial DEF SerialIInv
<1> QED
  BY <1>1, <1>2, PTL DEF Spec

\* Requests served one at a time, without failures, leave no flaw on any invoice and
\* no paymentStatus computed from outdated values, for every number of invoices,
\* payments and requests: every flaw takes an overlap of two handlers or a failure.
\* (invoiceController/update.js:10-81, paymentController/create.js:8-83,
\* update.js:9-84, remove.js:6-66)
THEOREM SerialFlawless == Spec => []SerialIsFlawless
<1>1. SerialIInv => SerialIsFlawless
  BY DEF SerialIInv, SerialInv
<1> QED
  BY <1>1, SerialInvariant, PTL

-----------------------------------------------------------------------------
(***************************************************************************)
(* The limit: a step that moves the credit of an invoice past its total    *)
(* has changed the total.  Only a booking adds to a credit; what it adds   *)
(* fits, or is the removal of an amount that is not negative.              *)
(***************************************************************************)

\* The step changes the credit of no invoice that exists.
CreditsKept ==
    \A i \in Invoices : invoice[i].state # "absent" => invoice'[i].credit = invoice[i].credit

LEMMA BookingFits ==
    ASSUME TypeOK, Refs, SerialInv, Amounts \subseteq Nat, NEW h \in Slots,
           BookPayment(h) \/ BookAmendment(h) \/ BookRemoval(h),
           NEW i \in Invoices, invoice[i].credit <= invoice[i].total
    PROVE  invoice'[i].credit <= invoice'[i].total
<1> DEFINE r == request[h]
<1>1. r.at \in Booking
  BY BookingEntries
<1>2. PICK entries \in SUBSET Payments : Book(h, entries)
  BY BookingEntries
<1>3. /\ r \in Request /\ r.inv \in Invoices /\ Current(r)
      /\ invoice'[r.inv].total = invoice[r.inv].total
      /\ invoice'[r.inv].credit = invoice[r.inv].credit + Delta(r)
      /\ \A j \in Invoices : j # r.inv => invoice'[j] = invoice[j]
  BY <1>1, <1>2, BookingDone
<1>4. /\ invoice[r.inv].total \in Int /\ invoice[r.inv].credit \in Int
      /\ r.amount \in Int /\ r.prev \in Int
  BY <1>3 DEF TypeOK, InvoiceDoc, Request
<1>5. RequestInv(r)
  BY DEF SerialInv
<1>6. CASE r.at = "bookPayment"
  <2>1. Delta(r) = r.amount /\ r.amount <= invoice[r.inv].total - invoice[r.inv].credit
    BY <1>3, <1>5, <1>6, DeltaCases DEF RequestInv, Fits, MaxAmount, Current
  <2> QED
    BY <1>3, <1>4, <2>1
<1>7. CASE r.at = "bookAmendment"
  <2>1. /\ Delta(r) = r.amount - r.prev
        /\ r.amount - r.prev <= invoice[r.inv].total - invoice[r.inv].credit
    BY <1>3, <1>5, <1>7, DeltaCases DEF RequestInv, Fits, MaxAmount, Current
  <2> QED
    BY <1>3, <1>4, <2>1
<1>8. CASE r.at = "bookRemoval"
  <2>1. Delta(r) = 0 - r.prev /\ r.prev \in Nat
    BY <1>3, <1>5, <1>8, DeltaCases DEF RequestInv
  <2> QED
    BY <1>3, <1>4, <2>1
<1> QED
  BY <1>1, <1>6, <1>7, <1>8 DEF Booking

LEMMA OtherStepsKeepCredits ==
    ASSUME TypeOK, Refs, [Next]_vars,
           \A h \in Slots : ~(BookPayment(h) \/ BookAmendment(h) \/ BookRemoval(h))
    PROVE  CreditsKept
<1>1. CASE Arrival
  <2>1. ASSUME NEW i \in Invoices, NEW total \in Totals, CreateInvoice(i, total)
        PROVE  CreditsKept
    BY <2>1 DEF CreateInvoice, CreditsKept, TypeOK
  <2>2. ASSUME NEW h \in Slots, NEW i \in Invoices, RemoveInvoice(h, i)
        PROVE  CreditsKept
    BY <2>2 DEF RemoveInvoice, CreditsKept, TypeOK, InvoiceDoc
  <2>3. CASE invoice' = invoice
    BY <2>3 DEF CreditsKept
  <2> QED
    BY <1>1, <2>1, <2>2, <2>3
       DEF Arrival, ReadInvoiceToUpdate, ReadInvoiceToPay, ReadPaymentToUpdate,
           ReadPaymentToRemove
<1>2. ASSUME NEW h \in Slots, WriteInvoice(h)
      PROVE  CreditsKept
  <2>1. request[h].inv \in Invoices
    BY <1>2 DEF WriteInvoice, Refs, RequestRefs
  <2> QED
    BY <1>2, <2>1 DEF WriteInvoice, CreditsKept, TypeOK, InvoiceDoc
<1>3. ASSUME NEW h \in Slots, Step(h) \/ Fail(h), ~WriteInvoice(h)
      PROVE  CreditsKept
  BY <1>3 DEF Step, Fail, Cascade, InsertPayment, PopulateToUpdate, WritePayment,
              PopulateToRemove, RemovePayment, CreditsKept
<1>4. CASE UNCHANGED vars
  BY <1>4 DEF vars, CreditsKept
<1> QED
  BY <1>1, <1>2, <1>3, <1>4 DEF Next

\* Served one at a time, the payment handlers keep the limit they tell the user when
\* no amount is negative, as in the form (PaymentForm.jsx:47): an invoice becomes
\* overpaid only by a change of its total.  The handlers refuse no amount but 0, and
\* the removal of a negative payment would add to the credit without a check.
\* (paymentController/create.js:10-37, update.js:10-38, remove.js:23-59)
THEOREM LimitKept ==
    ASSUME Amounts \subseteq Nat
    PROVE  Spec => OverpaidOnlyByEdit
<1> DEFINE Kept == \A i \in Invoices :
                     /\ invoice[i].state # "absent"
                     /\ invoice[i].credit <= invoice[i].total
                     /\ invoice'[i].credit > invoice'[i].total
                     => invoice'[i].total # invoice[i].total
<1>1. SerialIInv /\ [Next]_vars => [Kept]_vars
  <2> SUFFICES ASSUME SerialIInv, [Next]_vars, NEW i \in Invoices,
                      invoice[i].state # "absent", invoice[i].credit <= invoice[i].total,
                      invoice'[i].credit > invoice'[i].total
               PROVE  invoice'[i].total # invoice[i].total
    OBVIOUS
  <2>1. TypeOK /\ Refs /\ SerialInv /\ TypeOK'
    BY NextRefs DEF SerialIInv
  <2>2. /\ invoice[i].total \in Int /\ invoice[i].credit \in Int
        /\ invoice'[i].total \in Int /\ invoice'[i].credit \in Int
    BY <2>1 DEF TypeOK, InvoiceDoc
  <2>3. \A h \in Slots : ~(BookPayment(h) \/ BookAmendment(h) \/ BookRemoval(h))
    BY <2>1, <2>2, BookingFits
  <2>4. invoice'[i].credit = invoice[i].credit
    BY <2>1, <2>3, OtherStepsKeepCredits DEF CreditsKept
  <2> QED
    BY <2>2, <2>4
<1> QED
  BY <1>1, SerialInvariant, PTL DEF Spec, OverpaidOnlyByEdit

-----------------------------------------------------------------------------
(***************************************************************************)
(* Refinement: the account of an invoice counts what the request in flight *)
(* still owes to it, so a payment handler takes effect with its first      *)
(* write, and its last one changes nothing in the account book.            *)
(***************************************************************************)

\* With at most one request in flight, what is owed is what that request owes.
SoleSums ==
    \A i \in Invoices :
        /\ (\A g \in Slots : request[g].at = "idle") =>
             SumTo(Owed(i), NSlots) = 0 /\ Booked(i)
        /\ \A h \in Slots : Others(h) =>
             /\ SumTo(Owed(i), NSlots)
                  = IF request[h].inv = i THEN Delta(request[h]) ELSE 0
             /\ (Booked(i) <=> ~(request[h].at \in Booking /\ request[h].inv = i))

LEMMA SolesAddUp == TypeOK => SoleSums
<1> SUFFICES ASSUME TypeOK, NEW i \in Invoices
             PROVE  /\ (\A g \in Slots : request[g].at = "idle") =>
                         SumTo(Owed(i), NSlots) = 0 /\ Booked(i)
                    /\ \A h \in Slots : Others(h) =>
                         /\ SumTo(Owed(i), NSlots)
                              = IF request[h].inv = i THEN Delta(request[h]) ELSE 0
                         /\ (Booked(i) <=> ~(request[h].at \in Booking /\ request[h].inv = i))
  BY DEF SoleSums
<1> DEFINE owed == Owed(i)
           none == [g \in 1..NSlots |-> 0]
<1>1. owed \in [1..NSlots -> Int] /\ none \in [1..NSlots -> Int] /\ NSlots \in Nat
  BY SummandTypes DEF Summands
<1>2. SumTo(none, NSlots) = 0
  BY <1>1, SumOfZeros
<1>3. \A g \in Slots : request[g].at = "idle" => owed[g] = 0
  BY DeltaCases DEF TypeOK, Owed, Booking
<1>4. \A h \in Slots : owed[h] = IF request[h].inv = i THEN Delta(request[h]) ELSE 0
  BY DEF Owed
<1>5. ASSUME \A g \in Slots : request[g].at = "idle"
      PROVE  SumTo(owed, NSlots) = 0 /\ Booked(i)
  <2>1. \A g \in 1..NSlots : owed[g] = 0
    BY <1>3, <1>5 DEF Slots
  <2>2. SumTo(owed, NSlots) = 0
    BY <1>1, <2>1, SumOfZeros
  <2> QED
    BY <1>5, <2>2 DEF Booked, Booking
<1>6. ASSUME NEW h \in Slots, Others(h)
      PROVE  /\ SumTo(owed, NSlots) = IF request[h].inv = i THEN Delta(request[h]) ELSE 0
             /\ (Booked(i) <=> ~(request[h].at \in Booking /\ request[h].inv = i))
  <2>1. h \in 1..NSlots /\ none[h] = 0 /\ \A g \in 1..NSlots : g # h => owed[g] = none[g]
    BY <1>3, <1>6 DEF Others, Slots
  <2>2. owed[h] \in Int
    BY <1>1, <2>1
  <2> HIDE DEF owed, none
  <2>3. SumTo(owed, NSlots) = SumTo(none, NSlots) + (owed[h] - none[h])
    BY <1>1, <2>1, SumOfChange
  <2>4. SumTo(owed, NSlots) = owed[h]
    BY <1>2, <2>1, <2>2, <2>3
  <2>5. Booked(i) <=> ~(request[h].at \in Booking /\ request[h].inv = i)
    BY <1>6 DEF Booked, Others, Booking
  <2> QED
    BY <1>4, <2>4, <2>5
<1> QED
  BY <1>5, <1>6

LEMMA SolesAddUpNext == TypeOK' => SoleSums'
BY SolesAddUp, PTL

\* The account of an invoice that request h, in flight alone, owes delta.
Account(i, delta, booked) ==
    [state   |-> invoice[i].state,
     total   |-> invoice[i].total,
     balance |-> invoice[i].credit + delta,
     status  |-> IF booked THEN invoice[i].paymentStatus
                           ELSE PaymentStatus(invoice[i].total, invoice[i].credit + delta)]

\* The accounts as they are while request h is served.
AccountsAt(h) ==
    \A i \in Invoices :
        AccountOf(i) = IF request[h].inv = i
                       THEN Account(i, Delta(request[h]), request[h].at \notin Booking)
                       ELSE Account(i, 0, TRUE)

SoleAccounts ==
    /\ (\A g \in Slots : request[g].at = "idle") =>
         \A i \in Invoices : AccountOf(i) = Account(i, 0, TRUE)
    /\ \A h \in Slots : Others(h) => AccountsAt(h)

LEMMA AccountsKnown == TypeOK => SoleAccounts
<1> SUFFICES ASSUME TypeOK PROVE SoleAccounts
  OBVIOUS
<1>1. SoleSums
  BY SolesAddUp
<1>2. \A i \in Invoices : (\A g \in Slots : request[g].at = "idle") =>
        AccountOf(i) = Account(i, 0, TRUE)
  BY <1>1 DEF SoleSums, AccountOf, Account
<1>3. ASSUME NEW h \in Slots, Others(h), NEW i \in Invoices
      PROVE  AccountOf(i) = IF request[h].inv = i
                       THEN Account(i, Delta(request[h]), request[h].at \notin Booking)
                       ELSE Account(i, 0, TRUE)
  BY <1>1, <1>3 DEF SoleSums, AccountOf, Account
<1> QED
  BY <1>2, <1>3 DEF SoleAccounts, AccountsAt

LEMMA AccountsKnownNext == TypeOK' => SoleAccounts'
BY AccountsKnown, PTL

\* A request that has nothing to book leaves the account of an invoice as the document says.
LEMMA PlainAccounts ==
    ASSUME TypeOK, NEW h \in Slots, Others(h), request[h].at \notin Booking
    PROVE  \A i \in Invoices : AccountOf(i) = Account(i, 0, TRUE)
<1>1. AccountsAt(h) /\ Delta(request[h]) = 0
  BY AccountsKnown, DeltaCases DEF SoleAccounts, TypeOK
<1> QED
  BY <1>1 DEF AccountsAt

LEMMA PlainAccountsNext ==
    ASSUME TypeOK', NEW h \in Slots, Others(h), request'[h].at \notin Booking,
           \A g \in Slots : g # h => request'[g] = request[g]
    PROVE  \A i \in Invoices : AccountOf(i)' = Account(i, 0, TRUE)'
<1>1. Others(h)'
  BY DEF Others
<1>2. AccountsAt(h)'
  BY <1>1, AccountsKnownNext DEF SoleAccounts
<1>3. request'[h] \in Request
  BY DEF TypeOK
<1>4. Delta(request'[h]) = 0
  BY <1>3, DeltaCases
<1> QED
  BY <1>2, <1>4 DEF AccountsAt

\* What is booked is a move of the credit; what is still to be booked counts already.
LEMMA OwingAccountsNext ==
    ASSUME TypeOK', NEW h \in Slots, Others(h), request'[h].at \in Booking,
           \A g \in Slots : g # h => request'[g] = request[g]
    PROVE  \A i \in Invoices :
             AccountOf(i)' = IF request'[h].inv = i
                             THEN Account(i, Delta(request[h]), FALSE)'
                             ELSE Account(i, 0, TRUE)'
<1>1. Others(h)'
  BY DEF Others
<1>2. AccountsAt(h)'
  BY <1>1, AccountsKnownNext DEF SoleAccounts
<1> QED
  BY <1>2 DEF AccountsAt

\* Steps that only move the request on.
LEMMA QuietAccounts ==
    ASSUME TypeOK, TypeOK', NEW h \in Slots, Others(h), invoice' = invoice,
           request[h].at \notin Booking, request'[h].at \notin Booking,
           \A g \in Slots : g # h => request'[g] = request[g]
    PROVE  \A i \in Invoices : AccountOf(i)' = AccountOf(i)
<1>1. \A i \in Invoices : AccountOf(i) = Account(i, 0, TRUE)
  BY PlainAccounts
<1>2. \A i \in Invoices : AccountOf(i)' = Account(i, 0, TRUE)'
  BY PlainAccountsNext
<1>3. \A i \in Invoices : Account(i, 0, TRUE)' = Account(i, 0, TRUE)
  BY DEF Account
<1> QED
  BY <1>1, <1>2, <1>3

\* The entries depend on the payments and on which invoices are live.
LEMMA EntriesKept ==
    ASSUME Refs, payment' = payment,
           \A i \in Invoices : invoice[i].state # "absent" => invoice'[i].state = invoice[i].state
    PROVE  \A p \in Payments : EntryOf(p)' = EntryOf(p)
<1> SUFFICES ASSUME NEW p \in Payments PROVE EntryOf(p)' = EntryOf(p)
  OBVIOUS
<1>1. CASE payment[p].state = "live"
  <2>1. /\ payment[p].invoice \in Invoices
        /\ invoice[payment[p].invoice].state # "absent"
    BY <1>1 DEF Refs, PaymentRefs
  <2> QED
    BY <2>1 DEF EntryOf
<1>2. CASE payment[p].state # "live"
  BY <1>2 DEF EntryOf
<1> QED
  BY <1>1, <1>2

LEMMA Stutters ==
    ASSUME \A i \in Invoices : AccountOf(i)' = AccountOf(i),
           \A p \in Payments : EntryOf(p)' = EntryOf(p)
    PROVE  UNCHANGED Accounts!vars
BY DEF Accounts!vars

LEMMA CreateInvoiceOpens ==
    ASSUME TypeOK, TypeOK', Refs, SerialInv, NEW i \in Invoices, NEW total \in Totals,
           CreateInvoice(i, total)
    PROVE  Accounts!Open(i, total)
<1>1. \A g \in Slots : request[g].at = "idle" /\ request'[g].at = "idle"
  BY AdmittedAlone DEF CreateInvoice
<1>2. \A j \in Invoices : /\ AccountOf(j) = Account(j, 0, TRUE)
                          /\ AccountOf(j)' = Account(j, 0, TRUE)'
  BY <1>1, AccountsKnown, AccountsKnownNext DEF SoleAccounts
<1>3. /\ invoice[i].state = "absent"
      /\ invoice'[i] = [state |-> "live", total |-> total, credit |-> 0,
                        paymentStatus |-> InitialStatus(total), payment |-> {}]
      /\ \A j \in Invoices : j # i => invoice'[j] = invoice[j]
  BY DEF CreateInvoice, TypeOK
<1>4. InitialStatus(total) = Accounts!StatusOf(total, 0)
  BY DEF InitialStatus, Accounts!StatusOf
<1>5. /\ AccountOf(i).state = "absent"
      /\ AccountOf(i)' = [state |-> "live", total |-> total, balance |-> 0,
                          status |-> Accounts!StatusOf(total, 0)]
      /\ \A j \in Invoices : j # i => AccountOf(j)' = AccountOf(j)
  BY <1>2, <1>3, <1>4 DEF Account
<1>6. \A p \in Payments : EntryOf(p)' = EntryOf(p)
  BY <1>3, EntriesKept DEF CreateInvoice
<1> QED
  BY <1>5, <1>6 DEF Accounts!Open

\* Writing two fields of one account.
LEMMA Repriced ==
    ASSUME NEW i \in Invoices, NEW total, NEW status,
           AccountOf(i)' = [AccountOf(i) EXCEPT !.total = total, !.status = status],
           \A j \in Invoices : j # i => AccountOf(j)' = AccountOf(j)
    PROVE  [j \in Invoices |-> AccountOf(j)]' =
             [[j \in Invoices |-> AccountOf(j)] EXCEPT ![i].total = total,
                                                       ![i].status = status]
<1> DEFINE a == [j \in Invoices |-> AccountOf(j)]
           b == [a EXCEPT ![i].total = total]
           c == [b EXCEPT ![i].status = status]
<1>1. b = [j \in Invoices |-> IF j = i THEN [AccountOf(i) EXCEPT !.total = total]
                                       ELSE AccountOf(j)]
  OBVIOUS
<1> HIDE DEF b
<1>2. c = [j \in Invoices |-> IF j = i
                              THEN [[AccountOf(i) EXCEPT !.total = total]
                                      EXCEPT !.status = status]
                              ELSE AccountOf(j)]
  BY <1>1
<1>3. c = [a EXCEPT ![i].total = total, ![i].status = status]
  BY DEF b
<1> QED
  BY <1>2, <1>3

LEMMA WriteInvoiceReprices ==
    ASSUME TypeOK, TypeOK', Refs, SerialInv, NEW h \in Slots, WriteInvoice(h),
           NEW i \in Invoices, NEW total \in Totals, request[h].inv = i,
           request[h].total = total
    PROVE  Accounts!Reprice(i, total)
<1> DEFINE r == request[h]
<1>1. /\ r.at = "writeInvoice" /\ Others(h) /\ invoice[i] \in InvoiceDoc
      /\ invoice[i].state = "live" /\ r.credit = invoice[i].credit
  BY DEF WriteInvoice, Refs, RequestRefs, SerialInv, Alone, RequestInv, TypeOK
<1>2. /\ request'[h].at = "idle" /\ \A g \in Slots : g # h => request'[g] = request[g]
      /\ payment' = payment
  BY DEF WriteInvoice, Answer, NoRequest, TypeOK
<1>3. \A j \in Invoices : /\ AccountOf(j) = Account(j, 0, TRUE)
                          /\ AccountOf(j)' = Account(j, 0, TRUE)'
  BY <1>1, <1>2, PlainAccounts, PlainAccountsNext DEF Booking
<1>4. /\ invoice'[i] = [invoice[i] EXCEPT !.total = total,
                                          !.paymentStatus = PaymentStatus(total, r.credit)]
      /\ \A j \in Invoices : j # i => invoice'[j] = invoice[j]
  BY <1>1 DEF WriteInvoice, TypeOK
<1>5. /\ invoice'[i].state = "live" /\ invoice'[i].total = total
      /\ invoice'[i].credit = invoice[i].credit
      /\ invoice'[i].paymentStatus = PaymentStatus(total, invoice[i].credit)
  BY <1>1, <1>4 DEF InvoiceDoc
<1>6. PaymentStatus(total, invoice[i].credit)
        = Accounts!StatusOf(total, invoice[i].credit)
  BY DEF PaymentStatus, Accounts!StatusOf
<1>7. invoice[i].credit + 0 = invoice[i].credit
  BY <1>1 DEF InvoiceDoc
<1>8. /\ AccountOf(i).state = "live"
      /\ AccountOf(i)' = [AccountOf(i) EXCEPT
                            !.total = total,
                            !.status = Accounts!StatusOf(total, AccountOf(i).balance)]
      /\ \A j \in Invoices : j # i => AccountOf(j)' = AccountOf(j)
  <2>1. AccountOf(i) = [state |-> "live", total |-> invoice[i].total,
                        balance |-> invoice[i].credit, status |-> invoice[i].paymentStatus]
    BY <1>1, <1>3, <1>7 DEF Account
  <2>2. AccountOf(i)' = [state |-> "live", total |-> total, balance |-> invoice[i].credit,
                         status |-> Accounts!StatusOf(total, invoice[i].credit)]
    <3>1. AccountOf(i)' = [state |-> invoice'[i].state, total |-> invoice'[i].total,
                           balance |-> invoice'[i].credit + 0,
                           status |-> invoice'[i].paymentStatus]
      BY <1>1, <1>3 DEF Account
    <3> QED
      BY <1>5, <1>6, <1>7, <3>1
  <2>3. \A j \in Invoices : j # i => AccountOf(j)' = AccountOf(j)
    BY <1>3, <1>4 DEF Account
  <2>4. AccountOf(i).state = "live" /\ AccountOf(i).balance = invoice[i].credit
    BY <2>1
  <2>5. [AccountOf(i) EXCEPT !.total = total,
                             !.status = Accounts!StatusOf(total, invoice[i].credit)]
          = AccountOf(i)'
    <3> DEFINE status == Accounts!StatusOf(total, invoice[i].credit)
               x == [AccountOf(i) EXCEPT !.total = total]
               y == [x EXCEPT !.status = status]
    <3>1. x = [state |-> "live", total |-> total, balance |-> invoice[i].credit,
               status |-> invoice[i].paymentStatus]
      BY <2>1
    <3> HIDE DEF x, status
    <3>2. y = [state |-> "live", total |-> total, balance |-> invoice[i].credit,
               status |-> status]
      BY <3>1
    <3> QED
      BY <2>2, <3>2 DEF x, status
  <2> QED
    BY <2>3, <2>4, <2>5
<1>9. \A p \in Payments : EntryOf(p)' = EntryOf(p)
  BY <1>1, <1>2, <1>4, <1>5, EntriesKept
<1>10. [j \in Invoices |-> AccountOf(j)]' =
         [[j \in Invoices |-> AccountOf(j)] EXCEPT
            ![i].total = total,
            ![i].status = Accounts!StatusOf(total,
                                            [j \in Invoices |-> AccountOf(j)][i].balance)]
  <2> DEFINE status == Accounts!StatusOf(total, AccountOf(i).balance)
  <2>1. [j \in Invoices |-> AccountOf(j)][i].balance = AccountOf(i).balance
    BY <1>1
  <2>2. AccountOf(i)' = [AccountOf(i) EXCEPT !.total = total, !.status = status]
    BY <1>8
  <2> HIDE DEF status
  <2>3. [j \in Invoices |-> AccountOf(j)]' =
          [[j \in Invoices |-> AccountOf(j)] EXCEPT ![i].total = total, ![i].status = status]
    BY <1>1, <1>8, <2>2, Repriced
  <2> QED
    BY <2>1, <2>3 DEF status
<1> QED
  BY <1>1, <1>8, <1>9, <1>10 DEF Accounts!Reprice

LEMMA RemoveInvoiceCloses ==
    ASSUME TypeOK, TypeOK', Refs, SerialInv, NEW h \in Slots, NEW i \in Invoices,
           RemoveInvoice(h, i)
    PROVE  Accounts!Close(i)
<1>1. \A g \in Slots : request[g].at = "idle"
  BY AdmittedAlone DEF RemoveInvoice, Accept
<1>2. /\ request'[h].at = "cascade" /\ \A g \in Slots : g # h => request'[g] = request[g]
      /\ payment' = payment
  BY DEF RemoveInvoice, Accept, TypeOK, NoRequest
<1>3. \A j \in Invoices : /\ AccountOf(j) = Account(j, 0, TRUE)
                          /\ AccountOf(j)' = Account(j, 0, TRUE)'
  BY <1>1, <1>2, PlainAccounts, PlainAccountsNext DEF Booking, Others
<1>4. /\ invoice[i].state = "live"
      /\ invoice'[i] = [invoice[i] EXCEPT !.state = "removed"]
      /\ \A j \in Invoices : j # i => invoice'[j] = invoice[j]
  BY DEF RemoveInvoice, TypeOK
<1>5. /\ invoice'[i].state = "removed" /\ invoice'[i].total = invoice[i].total
      /\ invoice'[i].credit = invoice[i].credit
      /\ invoice'[i].paymentStatus = invoice[i].paymentStatus
  BY <1>4 DEF TypeOK, InvoiceDoc
<1>6. /\ AccountOf(i).state = "live"
      /\ AccountOf(i)' = [AccountOf(i) EXCEPT !.state = "removed"]
      /\ \A j \in Invoices : j # i => AccountOf(j)' = AccountOf(j)
  <2>1. AccountOf(i) = [state |-> "live", total |-> invoice[i].total,
                        balance |-> invoice[i].credit + 0,
                        status |-> invoice[i].paymentStatus]
    BY <1>3, <1>4 DEF Account
  <2>2. AccountOf(i)' = [state |-> "removed", total |-> invoice[i].total,
                         balance |-> invoice[i].credit + 0,
                         status |-> invoice[i].paymentStatus]
    BY <1>3, <1>5 DEF Account
  <2>3. \A j \in Invoices : j # i => AccountOf(j)' = AccountOf(j)
    BY <1>3, <1>4 DEF Account
  <2> QED
    BY <2>1, <2>2, <2>3
<1>7. ASSUME NEW p \in Payments
      PROVE  EntryOf(p)' = IF EntryOf(p).invoice = i THEN Accounts!NoEntry ELSE EntryOf(p)
  <2>1. CASE payment[p].state = "live" /\ payment[p].invoice = i
    BY <1>2, <1>4, <1>5, <2>1 DEF EntryOf, Accounts!NoEntry
  <2>2. CASE payment[p].state = "live" /\ payment[p].invoice # i
    <3>1. payment[p].invoice \in Invoices
      BY <2>2 DEF Refs, PaymentRefs
    <3> QED
      BY <1>2, <1>4, <2>2, <3>1 DEF EntryOf
  <2>3. CASE payment[p].state # "live"
    BY <1>2, <2>3 DEF EntryOf
  <2> QED
    BY <2>1, <2>2, <2>3
<1> QED
  BY <1>6, <1>7 DEF Accounts!Close, Accounts!Payments, Payments

\* The account after the first write of a payment handler.
LEMMA MovedAccount ==
    ASSUME NEW i \in Invoices, NEW delta \in Int, invoice[i] \in InvoiceDoc,
           AccountOf(i) = Account(i, 0, TRUE)
    PROVE  Accounts!Moved(AccountOf(i), delta) = Account(i, delta, FALSE)
<1> DEFINE a == AccountOf(i)
           status == Accounts!StatusOf(a.total, a.balance + delta)
           x == [a EXCEPT !.balance = a.balance + delta]
           y == [x EXCEPT !.status = status]
<1>1. invoice[i].credit \in Int
  BY DEF InvoiceDoc
<1>2. a = [state |-> invoice[i].state, total |-> invoice[i].total,
           balance |-> invoice[i].credit, status |-> invoice[i].paymentStatus]
  BY <1>1 DEF Account
<1> HIDE DEF a
<1>3. a.balance + delta = invoice[i].credit + delta /\ a.total = invoice[i].total
  BY <1>2
<1>4. status = PaymentStatus(invoice[i].total, invoice[i].credit + delta)
  BY <1>3 DEF PaymentStatus, Accounts!StatusOf
<1> HIDE DEF status
<1>5. x = [state |-> invoice[i].state, total |-> invoice[i].total,
           balance |-> invoice[i].credit + delta, status |-> invoice[i].paymentStatus]
  BY <1>2, <1>3
<1> HIDE DEF x
<1>6. y = [state |-> invoice[i].state, total |-> invoice[i].total,
           balance |-> invoice[i].credit + delta, status |-> status]
  BY <1>5
<1>7. y = Account(i, delta, FALSE)
  BY <1>4, <1>6 DEF Account
<1>8. Accounts!Moved(a, delta) = y
  BY DEF Accounts!Moved, x, status
<1> QED
  BY <1>7, <1>8 DEF a

LEMMA FirstWriteMoves ==
    ASSUME TypeOK, TypeOK', NEW h \in Slots, NEW i \in Invoices, NEW delta \in Int,
           Others(h), invoice' = invoice, request[h].at \notin Booking,
           request'[h].at \in Booking, request'[h].inv = i, Delta(request'[h]) = delta,
           \A g \in Slots : g # h => request'[g] = request[g]
    PROVE  /\ AccountOf(i).state = invoice[i].state
           /\ AccountOf(i).total = invoice[i].total
           /\ AccountOf(i).balance = invoice[i].credit
           /\ AccountOf(i)' = Accounts!Moved(AccountOf(i), delta)
           /\ \A j \in Invoices : j # i => AccountOf(j)' = AccountOf(j)
<1>1. \A j \in Invoices : AccountOf(j) = Account(j, 0, TRUE)
  BY PlainAccounts
<1>2. \A j \in Invoices :
        AccountOf(j)' = IF request'[h].inv = j
                        THEN Account(j, Delta(request[h]), FALSE)'
                        ELSE Account(j, 0, TRUE)'
  BY OwingAccountsNext
<1>3. invoice[i] \in InvoiceDoc /\ invoice[i].credit \in Int
  BY DEF TypeOK, InvoiceDoc
<1>4. AccountOf(i)' = Account(i, delta, FALSE)
  <2>1. AccountOf(i)' = Account(i, Delta(request[h]), FALSE)'
    BY <1>2
  <2> QED
    BY <2>1 DEF Account
<1>5. Accounts!Moved(AccountOf(i), delta) = Account(i, delta, FALSE)
  BY <1>1, <1>3, MovedAccount
<1>6. \A j \in Invoices : j # i => AccountOf(j)' = AccountOf(j)
  BY <1>1, <1>2 DEF Account
<1>7. /\ AccountOf(i).state = invoice[i].state /\ AccountOf(i).total = invoice[i].total
      /\ AccountOf(i).balance = invoice[i].credit
  BY <1>1, <1>3 DEF Account
<1> QED
  BY <1>4, <1>5, <1>6, <1>7

LEMMA InsertPaymentEnters ==
    ASSUME TypeOK, TypeOK', Refs, SerialInv, NEW h \in Slots, NEW p \in Payments,
           InsertPayment(h, p),
           NEW i \in Invoices, NEW amount \in Amounts, request[h].inv = i,
           request[h].amount = amount
    PROVE  Accounts!Enter(p, i, amount)
<1> DEFINE r == request[h]
<1>1. /\ r \in Request /\ r.at = "insertPayment" /\ Others(h) /\ amount \in Int
      /\ invoice[i] \in InvoiceDoc /\ invoice[i].state = "live" /\ Current(r)
      /\ Fits(r, amount)
      /\ payment[p].state = "absent" /\ invoice' = invoice
  BY DEF InsertPayment, IsFresh, TypeOK, SerialInv, Alone, RequestInv
<1>2. /\ request'[h].at = "bookPayment" /\ request'[h].inv = i
      /\ request'[h].amount = amount
      /\ \A g \in Slots : g # h => request'[g] = request[g]
  BY <1>1 DEF InsertPayment, TypeOK, Request
<1>3. Delta(request'[h]) = amount
  BY <1>2, DeltaCases DEF TypeOK
<1>4. /\ payment'[p] = [state |-> "live", amount |-> amount, invoice |-> i]
      /\ \A q \in Payments : q # p => payment'[q] = payment[q]
  BY DEF InsertPayment, TypeOK
<1>5. /\ AccountOf(i).state = "live" /\ AccountOf(i).total = invoice[i].total
      /\ AccountOf(i).balance = invoice[i].credit
      /\ AccountOf(i)' = Accounts!Moved(AccountOf(i), amount)
      /\ \A j \in Invoices : j # i => AccountOf(j)' = AccountOf(j)
  BY <1>1, <1>2, <1>3, FirstWriteMoves DEF Booking
<1>6. AccountOf(i).balance + amount <= AccountOf(i).total
  BY <1>1, <1>5 DEF Fits, MaxAmount, Current, InvoiceDoc
<1>7. EntryOf(p) = Accounts!NoEntry /\ EntryOf(p)' = [invoice |-> i, amount |-> amount]
  BY <1>1, <1>4 DEF EntryOf, Accounts!NoEntry
<1>8. \A q \in Payments : q # p => EntryOf(q)' = EntryOf(q)
  BY <1>1, <1>4 DEF EntryOf
<1> QED
  BY <1>5, <1>6, <1>7, <1>8 DEF Accounts!Enter, Accounts!Allowed

LEMMA WritePaymentAmends ==
    ASSUME TypeOK, TypeOK', Refs, SerialInv, NEW h \in Slots, WritePayment(h),
           NEW p \in Payments, NEW amount \in Amounts, request[h].pay = p,
           request[h].amount = amount
    PROVE  Accounts!Amend(p, amount)
<1> DEFINE r == request[h]
<1>1. PICK i \in Invoices : i = r.inv
  BY AmendmentWritten
<1>2. PICK delta \in Int : delta = amount - payment[p].amount
  BY DEF TypeOK, PaymentDoc
<1>3. /\ r \in Request /\ r.at = "writeAmendment" /\ Others(h) /\ payment[p].invoice = i
      /\ invoice[i] \in InvoiceDoc /\ invoice[i].state = "live" /\ Current(r)
      /\ payment[p] \in PaymentDoc /\ payment[p].state = "live" /\ payment[p].amount = r.prev
      /\ Fits(r, delta) /\ invoice' = invoice
  BY <1>1, <1>2, AmendmentWritten DEF TypeOK, AsRead
<1>4. /\ request'[h] = [r EXCEPT !.at = "bookAmendment"]
      /\ \A g \in Slots : g # h => request'[g] = request[g]
      /\ payment'[p] = [payment[p] EXCEPT !.amount = amount]
      /\ \A q \in Payments : q # p => payment'[q] = payment[q]
  BY AmendmentWritten
<1>5. /\ request'[h].at = "bookAmendment" /\ request'[h].inv = i
      /\ request'[h].amount = amount /\ request'[h].prev = r.prev
      /\ payment'[p].state = "live" /\ payment'[p].amount = amount /\ payment'[p].invoice = i
  BY <1>1, <1>3, <1>4 DEF Request, PaymentDoc
<1>6. Delta(request'[h]) = delta
  BY <1>2, <1>3, <1>5, DeltaCases DEF TypeOK
<1>7. /\ AccountOf(i).state = "live" /\ AccountOf(i).total = invoice[i].total
      /\ AccountOf(i).balance = invoice[i].credit
      /\ AccountOf(i)' = Accounts!Moved(AccountOf(i), delta)
      /\ \A j \in Invoices : j # i => AccountOf(j)' = AccountOf(j)
  <2>1. /\ Others(h) /\ invoice' = invoice /\ request'[h].inv = i
        /\ request[h].at \notin Booking /\ request'[h].at \in Booking
    BY <1>3, <1>5 DEF Booking
  <2>2. \A g \in Slots : g # h => request'[g] = request[g]
    BY <1>4
  <2>3. invoice[i].state = "live"
    BY <1>3
  <2> QED
    BY <1>6, <2>1, <2>2, <2>3, FirstWriteMoves
<1>8. AccountOf(i).balance + delta <= AccountOf(i).total
  BY <1>1, <1>3, <1>7 DEF Fits, MaxAmount, Current, InvoiceDoc
<1>9. /\ EntryOf(p) = [invoice |-> i, amount |-> payment[p].amount]
      /\ EntryOf(p)' = [invoice |-> i, amount |-> amount]
  BY <1>3, <1>5 DEF EntryOf
<1>10. \A q \in Payments : q # p => EntryOf(q)' = EntryOf(q)
  BY <1>3, <1>4 DEF EntryOf
<1>11. /\ EntryOf(p) # Accounts!NoEntry /\ EntryOf(p).invoice = i
       /\ amount - EntryOf(p).amount = delta
       /\ EntryOf(p)' = [EntryOf(p) EXCEPT !.amount = amount]
  BY <1>2, <1>9 DEF Accounts!NoEntry
<1>12. [q \in Payments |-> EntryOf(q)]'
         = [[q \in Payments |-> EntryOf(q)] EXCEPT ![p].amount = amount]
  BY <1>10, <1>11
<1> QED
  BY <1>7, <1>8, <1>11, <1>12 DEF Accounts!Amend, Accounts!Allowed

LEMMA RemovePaymentStrikes ==
    ASSUME TypeOK, TypeOK', Refs, SerialInv, NEW h \in Slots, RemovePayment(h),
           NEW p \in Payments, request[h].pay = p
    PROVE  Accounts!Strike(p)
<1> DEFINE r == request[h]
<1>1. PICK i \in Invoices : i = r.inv
  BY RemovalWritten
<1>2. PICK delta \in Int : delta = 0 - payment[p].amount
  BY DEF TypeOK, PaymentDoc
<1>3. /\ r \in Request /\ r.at = "writeRemoval" /\ Others(h) /\ payment[p].invoice = i
      /\ invoice[i] \in InvoiceDoc /\ invoice[i].state = "live"
      /\ payment[p] \in PaymentDoc /\ payment[p].state = "live" /\ payment[p].amount = r.prev
      /\ invoice' = invoice
  BY <1>1, <1>2, RemovalWritten DEF TypeOK, AsRead
<1>4. /\ request'[h] = [r EXCEPT !.at = "bookRemoval"]
      /\ \A g \in Slots : g # h => request'[g] = request[g]
      /\ payment'[p] = [payment[p] EXCEPT !.state = "removed"]
      /\ \A q \in Payments : q # p => payment'[q] = payment[q]
  BY RemovalWritten
<1>5. /\ request'[h].at = "bookRemoval" /\ request'[h].inv = i /\ request'[h].prev = r.prev
      /\ payment'[p].state = "removed"
  BY <1>1, <1>3, <1>4 DEF Request, PaymentDoc
<1>6. Delta(request'[h]) = delta
  BY <1>2, <1>3, <1>5, DeltaCases DEF TypeOK
<1>7. /\ AccountOf(i)' = Accounts!Moved(AccountOf(i), delta)
      /\ \A j \in Invoices : j # i => AccountOf(j)' = AccountOf(j)
  <2>1. /\ Others(h) /\ invoice' = invoice /\ request'[h].inv = i
        /\ request[h].at \notin Booking /\ request'[h].at \in Booking
    BY <1>3, <1>5 DEF Booking
  <2>2. \A g \in Slots : g # h => request'[g] = request[g]
    BY <1>4
  <2>3. invoice[i].state = "live"
    BY <1>3
  <2> QED
    BY <1>6, <2>1, <2>2, <2>3, FirstWriteMoves
<1>8. /\ EntryOf(p) = [invoice |-> i, amount |-> payment[p].amount]
      /\ EntryOf(p)' = Accounts!NoEntry
  BY <1>3, <1>5 DEF EntryOf, Accounts!NoEntry
<1>9. \A q \in Payments : q # p => EntryOf(q)' = EntryOf(q)
  BY <1>3, <1>4 DEF EntryOf
<1>10. /\ EntryOf(p) # Accounts!NoEntry /\ EntryOf(p).invoice = i
       /\ 0 - EntryOf(p).amount = delta
  BY <1>2, <1>8 DEF Accounts!NoEntry
<1> QED
  BY <1>7, <1>8, <1>9, <1>10 DEF Accounts!Strike

\* Reading, checking and answering leave the account book as it is.
LEMMA ReadsStutter ==
    ASSUME TypeOK, TypeOK', Refs, NEW h \in Slots, Others(h),
           UNCHANGED <<invoice, payment>>,
           request[h].at \notin Booking, request'[h].at \notin Booking,
           \A g \in Slots : g # h => request'[g] = request[g]
    PROVE  UNCHANGED Accounts!vars
<1>1. \A i \in Invoices : AccountOf(i)' = AccountOf(i)
  BY QuietAccounts
<1>2. \A p \in Payments : EntryOf(p)' = EntryOf(p)
  BY EntriesKept
<1> QED
  BY <1>1, <1>2, Stutters

\* The payments of a removed invoice have left the account book with it.
LEMMA CascadeStutters ==
    ASSUME TypeOK, TypeOK', Refs, SerialInv, NEW h \in Slots, Cascade(h)
    PROVE  UNCHANGED Accounts!vars
<1> DEFINE i == request[h].inv
<1>1. /\ request[h].at = "cascade" /\ Others(h) /\ invoice[i].state = "removed"
      /\ invoice' = invoice
  BY DEF Cascade, SerialInv, Alone, Refs, RequestRefs
<1>2. request'[h].at = "idle" /\ \A g \in Slots : g # h => request'[g] = request[g]
  BY DEF Cascade, Answer, NoRequest, TypeOK
<1>3. \A j \in Invoices : AccountOf(j)' = AccountOf(j)
  BY <1>1, <1>2, QuietAccounts DEF Booking
<1>4. ASSUME NEW p \in Payments
      PROVE  EntryOf(p)' = EntryOf(p)
  <2>1. CASE payment[p].invoice = i
    <3>1. payment'[p].state = "removed"
      BY <2>1 DEF Cascade, PaymentsRemovedWith, TypeOK, PaymentDoc
    <3> QED
      BY <1>1, <2>1, <3>1 DEF EntryOf
  <2>2. CASE payment[p].invoice # i
    <3>1. payment'[p] = payment[p]
      BY <2>2 DEF Cascade, PaymentsRemovedWith
    <3> QED
      BY <1>1, <3>1 DEF EntryOf
  <2> QED
    BY <2>1, <2>2
<1> QED
  BY <1>3, <1>4, Stutters

\* The last write of a payment handler: what was owed is in the credit now.
LEMMA BookStutters ==
    ASSUME TypeOK, TypeOK', Refs, SerialInv, NEW h \in Slots,
           BookPayment(h) \/ BookAmendment(h) \/ BookRemoval(h)
    PROVE  UNCHANGED Accounts!vars
<1> DEFINE r == request[h]
<1>1. r.at \in Booking
  BY BookingEntries
<1>2. PICK entries \in SUBSET Payments : Book(h, entries)
  BY BookingEntries
<1>3. PICK i \in Invoices : i = r.inv
  BY BookingEntries
<1>4. PICK delta \in Int : delta = Delta(r)
  BY DeltaCases DEF TypeOK
<1>5. /\ r \in Request /\ Others(h) /\ invoice[i].state = "live"
      /\ invoice'[i].state = invoice[i].state /\ invoice'[i].total = invoice[i].total
      /\ invoice'[i].credit = invoice[i].credit + delta
      /\ invoice'[i].paymentStatus = PaymentStatus(invoice[i].total, invoice[i].credit + delta)
      /\ \A j \in Invoices : j # i => invoice'[j] = invoice[j]
      /\ request'[h].at = "idle"
      /\ \A g \in Slots : g # h => request'[g] = request[g]
      /\ payment' = payment
  BY <1>1, <1>2, <1>3, <1>4, BookingDone
<1>6. \A j \in Invoices : AccountOf(j)' = Account(j, 0, TRUE)'
  BY <1>5, PlainAccountsNext DEF Booking
<1>7. \A j \in Invoices :
        AccountOf(j) = IF j = i THEN Account(i, delta, FALSE) ELSE Account(j, 0, TRUE)
  <2>1. AccountsAt(h)
    BY <1>5, AccountsKnown DEF SoleAccounts
  <2> QED
    BY <1>1, <1>3, <1>4, <2>1 DEF AccountsAt
<1>8. AccountOf(i)' = AccountOf(i)
  <2>1. invoice[i].credit \in Int /\ invoice'[i].credit \in Int
    BY DEF TypeOK, InvoiceDoc
  <2>2. invoice'[i].credit + 0 = invoice[i].credit + delta
    BY <1>5, <2>1
  <2> QED
    BY <1>5, <1>6, <1>7, <2>2 DEF Account
<1>9. \A j \in Invoices : j # i => AccountOf(j)' = AccountOf(j)
  BY <1>5, <1>6, <1>7 DEF Account
<1>10. \A p \in Payments : EntryOf(p)' = EntryOf(p)
  <2>1. \A j \in Invoices : invoice'[j].state = invoice[j].state
    BY <1>5
  <2> QED
    BY <1>5, <2>1, EntriesKept
<1> QED
  BY <1>8, <1>9, <1>10, Stutters

LEMMA InitAccounts == Init => Accounts!Init
<1> SUFFICES ASSUME Init PROVE Accounts!Init
  OBVIOUS
<1>1. TypeOK /\ \A g \in Slots : request[g].at = "idle"
  BY InitRefs DEF Init, NoRequest
<1>2. \A i \in Invoices : AccountOf(i) = Account(i, 0, TRUE)
  BY <1>1, AccountsKnown DEF SoleAccounts
<1>3. \A i \in Invoices :
        AccountOf(i) = [state |-> "absent", total |-> 0, balance |-> 0, status |-> "unpaid"]
  BY <1>2 DEF Account, Init
<1>4. \A p \in Payments : EntryOf(p) = Accounts!NoEntry
  BY DEF Init, EntryOf, Accounts!NoEntry
<1> QED
  BY <1>3, <1>4 DEF Accounts!Init, Accounts!Payments, Payments

\* The requests of the users: those that write are operations of the account book,
\* those that only read leave it as it is.
LEMMA ArrivalImplements ==
    ASSUME TypeOK, TypeOK', Refs, SerialInv, Arrival
    PROVE  Accounts!Next \/ UNCHANGED Accounts!vars
<1>1. ASSUME NEW i \in Invoices, NEW total \in Totals, CreateInvoice(i, total)
      PROVE  Accounts!Next
  BY <1>1, CreateInvoiceOpens DEF Accounts!Next
<1>2. ASSUME NEW h \in Slots, NEW i \in Invoices, RemoveInvoice(h, i)
      PROVE  Accounts!Next
  BY <1>2, RemoveInvoiceCloses DEF Accounts!Next
<1>3. ASSUME NEW h \in Slots, Admits, request'[h].at \notin Booking,
             UNCHANGED <<invoice, payment>>,
             \A g \in Slots : g # h => request'[g] = request[g]
      PROVE  UNCHANGED Accounts!vars
  BY <1>3, AdmittedAlone, ReadsStutter DEF Others, Booking
<1>4. ASSUME NEW h \in Slots, NEW i \in Invoices, NEW total \in Totals,
             ReadInvoiceToUpdate(h, i, total)
      PROVE  UNCHANGED Accounts!vars
  BY <1>3, <1>4 DEF ReadInvoiceToUpdate, Accept, TypeOK, NoRequest, Booking
<1>5. ASSUME NEW h \in Slots, NEW i \in Invoices, NEW amount \in Amounts,
             ReadInvoiceToPay(h, i, amount)
      PROVE  UNCHANGED Accounts!vars
  BY <1>3, <1>5 DEF ReadInvoiceToPay, Accept, TypeOK, NoRequest, Booking
<1>6. ASSUME NEW h \in Slots, NEW p \in Payments, NEW amount \in Amounts,
             ReadPaymentToUpdate(h, p, amount)
      PROVE  UNCHANGED Accounts!vars
  BY <1>3, <1>6 DEF ReadPaymentToUpdate, Accept, TypeOK, NoRequest, Booking
<1>7. ASSUME NEW h \in Slots, NEW p \in Payments, ReadPaymentToRemove(h, p)
      PROVE  UNCHANGED Accounts!vars
  BY <1>3, <1>7 DEF ReadPaymentToRemove, Accept, TypeOK, NoRequest, Booking
<1> QED
  BY <1>1, <1>2, <1>4, <1>5, <1>6, <1>7 DEF Arrival

\* The steps of the handler in flight: its first write is an operation of the
\* account book, the others leave it as it is.
LEMMA StepImplements ==
    ASSUME TypeOK, TypeOK', Refs, SerialInv, NEW h \in Slots, Step(h)
    PROVE  Accounts!Next \/ UNCHANGED Accounts!vars
<1>1. CASE WriteInvoice(h)
  <2>1. /\ request[h].inv \in Invoices /\ request[h].total \in Totals
    BY <1>1 DEF WriteInvoice, Refs, RequestRefs, SerialInv, RequestInv
  <2>2. PICK i \in Invoices, total \in Totals : request[h].inv = i /\ request[h].total = total
    BY <2>1
  <2> QED
    BY <1>1, <2>2, WriteInvoiceReprices DEF Accounts!Next
<1>2. ASSUME NEW p \in Payments, InsertPayment(h, p)
      PROVE  Accounts!Next
  <2>1. request[h].inv \in Invoices /\ request[h].amount \in Amounts
    BY <1>2 DEF InsertPayment, Refs, RequestRefs, SerialInv, RequestInv
  <2>2. PICK i \in Invoices, amount \in Amounts :
           request[h].inv = i /\ request[h].amount = amount
    BY <2>1
  <2> QED
    BY <1>2, <2>2, InsertPaymentEnters DEF Accounts!Next, Accounts!Payments, Payments
<1>3. CASE WritePayment(h)
  <2>1. request[h].pay \in Payments /\ request[h].amount \in Amounts
    BY <1>3, AmendmentWritten
  <2>2. PICK p \in Payments, amount \in Amounts :
           request[h].pay = p /\ request[h].amount = amount
    BY <2>1
  <2> QED
    BY <1>3, <2>2, WritePaymentAmends DEF Accounts!Next, Accounts!Payments, Payments
<1>4. CASE RemovePayment(h)
  <2>1. request[h].pay \in Payments
    BY <1>4, RemovalWritten
  <2>2. PICK p \in Payments : request[h].pay = p
    BY <2>1
  <2> QED
    BY <1>4, <2>2, RemovePaymentStrikes DEF Accounts!Next, Accounts!Payments, Payments
<1>5. CASE PopulateToUpdate(h) \/ PopulateToRemove(h)
  <2>1. request[h].at \notin Booking /\ request[h].inv \in Invoices /\ Others(h)
    BY <1>5 DEF PopulateToUpdate, PopulateToRemove, Booking, Refs, RequestRefs, SerialInv, Alone
  <2>2. Populated(request[h]) \in Request
    BY <2>1, PopulatedFields
  <2>3. /\ request'[h].at \notin Booking
        /\ \A g \in Slots : g # h => request'[g] = request[g]
        /\ UNCHANGED <<invoice, payment>>
    BY <1>5, <2>2 DEF PopulateToUpdate, PopulateToRemove, NoRequest, Booking, TypeOK, Request
  <2> QED
    BY <2>1, <2>3, ReadsStutter
<1> QED
  BY <1>1, <1>2, <1>3, <1>4, <1>5, CascadeStutters, BookStutters DEF Step

\* The invoice and payment handlers, served one at a time and without failures, behave
\* as the account book says, for every number of invoices, payments and requests and
\* for all amounts: each is one atomic operation of the book that keeps to the limit,
\* or has no effect on it.
\* (invoiceController/create.js:9-72, update.js:10-81, remove.js:6-35,
\* paymentController/create.js:8-83, update.js:9-84, remove.js:6-66)
THEOREM BookImplemented == Spec => ImplementsAccountBook
<1>1. SerialIInv /\ [Next]_vars => [Accounts!Next]_(Accounts!vars)
  <2> SUFFICES ASSUME SerialIInv, [Next]_vars
               PROVE  Accounts!Next \/ UNCHANGED Accounts!vars
    OBVIOUS
  <2>1. TypeOK /\ Refs /\ SerialInv /\ TypeOK'
    BY NextRefs DEF SerialIInv
  <2>2. CASE Arrival
    BY <2>1, <2>2, ArrivalImplements
  <2>3. ASSUME NEW h \in Slots, Step(h)
        PROVE  Accounts!Next \/ UNCHANGED Accounts!vars
    BY <2>1, <2>3, StepImplements
  <2>4. ASSUME NEW h \in Slots, Fail(h)
        PROVE  FALSE
    BY <2>4 DEF Fail
  <2>5. CASE UNCHANGED vars
    <3>1. \A i \in Invoices : AccountOf(i)' = AccountOf(i)
      BY <2>5 DEF vars, AccountOf, Owed, Booked
    <3>2. \A p \in Payments : EntryOf(p)' = EntryOf(p)
      BY <2>5 DEF vars, EntryOf
    <3> QED
      BY <3>1, <3>2, Stutters
  <2> QED
    BY <2>2, <2>3, <2>4, <2>5 DEF Next
<1>2. Init => Accounts!Init
  BY InitAccounts
<1> QED
  BY <1>1, <1>2, SerialInvariant, PTL DEF Spec, ImplementsAccountBook, Accounts!Spec
=============================================================================
