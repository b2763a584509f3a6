------------------------------ MODULE Figures -------------------------------
(***************************************************************************)
(* The figures the program computes: the totals of an invoice or a quote,  *)
(* by the form in the browser and again by the server, and the shares the  *)
(* summary routes return for the dashboard.                                *)
(*                                                                         *)
(* Prices, quantities and rates are typed with up to three decimals here   *)
(* and are counted in thousandths; amounts are rounded to the cent, as     *)
(* currency.js does after every operation.  They are not negative: the     *)
(* inputs have min={0}.                                                    *)
(***************************************************************************)
EXTENDS Sums, Sequences, FiniteSets

Unit == 1000               \* thousandths in one
PerCent == 10              \* thousandths in a cent

\* n / d rounded to an integer, halves up (Math.round).
Round(n, d) == (2 * n + d) \div (2 * d)

\* n / d rounded to an integer, halves to the even one ($round of MongoDB).
RoundEven(n, d) ==
    LET up == Round(n, d)
    IN  IF (2 * n) % (2 * d) = d /\ up % 2 = 1 THEN up - 1 ELSE up

-----------------------------------------------------------------------------
(***************************************************************************)
(* The totals of a document.  An item is a record with a quantity and a    *)
(* price; a row of the form may lack either.                               *)
(***************************************************************************)

\* calculate.multiply(x, y): the first factor is rounded to the cent, the second
\* is not, the product is.
Multiply(x, y) == Round(Round(x, PerCent) * y, Unit)

\* calculate.multiply(subTotal, rate / 100), the first factor in cents already.
TaxTotal(subTotal, rate) == Round(subTotal * rate, 100 * Unit)

\* What the server stores as the total of an item.
ItemTotal(item) == Multiply(item.quantity, item.price)

\* What the row of an item shows as its total: the factors are the other way round.
RowTotal(item) == Multiply(item.price, item.quantity)

SubTotal(items) == SumTo([k \in 1..Len(items) |-> ItemTotal(items[k])], Len(items))

\* What the server stores for a document.
DocumentTotals(items, rate) ==
    LET sub == SubTotal(items)
        tax == TaxTotal(sub, rate)
    IN  [subTotal |-> sub, taxTotal |-> tax, total |-> sub + tax]

\* A row counts when it has a quantity and a price, and neither is 0.
Counts(row) == row.quantity # 0 /\ row.price # 0

FormSubTotal(rows) ==
    SumTo([k \in 1..Len(rows) |-> IF Counts(rows[k]) THEN ItemTotal(rows[k]) ELSE 0],
          Len(rows))

\* What the form adds up from its rows.
FormTotals(rows, rate) ==
    LET sub == FormSubTotal(rows)
    IN  [subTotal |-> sub, taxTotal |-> TaxTotal(sub, rate),
         total |-> TaxTotal(sub, rate) + sub]

\* An amount in cents as it is shown, in units of the last digit: the settings
\* choose how many decimals there are, and so how many cents the last digit is
\* worth (1, 10 or 100).
CurrencyFormat(amount, digit) == Round(amount, digit)

\* What the form shows under its rows ...
ShownTotals(rows, rate, digit) ==
    LET totals == FormTotals(rows, rate)
    IN  [f \in {"subTotal", "taxTotal", "total"} |-> CurrencyFormat(totals[f], digit)]

\* ... and the page of a document under its items.
ReadTotals(doc, digit) ==
    [f \in {"subTotal", "taxTotal", "total"} |-> CurrencyFormat(doc[f], digit)]

\* An item on the page of its document.  Its price was stored as it was typed.
ReadItem(item, digit) ==
    [price |-> Round(item.price, PerCent * digit), quantity |-> item.quantity,
     total |-> CurrencyFormat(ItemTotal(item), digit)]

-----------------------------------------------------------------------------
(***************************************************************************)
(* The shares of the dashboard.  Documents are a function whose domain is  *)
(* the collection without the removed ones.                                *)
(***************************************************************************)

\* The share of count in total, in percent.
Percentage(count, total) == Round(100 * count, total)

\* One entry of a $group over the members of docs that have the key s.
Group(docs, members, s) ==
    [status     |-> s,
     count      |-> Cardinality(members),
     percentage |-> Percentage(Cardinality(members), Cardinality(DOMAIN docs))]

\* The entries of the invoices by status ...
StatusCounts(docs) ==
    {Group(docs, {d \in DOMAIN docs : docs[d].status = s}, s) :
        s \in {docs[d].status : d \in DOMAIN docs}}

\* ... by payment status ...
PaymentStatusCounts(docs) ==
    {Group(docs, {d \in DOMAIN docs : docs[d].paymentStatus = s}, s) :
        s \in {docs[d].paymentStatus : d \in DOMAIN docs}}

\* ... and of those past their date, by status and all under one name.
OverdueCounts(docs) ==
    LET overdue == {d \in DOMAIN docs : docs[d].overdue}
    IN  {Group(docs, {d \in overdue : docs[d].status = s}, "overdue") :
            s \in {docs[d].status : d \in overdue}}

\* The entries the summary may return under the name s: it takes the first it
\* finds, and the order of a $group is not specified.
Found(docs, s) ==
    {g \in PaymentStatusCounts(docs) \cup StatusCounts(docs) \cup OverdueCounts(docs) :
        g.status = s}

InvoiceStatuses == {"draft", "pending", "overdue", "paid", "unpaid", "partially"}
QuoteStatuses == {"draft", "pending", "sent", "expired", "declined", "accepted"}

InvoiceTags == {"draft", "pending", "overdue", "paid", "unpaid", "partially"}
QuoteTags == {"draft", "pending", "sent", "accepted", "declined", "expired"}

\* What the card of the invoices may show for a tag.
InvoiceShares(docs, tag) ==
    IF tag \in InvoiceStatuses /\ Found(docs, tag) # {}
    THEN {g.percentage : g \in Found(docs, tag)}
    ELSE {0}

\* The entry of the quotes with status s; those without any are added with zeros.
QuoteEntry(docs, s) ==
    LET members == {d \in DOMAIN docs : docs[d].status = s}
    IN  [count      |-> Cardinality(members),
         percentage |-> IF members = {} THEN 0
                        ELSE RoundEven(100 * Cardinality(members), Cardinality(DOMAIN docs))]

\* What the card of the quotes shows for a tag.
QuoteShare(docs, tag) == IF tag \in QuoteStatuses THEN QuoteEntry(docs, tag).percentage ELSE 0

\* The summary of the customers.  The active ones are counted whether they are
\* enabled or removed, the total and the new ones are not.
ClientSummary(clients) ==
    LET present == {c \in DOMAIN clients : clients[c].enabled /\ ~clients[c].removed}
        new == {c \in present : clients[c].createdThisMonth}
        active == {c \in DOMAIN clients : clients[c].invoiced}
        share(S) == IF present = {} THEN 0
                    ELSE Percentage(Cardinality(S), Cardinality(present))
    IN  [new |-> share(new), active |-> share(active)]

\* What it shows: a ring, which is full at 100, and a figure with an arrow.
CustomerPreviewCard(clients) ==
    LET summary == ClientSummary(clients)
    IN  [ring |-> IF summary.new > 100 THEN 100 ELSE summary.new,
         figure |-> summary.active, arrow |-> summary.active > 0]
=============================================================================
