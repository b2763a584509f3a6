------------------------------ MODULE MCLedger ------------------------------
(***************************************************************************)
(* Instances of Ledger for TLC.                                            *)
(***************************************************************************)
EXTENDS Dashboard, FiniteSetsExt, TLC

MCAmounts == {0, 1, 2}
MCTotals == {0, 2}
MCSymmetry == Permutations(Invoices)

-----------------------------------------------------------------------------
\* Figures against the collections it summarises, three documents at most.

MCCollections(Doc) == UNION {[D -> Doc] : D \in SUBSET (1..3)}
MCInvoices == MCCollections([status : {"draft", "pending", "sent"}, overdue : BOOLEAN,
                             paymentStatus : {"unpaid", "paid"}])
MCQuotes == MCCollections([status : {"draft", "sent", "on hold"}])
MCClients == MCCollections([enabled : BOOLEAN, removed : BOOLEAN,
                            createdThisMonth : {FALSE}, invoiced : BOOLEAN])

\* Every card has one value per tag, but for the overdue invoices: their share is
\* that of the invoices of one status among them.  (invoiceController/summary.js:148-163)
ASSUME InvoiceCard ==
    \A docs \in MCInvoices :
        LET overdue == {d \in DOMAIN docs : docs[d].overdue}
            whole == Percentage(Cardinality(overdue), Cardinality(DOMAIN docs))
        IN  /\ \A tag \in InvoiceTags \ {"overdue"} :
                  Cardinality(InvoiceShares(docs, tag)) = 1
            /\ overdue # {} =>
                  (InvoiceShares(docs, "overdue") = {whole}
                     <=> Cardinality({docs[d].status : d \in overdue}) = 1)

\* A status that no tag stands for is missing on the card of the quotes, and is all
\* that is.  (quoteController/summary.js:70-96, PreviewCard.jsx:20-45)
ASSUME QuoteCard ==
    \A docs \in MCQuotes :
        LET shown == MapThenSumSet(LAMBDA tag : QuoteShare(docs, tag), QuoteTags)
        IN  DOMAIN docs # {} /\ shown \notin 98..102
              => \E d \in DOMAIN docs : docs[d].status = "on hold"

\* More than all of the customers are active only if one with an invoice is removed
\* or disabled.  (clientController/summary.js:29-88)
ASSUME ClientCard ==
    \A clients \in MCClients :
        ClientSummary(clients).active > 100
          => \E c \in DOMAIN clients :
                clients[c].invoiced /\ (clients[c].removed \/ ~clients[c].enabled)

\* A price finer than a cent: the row and the stored item differ.
\* (ItemRow.jsx:49 against invoiceController/create.js:30)
ASSUME FinePrice ==
    \E item \in [quantity : {2000}, price : 1..20] : RowTotal(item) # ItemTotal(item)
=============================================================================
