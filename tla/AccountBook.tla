---------------------------- MODULE AccountBook -----------------------------
(***************************************************************************)
(* What the invoice and payment routes promise a user who works alone: an  *)
(* account per invoice, with a total and one entry per payment.  Every     *)
(* operation is atomic, the balance is the sum of the entries, the status  *)
(* follows from total and balance, and no operation but a change of the    *)
(* total makes the balance exceed it.  Ledger implements this when         *)
(* requests are served one at a time (LedgerSerial).                       *)
(***************************************************************************)
EXTENDS Integers

CONSTANTS
    Invoices, NoInvoice, NPayments, Amounts, Totals

VARIABLES
    account,      \* per invoice: its state, total, balance and status
    entry         \* per payment: the invoice it is entered for, and its amount

vars == <<account, entry>>

Payments == 1..NPayments

StatusOf(total, balance) ==
    IF total = balance THEN "paid" ELSE IF balance > 0 THEN "partially" ELSE "unpaid"

NoEntry == [invoice |-> NoInvoice, amount |-> 0]

Init ==
    /\ account = [i \in Invoices |-> [state |-> "absent", total |-> 0, balance |-> 0,
                                      status |-> "unpaid"]]
    /\ entry = [p \in Payments |-> NoEntry]

\* The account after its balance has changed by delta.
Moved(a, delta) ==
    [a EXCEPT !.balance = @ + delta, !.status = StatusOf(a.total, a.balance + delta)]

Open(i, total) ==
    /\ account[i].state = "absent"
    /\ account' = [account EXCEPT ![i] = [state |-> "live", total |-> total, balance |-> 0,
                                          status |-> StatusOf(total, 0)]]
    /\ UNCHANGED entry

Reprice(i, total) ==
    /\ account[i].state = "live"
    /\ account' = [account EXCEPT ![i].total = total,
                                  ![i].status = StatusOf(total, account[i].balance)]
    /\ UNCHANGED entry

\* Closing strikes the entries; the balance stays as a record.
Close(i) ==
    /\ account[i].state = "live"
    /\ account' = [account EXCEPT ![i].state = "removed"]
    /\ entry' = [p \in Payments |-> IF entry[p].invoice = i THEN NoEntry ELSE entry[p]]

\* A change of the balance of i by delta that the limit allows.
Allowed(i, delta) ==
    /\ account[i].state = "live"
    /\ account[i].balance + delta <= account[i].total

Enter(p, i, amount) ==
    /\ entry[p] = NoEntry
    /\ Allowed(i, amount)
    /\ entry' = [entry EXCEPT ![p] = [invoice |-> i, amount |-> amount]]
    /\ account' = [account EXCEPT ![i] = Moved(@, amount)]

Amend(p, amount) ==
    LET i == entry[p].invoice
        delta == amount - entry[p].amount
    IN  /\ entry[p] # NoEntry
        /\ Allowed(i, delta)
        /\ entry' = [entry EXCEPT ![p].amount = amount]
        /\ account' = [account EXCEPT ![i] = Moved(@, delta)]

Strike(p) ==
    LET i == entry[p].invoice
    IN  /\ entry[p] # NoEntry
        /\ entry' = [entry EXCEPT ![p] = NoEntry]
        /\ account' = [account EXCEPT ![i] = Moved(@, 0 - entry[p].amount)]

Next ==
    \/ \E i \in Invoices, total \in Totals : Open(i, total) \/ Reprice(i, total)
    \/ \E i \in Invoices : Close(i)
    \/ \E p \in Payments, i \in Invoices, amount \in Amounts : Enter(p, i, amount)
    \/ \E p \in Payments, amount \in Amounts : Amend(p, amount)
    \/ \E p \in Payments : Strike(p)

Spec == Init /\ [][Next]_vars
=============================================================================
