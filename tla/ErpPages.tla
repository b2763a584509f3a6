------------------------------ MODULE ErpPages ------------------------------
(***************************************************************************)
(* The pages of invoices and payments in the browser: table, read, edit,   *)
(* create and record-payment page, the redux store erp that all of them    *)
(* share, the dialog that confirms a deletion, the dashboard, which leads  *)
(* to the same pages from a table of its own, and the calls to the server  *)
(* that a page leaves in flight when the user goes on to the next one.     *)
(* The pages of quotes are the same components under another entity.       *)
(*                                                                         *)
(* The browser runs one task at a time: a click or the arrival of an       *)
(* answer, with its dispatches, the rendering and the effects that follow; *)
(* React flushes all of it before the next task, so it is one action.      *)
(* Effects that run when a component is first rendered see the store as it *)
(* was before the layout effects of its parent.                            *)
(*                                                                         *)
(* A document is its id: the properties are about which document a page is *)
(* showing, saving, paying or deleting, never about what is in it.         *)
(* What a component keeps for itself is its copy of a document of the      *)
(* store, refreshed by an effect in the same task, so it is defined from   *)
(* the store.  Only this user changes the documents.                       *)
(***************************************************************************)
EXTENDS Naturals, FiniteSets, Bags

CONSTANTS
    Invoices,    \* the invoices there may ever be
    Payments,    \* the payments
    Stored,      \* the documents that are stored when the page is opened
    NCalls,      \* bound: calls in flight when the user clicks
    MaxMishaps,  \* bound: the user goes on after so many kinds of mishaps
    None,        \* no document
    Losses       \* whether calls and answers may be lost

Docs == Invoices \cup Payments
Choice == Docs \cup {None}

ASSUME ErpPagesAssumption ==
    /\ Invoices \cap Payments = {}
    /\ Stored \subseteq Docs
    /\ NCalls \in Nat /\ MaxMishaps \in Nat
    /\ None \notin Docs
    /\ Losses \in BOOLEAN

VARIABLES
    doc,         \* the documents on the server
    b            \* the browser

vars == <<doc, b>>

\* The entity of a page is the first part of its path.
Of(entity) == IF entity = "invoice" THEN Invoices ELSE Payments
Entities == {"invoice", "payment"}

\* The page that the router shows.
Page == [name : {"list", "read", "update", "pay", "create", "dashboard"},
         entity : Entities, id : Choice]

\* A key of the store.  The result of the keys update, delete and
\* recordPayment is read by no component.
Slot == [result : Choice, current : Choice, isLoading : BOOLEAN, isSuccess : BOOLEAN]
Keys == {"list", "create", "update", "delete", "read", "recordPayment"}

\* What the table of recent invoices keeps for itself: its rows, and whether
\* its first fetch is not answered yet.
Recent == [rows : SUBSET Docs, isLoading : BOOLEAN]
NoRecent == [rows |-> {}, isLoading |-> TRUE]

\* A call in flight: refused stands for a failure of any kind.  The calls of
\* the dashboard have no key in the store.
Call == [key : Keys \cup {"recent"}, entity : Entities, id : Choice, rows : SUBSET Docs,
         stage : {"sent", "done", "refused"}]

\*   lost     a call or its answer was lost
\*   read     a page was left while a read was in flight
\*   list     a page was left, or the table loaded again, while its list was in flight
\*   save     a page was left, or saved again, while a save was in flight, or its
\*            form was gone when the save was answered
\*   delete   the table was left while a deletion was in flight
\*   payment  a payment was edited
Mishaps == {"lost", "read", "list", "save", "delete", "payment"}

TypeOK ==
    /\ doc \in [Docs -> {"absent", "live", "removed"}]
    /\ b.page \in Page
    /\ b.current \in Choice                       \* store.current.result
    /\ b.rows \subseteq Docs                      \* store.list.result.items
    /\ b.slot \in [Keys -> Slot]
    /\ b.recent \in Recent                        \* the table of the dashboard
    /\ b.modal \in BOOLEAN                        \* the dialog is open
    /\ b.asked \in Choice                         \* the document it names
    /\ \A c \in BagToSet(b.flight) : c \in Call   \* the calls in flight
    /\ b.mishaps \subseteq Mishaps                \* history

-----------------------------------------------------------------------------
(***************************************************************************)
(* The reducer.                                                            *)
(***************************************************************************)

InitialSlot == [result |-> None, current |-> None, isLoading |-> FALSE, isSuccess |-> FALSE]

CurrentItem(s, d) == [s EXCEPT !.current = d]

RequestLoading(s, k) == [s EXCEPT !.slot[k].isLoading = TRUE]

\* A failure keeps the result and the current document of the key.
RequestFailed(s, k) == [s EXCEPT !.slot[k].isLoading = FALSE, !.slot[k].isSuccess = FALSE]

\* Mutant: the flags alone are left.
RequestSuccessBare(s, k, result) ==
    [s EXCEPT !.slot[k] = [isLoading |-> FALSE, isSuccess |-> TRUE]]

\* A success drops the current document of the key.
RequestSuccess(s, k, result) ==
    [s EXCEPT !.slot[k] = [InitialSlot EXCEPT !.result = result, !.isSuccess = TRUE]]

CurrentAction(s, k, d) == [s EXCEPT !.slot[k].current = d]

ResetAction(s, k) == [s EXCEPT !.slot[k] = InitialSlot]

\* Mutant: the rows of the table survive the reset.
ResetSlots(s) == [s EXCEPT !.current = None, !.slot = [k \in Keys |-> InitialSlot]]

ResetState(s) ==
    [s EXCEPT !.current = None, !.rows = {}, !.slot = [k \in Keys |-> InitialSlot]]

-----------------------------------------------------------------------------
(***************************************************************************)
(* Calls, and pages left and opened.                                       *)
(***************************************************************************)

InFlight(s, k) == \E c \in BagToSet(s.flight) : c.key = k
Saves == {"create", "update", "recordPayment"}

\* What is left behind when a page is left.
Abandoned(s) ==
    {k \in {"read", "list", "delete"} : InFlight(s, k)}
        \cup {"save" : k \in {j \in Saves : InFlight(s, j)}}

Sent(k, entity, id) ==
    [key |-> k, entity |-> entity, id |-> id, rows |-> {}, stage |-> "sent"]

\* A call leaves: its key is loading.
Send(s, k, entity, id) ==
    [RequestLoading(s, k) EXCEPT
        !.flight = @ (+) SetToBag({Sent(k, entity, id)}),
        !.mishaps = @ \cup (Abandoned(s) \cap ({"list"} \cap {k}))]

\* navigate: the components of the page before are gone, and with them what
\* they waited for themselves.
At(s, name, entity, id) ==
    [s EXCEPT !.page = [name |-> name, entity |-> entity, id |-> id],
              !.modal = FALSE, !.asked = None, !.recent = NoRecent,
              !.flight = [c \in {x \in BagToSet(@) : x.key # "recent"} |-> @[c]],
              !.mishaps = @ \cup Abandoned(s)]

\* The table: the store is reset, the list is asked for; a success of an
\* earlier deletion that is still in the store asks for it a second time.
OpenList(s, entity) ==
    LET once == Send(ResetState(At(s, "list", entity, None)), "list", entity, None)
    IN  IF s.slot["delete"].isSuccess THEN Send(once, "list", entity, None) ELSE once

\* A table of recent invoices asks for its rows.
Fetch(s) == [s EXCEPT !.flight = @ (+) SetToBag({Sent("recent", "invoice", None)})]

\* The dashboard leaves the store as it is.
OpenDashboard(s) == Fetch(At(s, "dashboard", "invoice", None))

\* A page that takes its document from the table, and reads it otherwise.
TakeRow(s, entity, id) ==
    IF id \in s.rows THEN CurrentItem(s, id) ELSE Send(s, "read", entity, id)

OpenReadInvoice(s, id) == Send(At(s, "read", "invoice", id), "read", "invoice", id)
OpenReadPayment(s, id) == TakeRow(At(s, "read", "payment", id), "payment", id)
OpenRead(s, entity, id) ==
    IF entity = "invoice" THEN OpenReadInvoice(s, id) ELSE OpenReadPayment(s, id)

\* Mutant: the page does not wait for the read that is in flight.
ReadBefore(s) == s.slot["read"].isSuccess

\* The page of a read that has succeeded, instead of the loader or NotFound.
ReadDone(s) == ~s.slot["read"].isLoading /\ s.slot["read"].isSuccess

\* Mutant: the success of a save is not reset.
SavedKept(s) == OpenReadInvoice(s, s.page.id)

\* The effect of UpdateItem on the success of a save: to the page of the
\* document that is in the path.
Saved(s) == OpenReadInvoice(ResetAction(s, "update"), s.page.id)

\* The effect of UpdatePayment resets the key recordPayment, not update.
SavedPayment(s, d) ==
    LET reset == At(ResetAction(s, "recordPayment"), "read", "payment", d)
        asked == [Send(reset, "list", "payment", None) EXCEPT !.mishaps = @ \cup {"payment"}]
    IN  TakeRow(asked, "payment", d)

\* The edit page reads its document; the result of an earlier read is put in
\* the form until the answer, and a success that is still in the store closes it.
OpenUpdate(s, entity, id) ==
    LET asked == Send(At(s, "update", entity, id), "read", entity, id)
        stale == s.slot["read"].result
        given == IF stale # None THEN CurrentAction(asked, "update", stale) ELSE asked
    IN  IF ~(ReadDone(s) /\ s.slot["update"].isSuccess) THEN given
        ELSE IF entity = "invoice" THEN Saved(given)
        ELSE SavedPayment(given, stale)

\* The effect of RecordPayment on the success of a payment: to the table.
PaymentRecorded(s) ==
    OpenList(Send(ResetAction(s, "recordPayment"), "list", "invoice", None), "invoice")

\* The page to record a payment for an invoice: the payment is for the
\* current item of the store.
OpenPay(s, id) ==
    LET taken == TakeRow(At(s, "pay", "invoice", id), "invoice", id)
        given == CurrentAction(taken, "recordPayment", taken.current)
    IN  IF s.current # None /\ s.slot["recordPayment"].isSuccess
        THEN PaymentRecorded(given) ELSE given

\* The effect of CreateItem on the success of a creation.
Created(s) == OpenReadInvoice(ResetAction(s, "create"), s.slot["create"].result)

OpenCreate(s) ==
    LET open == At(s, "create", "invoice", None)
    IN  IF s.slot["create"].isSuccess THEN Created(open) ELSE open

-----------------------------------------------------------------------------
(***************************************************************************)
(* What the pages show and act on.                                         *)
(***************************************************************************)

\* The document in the form of the edit page: UpdateItem fills it from the
\* key update, UpdatePayment from the result of the read.
Form(s) == IF s.page.entity = "invoice" THEN s.slot["update"].current ELSE s.slot["read"].result
FormOpen(s) == s.page.name = "update" /\ ReadDone(s)

\* The document a save is sent for.
SaveId(s) == IF s.page.entity = "invoice" THEN s.page.id ELSE s.slot["read"].result

\* The read pages and the page to pay show the current item.
InvoiceOpen(s) == s.page.name = "read" /\ s.page.entity = "invoice" /\ ReadDone(s)
PaymentOpen(s) == s.page.name = "read" /\ s.page.entity = "payment" /\ s.current # None
PayOpen(s) == s.page.name = "pay" /\ s.current # None

PageOpen(s) == InvoiceOpen(s) \/ PaymentOpen(s) \/ PayOpen(s)

\* Mutant: the page shows the result of the last read.
ShownRead(s) == s.slot["read"].result

Shown(s) == s.current

-----------------------------------------------------------------------------
(***************************************************************************)
(* The server.                                                             *)
(***************************************************************************)

Live == {d \in Docs : doc[d] = "live"}

Replace(c, d) == b' = [b EXCEPT !.flight = (@ (-) SetToBag({c})) (+) SetToBag({d})]
Answered(c, ok) == Replace(c, [c EXCEPT !.stage = IF ok THEN "done" ELSE "refused"])

ServeList(c) ==
    /\ c.key \in {"list", "recent"} /\ c.stage = "sent"
    /\ Replace(c, [c EXCEPT !.stage = "done", !.rows = Live \cap Of(c.entity)])
    /\ UNCHANGED doc

\* A document that is removed, or of another collection, is not found.
ServeRead(c) ==
    /\ c.key \in {"read", "update"} /\ c.stage = "sent"
    /\ Answered(c, c.id \in Live \cap Of(c.entity))
    /\ UNCHANGED doc

ServeCreate(c, d) ==
    /\ c.key = "create" /\ c.stage = "sent"
    /\ d \in Invoices /\ doc[d] = "absent"
    /\ doc' = [doc EXCEPT ![d] = "live"]
    /\ Replace(c, [c EXCEPT !.stage = "done", !.id = d])

\* The payment that is recorded is not followed further.
ServePay(c) ==
    /\ c.key = "recordPayment" /\ c.stage = "sent"
    /\ Answered(c, c.id \in Live \cap Invoices)
    /\ UNCHANGED doc

ServeDelete(c) ==
    /\ c.key = "delete" /\ c.stage = "sent"
    /\ LET found == c.id \in Live \cap Of(c.entity)
       IN  /\ doc' = IF found THEN [doc EXCEPT ![c.id] = "removed"] ELSE doc
           /\ Answered(c, found)

\* The call, or its answer, is lost: the browser is told so.
Lose(c) ==
    /\ Losses
    /\ c.stage # "refused"
    /\ b' = [b EXCEPT !.flight = (@ (-) SetToBag({c})) (+) SetToBag({[c EXCEPT !.stage = "refused", !.rows = {}]}),
                      !.mishaps = @ \cup {"lost"}]
    /\ UNCHANGED doc

-----------------------------------------------------------------------------
(***************************************************************************)
(* Answers.                                                                *)
(***************************************************************************)

Taken(c) == [b EXCEPT !.flight = @ (-) SetToBag({c})]
Arrives(c, k) == c.key = k /\ c.stage # "sent"

\* The effect of the pages on a new list: a page that shows a row of the
\* table has a new copy of it, or none.
Relisted(s, old) ==
    IF /\ \/ s.page.name = "read" /\ s.page.entity = "payment"
          \/ s.page.name = "pay"
       /\ s.page.id \in s.rows \cup old
    THEN TakeRow(s, s.page.entity, s.page.id) ELSE s

\* The effect of the page to pay on a new current item.
Refreshed(s) ==
    IF s.page.name = "pay" THEN CurrentAction(s, "recordPayment", s.current) ELSE s

AnswerList(c) ==
    /\ Arrives(c, "list")
    /\ b' = IF c.stage = "done"
            THEN Refreshed(Relisted([RequestSuccess(Taken(c), "list", None) EXCEPT !.rows = c.rows], b.rows))
            ELSE RequestFailed(Taken(c), "list")
    /\ UNCHANGED doc

\* The form of an edit page takes the answer; when it was not there before,
\* a success that is still in the store closes it.
AnswerRead(c) ==
    LET read == RequestSuccess(CurrentItem(Taken(c), c.id), "read", c.id)
        given == IF read.page.name = "update" THEN CurrentAction(read, "update", c.id) ELSE Refreshed(read)
    IN  /\ Arrives(c, "read")
        /\ b' = IF c.stage # "done" THEN RequestFailed(Taken(c), "read")
                ELSE IF b.page.name = "update" /\ b.slot["update"].isSuccess /\ ~ReadDone(b)
                     THEN IF b.page.entity = "invoice" THEN Saved(given) ELSE SavedPayment(given, c.id)
                     ELSE given
        /\ UNCHANGED doc

AnswerUpdate(c) ==
    LET saved == Refreshed(CurrentItem(RequestSuccess(Taken(c), "update", None), c.id))
    IN  /\ Arrives(c, "update")
        /\ b' = IF c.stage # "done" THEN RequestFailed(Taken(c), "update")
                ELSE IF FormOpen(b) /\ ~b.slot["update"].isSuccess
                     THEN IF b.page.entity = "invoice" THEN Saved(saved)
                          ELSE SavedPayment(saved, b.slot["read"].result)
                     ELSE [saved EXCEPT !.mishaps = @ \cup {"save"}]
        /\ UNCHANGED doc

AnswerCreate(c) ==
    LET created == Refreshed(CurrentItem(RequestSuccess(Taken(c), "create", c.id), c.id))
    IN  /\ Arrives(c, "create")
        /\ b' = IF c.stage # "done" THEN RequestFailed(Taken(c), "create")
                ELSE IF b.page.name = "create" /\ ~b.slot["create"].isSuccess
                     THEN Created(created) ELSE created
        /\ UNCHANGED doc

AnswerPay(c) ==
    LET paid == CurrentItem(RequestSuccess(Taken(c), "recordPayment", None), c.id)
    IN  /\ Arrives(c, "recordPayment")
        /\ b' = IF c.stage # "done" THEN RequestFailed(Taken(c), "recordPayment")
                ELSE IF b.page.name = "pay" /\ ~b.slot["recordPayment"].isSuccess
                     THEN PaymentRecorded(Refreshed(paid)) ELSE Refreshed(paid)
        /\ UNCHANGED doc

\* Mutant: a late success leaves the dialog open.
DeleteEffectOpen(s) == Send(s, "list", s.page.entity, None)

\* Mutant: the table is not loaded again.
DeleteEffectQuiet(s) == [s EXCEPT !.modal = FALSE]

\* The effect of DeleteItem on a success, as long as its flag or its
\* document has changed: the dialog closes and the table loads.
DeleteEffect(s) == Send([s EXCEPT !.modal = FALSE], "list", s.page.entity, None)

AnswerDelete(c) ==
    LET deleted == RequestSuccess(Taken(c), "delete", None)
        changed == ~b.slot["delete"].isSuccess \/ b.slot["delete"].current # None
    IN  /\ Arrives(c, "delete")
        /\ b' = IF c.stage # "done" THEN RequestFailed(Taken(c), "delete")
                ELSE IF b.page.name = "list" /\ changed THEN DeleteEffect(deleted) ELSE deleted
        /\ UNCHANGED doc

\* A failure empties the table.  The effect that fetches depends on the flag it
\* clears: the first answer has it run a second time.
AnswerRecent(c) ==
    LET shown == [Taken(c) EXCEPT !.recent = [rows |-> c.rows, isLoading |-> FALSE]]
    IN  /\ Arrives(c, "recent")
        /\ b' = IF b.recent.isLoading THEN Fetch(shown) ELSE shown
        /\ UNCHANGED doc

-----------------------------------------------------------------------------
(***************************************************************************)
(* The user.  The dialog covers the page while it is open.                 *)
(***************************************************************************)

Click(name) ==
    /\ b.page.name = name
    /\ ~b.modal
    /\ BagCardinality(b.flight) < NCalls
    /\ Cardinality(b.mishaps) <= MaxMishaps
    /\ UNCHANGED doc

\* The menu, and the buttons Cancel, Close and Back of the pages.  A link to
\* the page that is shown changes nothing.
GoToList(entity) ==
    /\ Click(b.page.name)
    /\ b.page.name = "list" => b.page.entity # entity
    /\ b' = OpenList(b, entity)

GoToDashboard ==
    /\ Click(b.page.name)
    /\ b.page.name # "dashboard"
    /\ b' = OpenDashboard(b)

ShowRecent(d) ==
    /\ Click("dashboard") /\ d \in b.recent.rows
    /\ b' = OpenRead(CurrentItem(b, d), "invoice", d)

EditRecent(d) ==
    /\ Click("dashboard") /\ d \in b.recent.rows
    /\ b' = OpenUpdate(CurrentAction(b, "update", d), "invoice", d)

\* The table is refreshed, turned to another page or filtered.
LoadTable ==
    /\ Click("list")
    /\ b' = Send(b, "list", b.page.entity, None)

ShowRow(d) ==
    /\ Click("list") /\ d \in b.rows
    /\ b' = OpenRead(CurrentItem(b, d), b.page.entity, d)

EditRow(d) ==
    /\ Click("list") /\ d \in b.rows
    /\ b' = OpenUpdate(CurrentAction(b, "update", d), b.page.entity, d)

PayRow(d) ==
    /\ Click("list") /\ d \in b.rows /\ b.page.entity = "invoice"
    /\ b' = OpenPay(CurrentItem(b, d), d)

\* The dialog opens, and the effect of DeleteItem runs as its document has
\* changed: with the success of an earlier deletion it closes the dialog.
DeleteRow(d) ==
    /\ Click("list") /\ d \in b.rows
    /\ LET open == [CurrentAction(b, "delete", d) EXCEPT !.modal = TRUE, !.asked = d]
       IN  b' = IF b.slot["delete"].isSuccess THEN DeleteEffect(open) ELSE open

\* OK and Cancel of the dialog wait for the deletion that is in flight.
Dialog ==
    /\ b.modal
    /\ ~b.slot["delete"].isLoading
    /\ UNCHANGED doc

ConfirmDelete ==
    /\ Dialog
    /\ b' = [Send(ResetAction(b, "delete"), "delete", b.page.entity, b.slot["delete"].current)
                EXCEPT !.modal = FALSE]

CancelDelete ==
    /\ Dialog
    /\ b' = [b EXCEPT !.modal = FALSE]

NewInvoice ==
    /\ Click("list") /\ b.page.entity = "invoice"
    /\ b' = OpenCreate(b)

EditShown ==
    /\ Click("read") /\ PageOpen(b) /\ Shown(b) # None
    /\ b' = OpenUpdate(CurrentAction(b, "update", Shown(b)), b.page.entity, Shown(b))

\* The save button is outside of the part of the page that waits for a save.
SaveInvoice ==
    /\ Click("update") /\ b.page.entity = "invoice" /\ FormOpen(b)
    /\ b' = [Send(b, "update", "invoice", SaveId(b)) EXCEPT
                !.mishaps = @ \cup (Abandoned(b) \cap {"save"})]

SavePayment ==
    /\ Click("update") /\ b.page.entity = "payment" /\ FormOpen(b)
    /\ ~b.slot["update"].isLoading
    /\ b' = Send(b, "update", "payment", SaveId(b))

SaveNew ==
    /\ Click("create")
    /\ LET new == Sent("create", "invoice", None)
           waiting == IF new \in BagToSet(b.flight) THEN b.flight[new] ELSE 0
       IN  Cardinality({d \in Invoices : doc[d] = "absent"}) > waiting
    /\ b' = [Send(b, "create", "invoice", None) EXCEPT
                !.mishaps = @ \cup (Abandoned(b) \cap {"save"})]

Pay ==
    /\ Click("pay") /\ PayOpen(b)
    /\ ~b.slot["recordPayment"].isLoading
    /\ b' = Send(b, "recordPayment", "invoice", b.slot["recordPayment"].current)

\* The button of the page to pay, and the one of the edit page of a payment,
\* which looks for an invoice with the id of the payment.
ShowInvoice ==
    /\ \/ Click("pay") /\ PayOpen(b) /\ b' = OpenReadInvoice(b, Shown(b))
       \/ /\ Click("update") /\ b.page.entity = "payment" /\ FormOpen(b)
          /\ b' = OpenReadInvoice(b, Form(b))

-----------------------------------------------------------------------------
Init ==
    /\ doc = [d \in Docs |-> IF d \in Stored THEN "live" ELSE "absent"]
    /\ b = OpenList([page |-> [name |-> "list", entity |-> "invoice", id |-> None],
                     current |-> None, rows |-> {}, slot |-> [k \in Keys |-> InitialSlot],
                     recent |-> NoRecent, modal |-> FALSE, asked |-> None, flight |-> EmptyBag, mishaps |-> {}],
                    "invoice")

Serve(c) ==
    \/ ServeList(c)
    \/ ServeRead(c)
    \/ \E d \in Docs : ServeCreate(c, d)
    \/ ServePay(c)
    \/ ServeDelete(c)

Answer(c) ==
    \/ AnswerList(c)
    \/ AnswerRead(c)
    \/ AnswerUpdate(c)
    \/ AnswerCreate(c)
    \/ AnswerPay(c)
    \/ AnswerDelete(c)
    \/ AnswerRecent(c)

UseTable ==
    \/ LoadTable
    \/ NewInvoice
    \/ \E d \in Docs : ShowRow(d) \/ EditRow(d) \/ PayRow(d) \/ DeleteRow(d)

User ==
    \/ \E entity \in Entities : GoToList(entity)
    \/ UseTable
    \/ ConfirmDelete
    \/ CancelDelete
    \/ GoToDashboard
    \/ \E d \in Docs : ShowRecent(d) \/ EditRecent(d)
    \/ EditShown
    \/ SaveInvoice
    \/ SavePayment
    \/ SaveNew
    \/ Pay
    \/ ShowInvoice

Next ==
    \/ User
    \/ \E c \in BagToSet(b.flight) : Serve(c) \/ Answer(c) \/ Lose(c)

Spec == Init /\ [][Next]_vars
-----------------------------------------------------------------------------
(***************************************************************************)
(* Properties.                                                             *)
(***************************************************************************)

\* The form that can be saved holds the document of the path, unless the
\* user has left a page before its read was answered: then the answer to
\* that read fills the form, which is saved under the id of the path.
EditsItsDocument ==
    FormOpen(b) => Form(b) = b.page.id \/ "read" \in b.mishaps

\* A read page and the page to pay show the document of their path, unless
\* a read or a save was left behind, whose answer replaces the current item
\* of the store.
ShowsItsDocument ==
    PageOpen(b) => \/ Shown(b) = b.page.id
                   \/ b.mishaps \cap {"read", "save"} # {}

\* What is paid for is the invoice that the page shows, and the dialog names
\* the document that is deleted when it is confirmed: the page and its buttons
\* take them from different slots of the store, written by different effects.
ActsOnWhatIsShown ==
    /\ PayOpen(b) => b.slot["recordPayment"].current = Shown(b)
    /\ b.modal => b.asked = b.slot["delete"].current

\* The rows of a table are documents of its entity, unless the user has
\* left a table before its list was answered.
RowsOfItsEntity ==
    b.page.name = "list" => b.rows \subseteq Of(b.page.entity) \/ "list" \in b.mishaps

\* Once the calls are answered the table shows no removed document, unless
\* a call was lost, two lists overlapped or a deletion was left behind.
RemovedLeaveTheTable ==
    b.page.name = "list" /\ b.flight = EmptyBag /\ b.mishaps \cap {"lost", "list", "delete"} = {}
        => b.rows \subseteq Live

\* The edit and create pages open when the user asks for them, and an answer
\* closes them only if it is the answer to a save of the document of the
\* path (of a payment: that an earlier read has put in the form), unless a
\* save was left behind before, or a payment was edited.
Leaves(name) == b.page.name = name /\ b'.page # b.page
OwnSave(c) ==
    /\ c.stage = "done"
    /\ \/ c.key = "create" /\ b.page.name = "create"
       \/ /\ c.key = "update" /\ b.page.name = "update"
          /\ \/ c.id = b.page.id
             \/ b.page.entity = "payment" /\ "read" \in b.mishaps
ClosedBySave ==
    [][\/ b.mishaps \cap {"save", "payment"} # {}
       \/ /\ NewInvoice => b'.page.name = "create"
          /\ (\E d \in Docs : EditRow(d) \/ EditRecent(d)) \/ EditShown => b'.page.name = "update"
          /\ \A c \in BagToSet(b.flight) :
                Answer(c) /\ (Leaves("update") \/ Leaves("create")) => OwnSave(c)]_vars
=============================================================================
