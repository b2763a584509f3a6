----------------------------- MODULE CrudPanel -----------------------------
(***************************************************************************)
(* The page of a table in the browser (customers, taxes, payment modes):   *)
(* CrudModule with its DataTable, side panel, SearchItem, UpdateForm,      *)
(* CreateForm and DeleteModal, the redux store crud they share, and the calls to the      *)
(* server that the user's clicks leave in flight.                          *)
(*                                                                         *)
(* The browser runs one task at a time: a click, or the arrival of an      *)
(* answer, with the dispatches it makes, the rendering that follows and    *)
(* the effects of the components.  React flushes all of it before the next *)
(* task, so it is one action.  A call is served at one moment, its answer  *)
(* arrives at a later one, and answers may arrive in any order.            *)
(*                                                                         *)
(* The store is what the components read of it: no one reads the result of *)
(* the create, update and delete slots.  Which parts of the panel are      *)
(* folded away is layout and left out, so the user may use a form whenever *)
(* there is a way to bring it up; what a form or a dialog that is not seen *)
(* holds is left out as well, as it is filled before it is seen again.     *)
(* Nobody else changes the collection.                                     *)
(***************************************************************************)
EXTENDS Naturals, FiniteSets

CONSTANTS
    NItems,      \* documents are 1..NItems, in the order of their creation
    NStored,     \* how many of them are stored when the page is opened
    NCalls,      \* bound: calls in flight have the slots 1..NCalls
    MaxCalls,    \* bound: calls made by clicks over the whole behaviour
    Queries,     \* what a page or a search of the table can select
    Texts,       \* what can be typed in the search field: the documents it matches
    None,        \* no document
    Losses       \* whether calls and answers may be lost

Items == 1..NItems
Calls == 1..NCalls

ASSUME CrudPanelAssumption ==
    /\ NItems \in Nat \ {0} /\ NStored \in 0..NItems
    /\ NCalls \in Nat \ {0} /\ MaxCalls \in Nat
    /\ Queries \subseteq SUBSET Items
    /\ Texts \subseteq SUBSET Items
    /\ None \notin Items /\ None \notin Texts
    /\ Losses \in BOOLEAN

VARIABLES
    doc,         \* the collection on the server
    store,       \* the store crud
    view,        \* the state of the components
    call,        \* the calls in flight
    made,        \* calls made by clicks and by the search field so far
    ahead,       \* history: the list calls served before each, and not yet answered
    mishaps      \* history: what has happened to calls so far

vars == <<doc, store, view, call, made, ahead, mishaps>>

\* A row of the table: a document as it was at one of its revisions.
Copy == [id : Items, rev : Nat]
Choice == Items \cup {None}

\* A key of the store: the document chosen for it, and its two flags.
Slot == [current : Choice, isLoading : BOOLEAN, isSuccess : BOOLEAN]
Keys == {"create", "update", "delete"}
Table == [items : SUBSET Copy, query : SUBSET Items, isLoading : BOOLEAN]

\* The key search of the store, and what the field keeps for itself: the text that
\* was typed last, the text that was sent last, and its options.
Search == [result : SUBSET Items, isLoading : BOOLEAN, isSuccess : BOOLEAN]
Field == [text : Texts \cup {None}, sought : Texts \cup {None}, options : SUBSET Items]
NoSearch == [text |-> None, sought |-> None, options |-> {}]

Call == [kind : {"idle", "list", "search"} \cup Keys, stage : {"sent", "served"},
         id : Items, query : SUBSET Items,
         ok : BOOLEAN, copies : SUBSET Copy]    \* the answer
NoCall == [kind |-> "idle", stage |-> "sent", id |-> 1, query |-> {},
           ok |-> FALSE, copies |-> {}]

\*   lost       a call or its answer was lost
\*   reordered  the answers to two list calls arrived out of order
\*   deletions  a deletion was confirmed while another one was in flight
Mishaps == {"lost", "reordered", "deletions"}

TypeOK ==
    /\ doc \in [Items -> [state : {"absent", "live", "removed"}, rev : Nat]]
    /\ store \in [current : Choice, list : Table, slot : [Keys -> Slot], search : Search]
    /\ view \in [modal : BOOLEAN,                 \* the dialog of DeleteModal is open
                 asked : Choice,                  \* the document it names
                 box : {"none", "read", "edit"},  \* the box that is open in the panel
                 form : Choice,                   \* the document in its form
                 field : Field]                   \* the search field
    /\ call \in [Calls -> Call]
    /\ made \in Nat
    /\ ahead \in [Calls -> SUBSET Calls]
    /\ mishaps \subseteq Mishaps

-----------------------------------------------------------------------------
(***************************************************************************)
(* The reducer.                                                            *)
(***************************************************************************)

InitialSlot == [current |-> None, isLoading |-> FALSE, isSuccess |-> FALSE]

Loading(slot) == [slot EXCEPT !.isLoading = TRUE]

\* Mutant: a failure does not end the loading.
FailedLoading(slot) == [slot EXCEPT !.isSuccess = FALSE]

Failed(slot) == [slot EXCEPT !.isLoading = FALSE, !.isSuccess = FALSE]

\* Mutant: the flags alone are left.
SucceededBare(slot) == [isLoading |-> FALSE, isSuccess |-> TRUE]

\* REQUEST_SUCCESS keeps nothing of the slot.
Succeeded(slot) == [current |-> None, isLoading |-> FALSE, isSuccess |-> TRUE]

\* Mutant: the flags of the slot are kept.
CurrentActionKept(slot, id) == [slot EXCEPT !.current = id]

CurrentAction(slot, id) == [InitialSlot EXCEPT !.current = id]

InitialStore ==
    [current |-> None,
     list |-> [items |-> {}, query |-> {}, isLoading |-> FALSE],
     slot |-> [k \in Keys |-> InitialSlot],
     search |-> [result |-> {}, isLoading |-> FALSE, isSuccess |-> FALSE]]

-----------------------------------------------------------------------------
(***************************************************************************)
(* Calls.                                                                  *)
(***************************************************************************)

InFlight(kind) == {c \in Calls : call[c].kind = kind}
Idle == InFlight("idle")

\* The dialog covers the page: nothing else can be clicked while it is open.
Reachable == ~view.modal

\* A call made by a click takes the first idle slot.
Click(c) ==
    /\ c \in Idle
    /\ \A b \in Calls : b < c => b \notin Idle
    /\ made < MaxCalls
    /\ made' = made + 1

Sent(kind, id) == [NoCall EXCEPT !.kind = kind, !.id = id]
ListCall(query) == [NoCall EXCEPT !.kind = "list", !.query = query]
ListLoading(s) == [s EXCEPT !.list.isLoading = TRUE]

\* The page is mounted: the store is reset, and the table loads.
Init ==
    /\ doc = [i \in Items |-> [state |-> IF i <= NStored THEN "live" ELSE "absent", rev |-> 0]]
    /\ store = ListLoading(InitialStore)
    /\ view = [modal |-> FALSE, asked |-> None, box |-> "none", form |-> None,
               field |-> NoSearch]
    /\ call = [c \in Calls |-> IF c = 1 THEN ListCall(Items) ELSE NoCall]
    /\ made = 0
    /\ ahead = [c \in Calls |-> {}]
    /\ mishaps = {}

CopyOf(i) == [id |-> i, rev |-> doc[i].rev]
Live == {i \in Items : doc[i].state = "live"}

Answered(c, ok, copies) ==
    call' = [call EXCEPT ![c].stage = "served", ![c].ok = ok, ![c].copies = copies]

\* The server answers with the live documents that are asked for.
ServeList(c) ==
    /\ call[c].kind = "list" /\ call[c].stage = "sent"
    /\ Answered(c, TRUE, {CopyOf(i) : i \in Live \cap call[c].query})
    /\ ahead' = [ahead EXCEPT ![c] = {d \in InFlight("list") : call[d].stage = "served"}]
    /\ UNCHANGED <<doc, store, view, made, mishaps>>

\* A search that finds nothing is answered as a failure.
ServeSearch(c) ==
    /\ call[c].kind = "search" /\ call[c].stage = "sent"
    /\ LET found == Live \cap call[c].query
       IN  Answered(c, found # {}, {CopyOf(i) : i \in found})
    /\ UNCHANGED <<doc, store, view, made, ahead, mishaps>>

ServeCreate(c, i) ==
    /\ call[c].kind = "create" /\ call[c].stage = "sent"
    /\ doc[i].state = "absent"
    /\ \A j \in Items : j < i => doc[j].state # "absent"
    /\ doc' = [doc EXCEPT ![i].state = "live"]
    /\ Answered(c, TRUE, {CopyOf(i)})
    /\ UNCHANGED <<store, view, made, ahead, mishaps>>

\* A removed document is not found.
ServeUpdate(c) ==
    LET i == call[c].id
    IN  /\ call[c].kind = "update" /\ call[c].stage = "sent"
        /\ IF i \in Live
           THEN /\ doc' = [doc EXCEPT ![i].rev = @ + 1]
                /\ Answered(c, TRUE, {})
           ELSE /\ Answered(c, FALSE, {})
                /\ UNCHANGED doc
        /\ UNCHANGED <<store, view, made, ahead, mishaps>>

\* A document that is removed already is removed again.
ServeDelete(c) ==
    /\ call[c].kind = "delete" /\ call[c].stage = "sent"
    /\ doc' = [doc EXCEPT ![call[c].id].state = "removed"]
    /\ Answered(c, TRUE, {})
    /\ UNCHANGED <<store, view, made, ahead, mishaps>>

-----------------------------------------------------------------------------
(***************************************************************************)
(* The user.                                                               *)
(***************************************************************************)

\* What the user can act on: the rows, and the document that the panel shows.
Rows == {copy.id : copy \in store.list.items}
InPanel == IF view.box = "none" THEN {} ELSE {store.current} \ {None}
AtHand == Rows \cup InPanel

\* Another page, a search in the table, or a refresh.
LoadTable(c, query) ==
    /\ Reachable
    /\ Click(c)
    /\ call' = [call EXCEPT ![c] = ListCall(query)]
    /\ store' = ListLoading(store)
    /\ UNCHANGED <<doc, view, ahead, mishaps>>

\* A box other than the one of the form is shown.
Shown(box) == [view EXCEPT !.box = box, !.form = None]
Dismissed(v) == [v EXCEPT !.modal = FALSE, !.asked = None]

\* A row is shown in the panel ...
ShowRow(id) ==
    /\ Reachable
    /\ id \in Rows
    /\ store' = [store EXCEPT !.current = id]
    /\ view' = Shown("read")
    /\ UNCHANGED <<doc, call, made, ahead, mishaps>>

\* The effect of UpdateForm fills the form with the document chosen.
Filled(id) == [view EXCEPT !.box = "edit", !.form = id]

\* ... or edited there, or is the one the panel shows.
Edit(id) ==
    /\ Reachable
    /\ id \in AtHand
    /\ store' = [store EXCEPT !.current = id,
                              !.slot["update"] = CurrentAction(@, id)]
    /\ view' = Filled(id)
    /\ UNCHANGED <<doc, call, made, ahead, mishaps>>

CancelEdit ==
    /\ Reachable
    /\ view.box = "edit"
    /\ view' = Shown("read")
    /\ UNCHANGED <<doc, store, call, made, ahead, mishaps>>

\* Deletion of a row or of what the panel shows: the dialog opens and its effect
\* takes the name of the document.
AskToDelete(id) ==
    /\ Reachable
    /\ id \in AtHand
    /\ store' = [store EXCEPT !.slot["delete"] = CurrentAction(@, id)]
    /\ view' = [view EXCEPT !.modal = TRUE, !.asked = id]
    /\ UNCHANGED <<doc, call, made, ahead, mishaps>>

\* The button that confirms is out of service while a deletion is loading.
ConfirmDelete(c) ==
    LET chosen == store.slot["delete"].current
    IN  /\ view.modal
        /\ ~store.slot["delete"].isLoading
        /\ chosen # None
        /\ Click(c)
        /\ call' = [call EXCEPT ![c] = Sent("delete", chosen)]
        /\ store' = [store EXCEPT !.slot["delete"] = Loading(InitialSlot)]
        /\ view' = [Dismissed(view) EXCEPT !.box = IF @ = "read" THEN "none" ELSE @]
        /\ mishaps' = IF InFlight("delete") = {} THEN mishaps ELSE mishaps \cup {"deletions"}
        /\ UNCHANGED <<doc, ahead>>

CancelDelete ==
    /\ view.modal
    /\ ~store.slot["delete"].isLoading
    /\ view' = Dismissed(view)
    /\ UNCHANGED <<doc, store, call, made, ahead, mishaps>>

\* The creations in flight are bounded by the identifiers that are left.
SubmitCreate(c) ==
    /\ Reachable
    /\ Cardinality(InFlight("create")) < Cardinality({i \in Items : doc[i].state = "absent"})
    /\ Click(c)
    /\ call' = [call EXCEPT ![c] = Sent("create", 1)]
    /\ store' = [store EXCEPT !.slot["create"] = Loading(@)]
    /\ UNCHANGED <<doc, view, ahead, mishaps>>

\* The spinner over the form does not stop the Enter key.
SubmitUpdate(c) ==
    LET chosen == store.slot["update"].current
    IN  /\ Reachable
        /\ view.box = "edit"
        /\ chosen # None
        /\ Click(c)
        /\ call' = [call EXCEPT ![c] = Sent("update", chosen)]
        /\ store' = [store EXCEPT !.slot["update"] = Loading(@)]
        /\ UNCHANGED <<doc, view, ahead, mishaps>>

\* Typing empties the options.
Type(text) ==
    /\ Reachable
    /\ view' = [view EXCEPT !.field.text = text, !.field.options = {}]
    /\ UNCHANGED <<doc, store, call, made, ahead, mishaps>>

\* The timer of the field runs out after a pause: a text that differs from the
\* last one that was sent is sent.
Pause(c) ==
    /\ view.field.text # view.field.sought
    /\ Click(c)
    /\ call' = [call EXCEPT ![c] = [NoCall EXCEPT !.kind = "search", !.query = view.field.text]]
    /\ store' = [store EXCEPT !.search.isLoading = TRUE]
    /\ view' = [view EXCEPT !.field.sought = view.field.text]
    /\ UNCHANGED <<doc, ahead, mishaps>>

\* The option is looked up in the result of the store.
Chosen(id) == IF id \in store.search.result THEN id ELSE None

\* An option is chosen: its document is shown in the panel, and the field is
\* rendered anew.
Select(id) ==
    /\ Reachable
    /\ id \in view.field.options
    /\ store' = [store EXCEPT !.current = Chosen(id)]
    /\ view' = [Shown("read") EXCEPT !.field = NoSearch]
    /\ UNCHANGED <<doc, call, made, ahead, mishaps>>

-----------------------------------------------------------------------------
(***************************************************************************)
(* The answers.  A write that succeeded loads the table anew.              *)
(***************************************************************************)

Arrives(c, kind) == call[c].kind = kind /\ call[c].stage = "served"
Done(c) == call' = [call EXCEPT ![c] = NoCall]

\* Mutant: the table is not loaded anew.
ReloadNot(c) == Done(c)

Reload(c) == call' = [call EXCEPT ![c] = ListCall(Items)]
Overtake(c) == ahead' = [d \in Calls |-> IF d = c THEN {} ELSE ahead[d] \ {c}]

AnswerList(c) ==
    /\ Arrives(c, "list")
    /\ store' = [store EXCEPT !.list = [items |-> call[c].copies, query |-> call[c].query,
                                        isLoading |-> FALSE]]
    /\ Overtake(c)
    /\ mishaps' = IF ahead[c] = {} THEN mishaps ELSE mishaps \cup {"reordered"}
    /\ Done(c)
    /\ UNCHANGED <<doc, view, made>>

\* The store after a save: the document is the current one, and the effect of the
\* form resets its slot and loads the table.
Saved(key, id) ==
    ListLoading([store EXCEPT !.current = id, !.slot[key] = InitialSlot])

AnswerCreate(c) ==
    /\ Arrives(c, "create")
    /\ \E copy \in call[c].copies : store' = Saved("create", copy.id)
    /\ view' = Shown("read")
    /\ Reload(c)
    /\ UNCHANGED <<doc, made, ahead, mishaps>>

\* Whatever is being edited by now, the effect of UpdateForm clears the form and
\* shows the document that was saved.
AnswerUpdate(c) ==
    /\ Arrives(c, "update")
    /\ IF call[c].ok
       THEN /\ store' = Saved("update", call[c].id)
            /\ view' = Shown("read")
            /\ Reload(c)
       ELSE /\ store' = [store EXCEPT !.slot["update"] = Failed(@)]
            /\ Done(c)
            /\ UNCHANGED view
    /\ UNCHANGED <<doc, made, ahead, mishaps>>

\* The effect of DeleteModal runs when isSuccess or current has changed.
AnswerDelete(c) ==
    LET slot == store.slot["delete"]
        deleted == [store EXCEPT !.slot["delete"] = Succeeded(slot)]
    IN  /\ Arrives(c, "delete")
        /\ IF slot.isSuccess /\ slot.current = None
           THEN /\ store' = deleted
                /\ Done(c)
                /\ UNCHANGED view
           ELSE /\ store' = ListLoading(deleted)
                /\ view' = Dismissed(view)
                /\ Reload(c)
        /\ UNCHANGED <<doc, made, ahead, mishaps>>

\* The effect of the field on its key: once something was typed, the options are
\* those of the latest success, and a failure after a success empties them.
Offered(search) ==
    IF view.field.text = None \/ ~(search.isSuccess \/ store.search.isSuccess) THEN view
    ELSE [view EXCEPT !.field.options = IF search.isSuccess THEN search.result ELSE {}]

\* A failure keeps the result.
SearchEnds(ok, copies) ==
    LET search == [result |-> IF ok THEN {copy.id : copy \in copies} ELSE store.search.result,
                   isLoading |-> FALSE, isSuccess |-> ok]
    IN  /\ store' = [store EXCEPT !.search = search]
        /\ view' = Offered(search)

AnswerSearch(c) ==
    /\ Arrives(c, "search")
    /\ SearchEnds(call[c].ok, call[c].copies)
    /\ Done(c)
    /\ UNCHANGED <<doc, made, ahead, mishaps>>

\* A call, or its answer, is lost: the request helpers answer for the server.
Lose(c) ==
    LET kind == call[c].kind
    IN  /\ Losses
        /\ c \notin Idle
        /\ CASE kind = "list"   -> store' = [store EXCEPT !.list.isLoading = FALSE] /\ UNCHANGED view
             [] kind = "search" -> SearchEnds(FALSE, {})
             [] OTHER           -> store' = [store EXCEPT !.slot[kind] = Failed(@)] /\ UNCHANGED view
        /\ Done(c)
        /\ Overtake(c)
        /\ mishaps' = mishaps \cup {"lost"}
        /\ UNCHANGED <<doc, made>>

-----------------------------------------------------------------------------

\* The menu of a row, and the buttons over the panel.
Use(id) == ShowRow(id) \/ Edit(id) \/ AskToDelete(id)

User ==
    \/ \E c \in Calls, query \in Queries : LoadTable(c, query)
    \/ \E id \in AtHand : Use(id)
    \/ \E text \in Texts : Type(text)
    \/ \E c \in Calls : Pause(c)
    \/ \E id \in view.field.options : Select(id)
    \/ CancelEdit
    \/ CancelDelete
    \/ \E c \in Calls : ConfirmDelete(c) \/ SubmitCreate(c) \/ SubmitUpdate(c)

Serve(c) ==
    \/ ServeList(c)
    \/ ServeSearch(c)
    \/ \E i \in Items : ServeCreate(c, i)
    \/ ServeUpdate(c)
    \/ ServeDelete(c)

Answer(c) == AnswerList(c) \/ AnswerSearch(c) \/ AnswerCreate(c) \/ AnswerUpdate(c) \/ AnswerDelete(c)

Next ==
    \/ User
    \/ \E c \in Calls : Serve(c) \/ Answer(c) \/ Lose(c)

Spec == Init /\ [][Next]_vars

\* Every call is served and answered, or lost.
FairSpec == Spec /\ \A c \in Calls : WF_vars(Serve(c) \/ Answer(c))

-----------------------------------------------------------------------------
(***************************************************************************)
(* Properties.                                                             *)
(***************************************************************************)

\* Once every call is answered the table shows the documents of its page or search
\* as they are on the server, however clicks, saves and answers overlapped, unless
\* a call was lost, two answers to list calls changed places, or a deletion was
\* confirmed while another was in flight: the second of two deletions that succeed
\* in a row changes nothing the effect looks at, and nothing loads the table again.
\* (components/DeleteModal/index.jsx:31-43, UpdateForm/index.jsx:83-92)
TableIsCurrent ==
    Idle = Calls /\ mishaps = {} =>
        store.list.items = {CopyOf(i) : i \in Live \cap store.list.query}

\* What is sent is what is shown: the form that can be submitted, or the dialog that
\* can be confirmed, is about the document that the call will name, although late
\* answers empty the slots of the store behind them; and every option of the search
\* field is found in the result that is searched for it.
\* (components/UpdateForm/index.jsx:33-43, DeleteModal/index.jsx:38-47,
\* SearchItem/index.jsx:59-91)
ActsOnWhatIsShown ==
    /\ view.box = "edit" /\ store.slot["update"].current # None =>
         view.form = store.slot["update"].current
    /\ view.modal =>
         /\ store.slot["delete"].current = view.asked
         /\ ~store.slot["delete"].isLoading
    /\ view.field.options \subseteq store.search.result

\* Every spinner stops in the end, and no button stays out of service: a flag that
\* calls share is cleared by whichever of them ends last.
\* (redux/crud/reducer.js:46-71)
LoadersStop ==
    /\ store.list.isLoading ~> ~store.list.isLoading
    /\ store.search.isLoading ~> ~store.search.isLoading
    /\ \A k \in Keys : store.slot[k].isLoading ~> ~store.slot[k].isLoading
=============================================================================
