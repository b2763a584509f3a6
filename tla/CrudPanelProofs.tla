-------------------------- MODULE CrudPanelProofs ---------------------------
(***************************************************************************)
(* Theorems about CrudPanel, for any number of documents, of calls in      *)
(* flight and of clicks, and for any pages, searches and texts.            *)
(***************************************************************************)
EXTENDS CrudPanel, TLAPS

USE CrudPanelAssumption

-----------------------------------------------------------------------------
(***************************************************************************)
(* Invariants.                                                             *)
(***************************************************************************)

\* A text is sent only after it was typed, and before there is no option.
FieldInv ==
    view.field.text = None => view.field.sought = None /\ view.field.options = {}

TypeInv == TypeOK /\ FieldInv

\* The dialog that is open names a document.
ModalInv == view.modal => view.asked \in Items

ShownInv == ModalInv /\ ActsOnWhatIsShown

\* Deletions one at a time are told by the flag of their slot.
DeletionInv ==
    "deletions" \notin mishaps =>
        /\ \A c, d \in InFlight("delete") : c = d
        /\ InFlight("delete") # {} => ~store.slot["delete"].isSuccess

\* The answers to list calls that wait, in the order in which they were served.
Served == {c \in Calls : Arrives(c, "list")}

OrderInv ==
    \A c \in Served :
        /\ ahead[c] \subseteq Served \ {c}
        /\ \A d \in Served : c = d \/ c \in ahead[d] \/ d \in ahead[c]

\* The answer that will be the last to come.
Latest(c) == c \in Served /\ \A d \in Served : c \notin ahead[d]

\* The table will be loaded anew: a list call is on its way to the server, or a
\* write was made whose answer makes one.
Due ==
    \E c \in Calls :
        \/ call[c].kind = "list" /\ call[c].stage = "sent"
        \/ call[c].kind \in Keys /\ call[c].stage = "served" /\ call[c].ok

\* The live documents of a page or a search, as the collection has them.
Held(docs, query) ==
    {[id |-> i, rev |-> docs[i].rev] : i \in {j \in Items : docs[j].state = "live"} \cap query}

\* Unless it will be loaded anew, the table is current, or the latest answer is.
TableInv ==
    mishaps = {} /\ ~Due =>
        /\ Served = {} => store.list.items = Held(doc, store.list.query)
        /\ \A c \in Served : Latest(c) => call[c].copies = Held(doc, call[c].query)

IInv == TypeInv /\ ShownInv /\ DeletionInv /\ OrderInv /\ TableInv

-----------------------------------------------------------------------------
(***************************************************************************)
(* Values.                                                                 *)
(***************************************************************************)

DocType == [Items -> [state : {"absent", "live", "removed"}, rev : Nat]]
StoreType == [current : Choice, list : Table, slot : [Keys -> Slot], search : Search]
ViewType == [modal : BOOLEAN, asked : Choice, box : {"none", "read", "edit"},
             form : Choice, field : Field]

\* A state has its type if its parts do.
LEMMA TypeParts ==
    /\ TypeOK <=> /\ doc \in DocType /\ store \in StoreType /\ view \in ViewType
                  /\ call \in [Calls -> Call] /\ made \in Nat
                  /\ ahead \in [Calls -> SUBSET Calls] /\ mishaps \subseteq Mishaps
    /\ TypeOK' <=> /\ doc' \in DocType /\ store' \in StoreType /\ view' \in ViewType
                   /\ call' \in [Calls -> Call] /\ made' \in Nat
                   /\ ahead' \in [Calls -> SUBSET Calls] /\ mishaps' \subseteq Mishaps
BY DEF TypeOK, DocType, StoreType, ViewType

LEMMA StoreFields ==
    ASSUME NEW s \in StoreType
    PROVE  /\ s.current \in Choice /\ s.list \in Table /\ s.search \in Search
           /\ s.slot \in [Keys -> Slot]
           /\ s.list.items \in SUBSET Copy /\ s.list.query \in SUBSET Items
           /\ s.search.result \in SUBSET Items /\ s.search.isSuccess \in BOOLEAN
           /\ \A k \in Keys : s.slot[k] \in Slot
<1>1. /\ s.current \in Choice /\ s.list \in Table /\ s.search \in Search
      /\ s.slot \in [Keys -> Slot]
  BY DEF StoreType
<1>2. s.list.items \in SUBSET Copy /\ s.list.query \in SUBSET Items
  BY <1>1 DEF Table
<1>3. s.search.result \in SUBSET Items /\ s.search.isSuccess \in BOOLEAN
  BY <1>1 DEF Search
<1> QED
  BY <1>1, <1>2, <1>3

\* The slots of the reducer.
LEMMA SlotValues ==
    ASSUME NEW slot \in Slot
    PROVE  /\ slot.current \in Choice /\ slot.isLoading \in BOOLEAN /\ slot.isSuccess \in BOOLEAN
           /\ InitialSlot \in Slot /\ InitialSlot.current = None
           /\ InitialSlot.isLoading = FALSE /\ InitialSlot.isSuccess = FALSE
           /\ Loading(slot) \in Slot /\ Loading(slot).current = slot.current
           /\ Loading(slot).isSuccess = slot.isSuccess
           /\ Failed(slot) \in Slot /\ Failed(slot).current = slot.current
           /\ Failed(slot).isLoading = FALSE /\ Failed(slot).isSuccess = FALSE
           /\ Succeeded(slot) \in Slot /\ Succeeded(slot).current = None
<1>1. /\ slot.current \in Choice /\ slot.isLoading \in BOOLEAN /\ slot.isSuccess \in BOOLEAN
  BY DEF Slot
<1>2. /\ InitialSlot \in Slot /\ InitialSlot.current = None
      /\ InitialSlot.isLoading = FALSE /\ InitialSlot.isSuccess = FALSE
  BY DEF InitialSlot, Slot, Choice
<1>3. /\ Loading(slot) \in Slot /\ Loading(slot).current = slot.current
      /\ Loading(slot).isSuccess = slot.isSuccess
  BY DEF Loading, Slot
<1>4. /\ Failed(slot) \in Slot /\ Failed(slot).current = slot.current
      /\ Failed(slot).isLoading = FALSE /\ Failed(slot).isSuccess = FALSE
  BY DEF Failed, Slot
<1>5. Succeeded(slot) \in Slot /\ Succeeded(slot).current = None
  BY DEF Succeeded, Slot, Choice
<1> QED
  BY <1>1, <1>2, <1>3, <1>4, <1>5

LEMMA ActionValues ==
    ASSUME NEW slot, NEW id \in Choice
    PROVE  /\ CurrentAction(slot, id) \in Slot
           /\ CurrentAction(slot, id).current = id
           /\ CurrentAction(slot, id).isLoading = FALSE
           /\ CurrentAction(slot, id).isSuccess = FALSE
BY DEF CurrentAction, InitialSlot, Slot, Choice

\* What may change in the store, one key at a time.
SameTable(s, t) == t.list.items = s.list.items /\ t.list.query = s.list.query
SameSlots(s, t) == t.slot = s.slot
SameSearch(s, t) == t.search = s.search

WithCurrent(s, id) == [s EXCEPT !.current = id]
WithSlot(s, k, slot) == [s EXCEPT !.slot[k] = slot]
WithSearch(s, search) == [s EXCEPT !.search = search]
WithList(s, list) == [s EXCEPT !.list = list]

LEMMA StoreSteps ==
    ASSUME NEW s \in StoreType
    PROVE  /\ \A id \in Choice :
                /\ WithCurrent(s, id) \in StoreType
                /\ SameTable(s, WithCurrent(s, id)) /\ SameSlots(s, WithCurrent(s, id))
                /\ SameSearch(s, WithCurrent(s, id))
                /\ WithCurrent(s, id).current = id
           /\ \A k \in Keys, slot \in Slot :
                /\ WithSlot(s, k, slot) \in StoreType
                /\ SameTable(s, WithSlot(s, k, slot)) /\ SameSearch(s, WithSlot(s, k, slot))
                /\ WithSlot(s, k, slot).slot = [s.slot EXCEPT ![k] = slot]
           /\ \A search \in Search :
                /\ WithSearch(s, search) \in StoreType
                /\ SameTable(s, WithSearch(s, search)) /\ SameSlots(s, WithSearch(s, search))
                /\ WithSearch(s, search).search = search
           /\ \A list \in Table :
                /\ WithList(s, list) \in StoreType
                /\ SameSlots(s, WithList(s, list)) /\ SameSearch(s, WithList(s, list))
                /\ WithList(s, list).list = list
<1>1. \A id \in Choice :
        /\ WithCurrent(s, id) \in StoreType
        /\ SameTable(s, WithCurrent(s, id)) /\ SameSlots(s, WithCurrent(s, id))
        /\ SameSearch(s, WithCurrent(s, id))
        /\ WithCurrent(s, id).current = id
  BY DEF StoreType, WithCurrent, SameTable, SameSlots, SameSearch
<1>2. \A k \in Keys, slot \in Slot :
        /\ WithSlot(s, k, slot) \in StoreType
        /\ SameTable(s, WithSlot(s, k, slot)) /\ SameSearch(s, WithSlot(s, k, slot))
        /\ WithSlot(s, k, slot).slot = [s.slot EXCEPT ![k] = slot]
  BY DEF StoreType, WithSlot, SameTable, SameSearch
<1>3. \A search \in Search :
        /\ WithSearch(s, search) \in StoreType
        /\ SameTable(s, WithSearch(s, search)) /\ SameSlots(s, WithSearch(s, search))
        /\ WithSearch(s, search).search = search
  BY DEF StoreType, WithSearch, SameTable, SameSlots
<1>4. \A list \in Table :
        /\ WithList(s, list) \in StoreType
        /\ SameSlots(s, WithList(s, list)) /\ SameSearch(s, WithList(s, list))
        /\ WithList(s, list).list = list
  BY DEF StoreType, WithList, SameSlots, SameSearch
<1> QED
  BY <1>1, <1>2, <1>3, <1>4

\* The flag of the table.
LEMMA TableFlag ==
    ASSUME NEW s \in StoreType, NEW b \in BOOLEAN
    PROVE  /\ [s EXCEPT !.list.isLoading = b] \in StoreType
           /\ SameTable(s, [s EXCEPT !.list.isLoading = b])
           /\ SameSlots(s, [s EXCEPT !.list.isLoading = b])
           /\ SameSearch(s, [s EXCEPT !.list.isLoading = b])
<1> DEFINE l == [s.list EXCEPT !.isLoading = b]
<1>1. l \in Table /\ l.items = s.list.items /\ l.query = s.list.query
  BY StoreFields DEF Table
<1>2. [s EXCEPT !.list.isLoading = b] = WithList(s, l)
  BY DEF WithList, StoreType
<1> HIDE DEF l
<1>3. /\ WithList(s, l) \in StoreType /\ WithList(s, l).list = l
      /\ SameSlots(s, WithList(s, l)) /\ SameSearch(s, WithList(s, l))
  BY <1>1, StoreSteps
<1>4. SameTable(s, WithList(s, l))
  BY <1>1, <1>3 DEF SameTable
<1> QED
  BY <1>2, <1>3, <1>4

LEMMA ViewFields ==
    ASSUME NEW v \in ViewType
    PROVE  /\ v.modal \in BOOLEAN /\ v.asked \in Choice /\ v.box \in {"none", "read", "edit"}
           /\ v.form \in Choice /\ v.field \in Field
           /\ v.field.text \in Texts \cup {None} /\ v.field.sought \in Texts \cup {None}
           /\ v.field.options \in SUBSET Items
<1>1. /\ v.modal \in BOOLEAN /\ v.asked \in Choice /\ v.box \in {"none", "read", "edit"}
      /\ v.form \in Choice /\ v.field \in Field
  BY DEF ViewType
<1>2. /\ v.field.text \in Texts \cup {None} /\ v.field.sought \in Texts \cup {None}
      /\ v.field.options \in SUBSET Items
  BY <1>1 DEF Field
<1> QED
  BY <1>1, <1>2

\* What may change in the view: the panel, the dialog, the field.
SamePanel(v, w) == w.box = v.box /\ w.form = v.form
SameModal(v, w) == w.modal = v.modal /\ w.asked = v.asked
SameField(v, w) == w.field = v.field

WithPanel(v, box, form) == [v EXCEPT !.box = box, !.form = form]
WithModal(v, modal, asked) == [v EXCEPT !.modal = modal, !.asked = asked]
WithField(v, field) == [v EXCEPT !.field = field]

LEMMA ViewSteps ==
    ASSUME NEW v \in ViewType
    PROVE  /\ \A box \in {"none", "read", "edit"}, form \in Choice :
                /\ WithPanel(v, box, form) \in ViewType
                /\ WithPanel(v, box, form).box = box /\ WithPanel(v, box, form).form = form
                /\ SameModal(v, WithPanel(v, box, form)) /\ SameField(v, WithPanel(v, box, form))
           /\ \A modal \in BOOLEAN, asked \in Choice :
                /\ WithModal(v, modal, asked) \in ViewType
                /\ WithModal(v, modal, asked).modal = modal
                /\ WithModal(v, modal, asked).asked = asked
                /\ SamePanel(v, WithModal(v, modal, asked))
                /\ SameField(v, WithModal(v, modal, asked))
           /\ \A field \in Field :
                /\ WithField(v, field) \in ViewType
                /\ WithField(v, field).field = field
                /\ SamePanel(v, WithField(v, field)) /\ SameModal(v, WithField(v, field))
<1>1. \A box \in {"none", "read", "edit"}, form \in Choice :
        /\ WithPanel(v, box, form) \in ViewType
        /\ WithPanel(v, box, form).box = box /\ WithPanel(v, box, form).form = form
        /\ SameModal(v, WithPanel(v, box, form)) /\ SameField(v, WithPanel(v, box, form))
  BY DEF ViewType, WithPanel, SameModal, SameField
<1>2. \A modal \in BOOLEAN, asked \in Choice :
        /\ WithModal(v, modal, asked) \in ViewType
        /\ WithModal(v, modal, asked).modal = modal
        /\ WithModal(v, modal, asked).asked = asked
        /\ SamePanel(v, WithModal(v, modal, asked))
        /\ SameField(v, WithModal(v, modal, asked))
  BY DEF ViewType, WithModal, SamePanel, SameField
<1>3. \A field \in Field :
        /\ WithField(v, field) \in ViewType
        /\ WithField(v, field).field = field
        /\ SamePanel(v, WithField(v, field)) /\ SameModal(v, WithField(v, field))
  BY DEF ViewType, WithField, SamePanel, SameModal
<1> QED
  BY <1>1, <1>2, <1>3

LEMMA PanelStep ==
    ASSUME NEW v \in ViewType, NEW box \in {"none", "read", "edit"}, NEW form \in Choice
    PROVE  LET w == WithPanel(v, box, form)
           IN  w \in ViewType /\ w.box = box /\ w.form = form /\ SameModal(v, w) /\ SameField(v, w)
BY DEF ViewType, WithPanel, SameModal, SameField

LEMMA ReadStep ==
    ASSUME NEW v \in ViewType
    PROVE  LET w == WithPanel(v, "read", None)
           IN  w \in ViewType /\ w.box = "read" /\ SameModal(v, w) /\ SameField(v, w)
<1>1. None \in Choice
  BY DEF Choice
<1> QED
  BY <1>1, PanelStep

LEMMA ModalStep ==
    ASSUME NEW v \in ViewType, NEW modal \in BOOLEAN, NEW asked \in Choice
    PROVE  LET w == WithModal(v, modal, asked)
           IN  w \in ViewType /\ w.modal = modal /\ w.asked = asked /\ SamePanel(v, w) /\ SameField(v, w)
BY ViewSteps

LEMMA DismissStep ==
    ASSUME NEW v \in ViewType
    PROVE  LET w == WithModal(v, FALSE, None)
           IN  w \in ViewType /\ w.modal = FALSE /\ SamePanel(v, w) /\ SameField(v, w)
<1>1. None \in Choice
  BY DEF Choice
<1> QED
  BY <1>1, ModalStep

LEMMA FieldStep ==
    ASSUME NEW v \in ViewType, NEW field \in Field
    PROVE  LET w == WithField(v, field)
           IN  w \in ViewType /\ w.field = field /\ SamePanel(v, w) /\ SameModal(v, w)
BY ViewSteps

\* The changes of the view, put as changes of a part.
LEMMA ViewForms ==
    ASSUME NEW v \in ViewType
    PROVE  /\ Dismissed(v) = WithModal(v, FALSE, None)
           /\ \A b : [v EXCEPT !.box = b] = WithPanel(v, b, v.form)
           /\ \A t : [v EXCEPT !.field.text = t, !.field.options = {}]
                       = WithField(v, [v.field EXCEPT !.text = t, !.options = {}])
           /\ \A t : [v EXCEPT !.field.sought = t] = WithField(v, [v.field EXCEPT !.sought = t])
           /\ \A o : [v EXCEPT !.field.options = o] = WithField(v, [v.field EXCEPT !.options = o])
<1>1. Dismissed(v) = WithModal(v, FALSE, None)
  BY DEF Dismissed, WithModal
<1>2. \A b : [v EXCEPT !.box = b] = WithPanel(v, b, v.form)
  BY DEF WithPanel, ViewType
<1>3. ASSUME NEW t
      PROVE  [v EXCEPT !.field.text = t, !.field.options = {}]
               = WithField(v, [v.field EXCEPT !.text = t, !.options = {}])
  BY DEF WithField, ViewType, Field
<1>4. ASSUME NEW t
      PROVE  [v EXCEPT !.field.sought = t] = WithField(v, [v.field EXCEPT !.sought = t])
  BY DEF WithField, ViewType, Field
<1>5. ASSUME NEW o
      PROVE  [v EXCEPT !.field.options = o] = WithField(v, [v.field EXCEPT !.options = o])
  BY DEF WithField, ViewType, Field
<1> QED
  BY <1>1, <1>2, <1>3, <1>4, <1>5

LEMMA EmptyField ==
    /\ NoSearch \in Field /\ NoSearch.text = None /\ NoSearch.sought = None
    /\ NoSearch.options = {}
BY DEF NoSearch, Field

LEMMA TypedField ==
    ASSUME NEW f \in Field, NEW t \in Texts
    PROVE  LET g == [f EXCEPT !.text = t, !.options = {}]
           IN  g \in Field /\ g.text = t /\ g.sought = f.sought /\ g.options = {}
BY DEF Field

LEMMA SoughtField ==
    ASSUME NEW f \in Field, NEW t \in Texts \cup {None}
    PROVE  LET g == [f EXCEPT !.sought = t]
           IN  g \in Field /\ g.text = f.text /\ g.sought = t /\ g.options = f.options
BY DEF Field

LEMMA OptionsField ==
    ASSUME NEW f \in Field, NEW o \in SUBSET Items
    PROVE  LET g == [f EXCEPT !.options = o]
           IN  g \in Field /\ g.text = f.text /\ g.sought = f.sought /\ g.options = o
BY DEF Field

\* Calls.
LEMMA CallValues ==
    /\ NoCall \in Call /\ NoCall.kind = "idle" /\ NoCall.stage = "sent"
    /\ \A q \in SUBSET Items :
         /\ ListCall(q) \in Call /\ ListCall(q).kind = "list" /\ ListCall(q).stage = "sent"
    /\ \A q \in SUBSET Items :
         LET s == [NoCall EXCEPT !.kind = "search", !.query = q]
         IN  s \in Call /\ s.kind = "search" /\ s.stage = "sent"
    /\ \A k \in Keys, i \in Items :
         /\ Sent(k, i) \in Call /\ Sent(k, i).kind = k /\ Sent(k, i).stage = "sent"
         /\ Sent(k, i).id = i
<1>0. 1 \in Items
  BY DEF Items
<1>1. NoCall \in Call /\ NoCall.kind = "idle" /\ NoCall.stage = "sent"
  BY <1>0 DEF NoCall, Call
<1>2. ASSUME NEW r \in Call, NEW q \in SUBSET Items, r.stage = "sent",
             NEW k \in {"list", "search"}
      PROVE  LET s == [r EXCEPT !.kind = k, !.query = q]
             IN  s \in Call /\ s.kind = k /\ s.stage = "sent"
  BY <1>2 DEF Call
<1>3. \A k \in {"list", "search"}, q \in SUBSET Items :
        LET s == [NoCall EXCEPT !.kind = k, !.query = q]
        IN  s \in Call /\ s.kind = k /\ s.stage = "sent"
  BY <1>1, <1>2
<1>4. \A k \in Keys, i \in Items :
        /\ Sent(k, i) \in Call /\ Sent(k, i).kind = k /\ Sent(k, i).stage = "sent"
        /\ Sent(k, i).id = i
  BY <1>0 DEF Sent, NoCall, Call
<1>5. \A q \in SUBSET Items :
        /\ ListCall(q) \in Call /\ ListCall(q).kind = "list" /\ ListCall(q).stage = "sent"
  BY <1>3 DEF ListCall
<1> QED
  BY <1>1, <1>3, <1>4, <1>5

LEMMA CallFields ==
    ASSUME NEW r \in Call
    PROVE  /\ r.kind \in {"idle", "list", "search"} \cup Keys /\ r.stage \in {"sent", "served"}
           /\ r.id \in Items /\ r.query \in SUBSET Items /\ r.ok \in BOOLEAN
           /\ r.copies \in SUBSET Copy
BY DEF Call

-----------------------------------------------------------------------------
(***************************************************************************)
(* The page: what the steps do to the store and to the components.         *)
(***************************************************************************)

PageInv == store \in StoreType /\ view \in ViewType /\ FieldInv /\ ShownInv

\* A step that leaves the rows as they are, and tells of no deletion.
Quiet ==
    /\ SameTable(store, store')
    /\ store'.slot["delete"].isSuccess => store.slot["delete"].isSuccess

\* The keys of the store that the invariant looks at.
EditOf(s) == s.slot["update"].current
DeletionOf(s) == s.slot["delete"].current
Deleting(s) == s.slot["delete"].isLoading
Deleted(s) == s.slot["delete"].isSuccess

PanelInv(s, v) == v.box = "edit" /\ EditOf(s) # None => v.form = EditOf(s)
DialogInv(s, v) ==
    v.modal => v.asked \in Items /\ DeletionOf(s) = v.asked /\ ~Deleting(s)
OptionInv(s, v) ==
    /\ v.field.options \subseteq s.search.result
    /\ v.field.text = None => v.field.sought = None /\ v.field.options = {}

LEMMA PageParts ==
    /\ PageInv <=> /\ store \in StoreType /\ view \in ViewType
                   /\ PanelInv(store, view) /\ DialogInv(store, view) /\ OptionInv(store, view)
    /\ PageInv' <=> /\ store' \in StoreType /\ view' \in ViewType
                    /\ PanelInv(store', view') /\ DialogInv(store', view')
                    /\ OptionInv(store', view')
BY DEF PageInv, FieldInv, ShownInv, ModalInv, ActsOnWhatIsShown, PanelInv, DialogInv,
       OptionInv, EditOf, DeletionOf, Deleting

LEMMA SlotsOf ==
    ASSUME NEW s \in StoreType
    PROVE  s.slot["create"] \in Slot /\ s.slot["update"] \in Slot /\ s.slot["delete"] \in Slot
BY StoreFields DEF Keys

\* One slot of the store changes.
LEMMA SlotStep ==
    ASSUME NEW s \in StoreType, NEW k \in Keys, NEW slot \in Slot
    PROVE  LET t == WithSlot(s, k, slot)
           IN  /\ t \in StoreType /\ SameTable(s, t) /\ SameSearch(s, t)
               /\ t.slot[k] = slot
               /\ \A l \in Keys : l # k => t.slot[l] = s.slot[l]
<1> DEFINE t == WithSlot(s, k, slot)
<1>1. t \in StoreType /\ SameTable(s, t) /\ SameSearch(s, t) /\ t.slot = [s.slot EXCEPT ![k] = slot]
  BY StoreSteps
<1> HIDE DEF t
<1>2. s.slot \in [Keys -> Slot]
  BY StoreFields
<1>3. t.slot[k] = slot /\ \A l \in Keys : l # k => t.slot[l] = s.slot[l]
  BY <1>1, <1>2
<1> QED
  BY <1>1, <1>3 DEF t

\* The parts of the invariant depend on these parts of the page.
LEMMA PanelKept ==
    ASSUME NEW s, NEW t, NEW v, NEW w, PanelInv(s, v),
           SamePanel(v, w), EditOf(t) = None \/ EditOf(t) = EditOf(s)
    PROVE  PanelInv(t, w)
BY DEF PanelInv, SamePanel

LEMMA DialogKept ==
    ASSUME NEW s, NEW t, NEW v, NEW w, DialogInv(s, v),
           SameModal(v, w), DeletionOf(t) = DeletionOf(s), Deleting(t) => Deleting(s)
    PROVE  DialogInv(t, w)
BY DEF DialogInv, SameModal

LEMMA OptionsKept ==
    ASSUME NEW s, NEW t, NEW v, NEW w, OptionInv(s, v),
           SameField(v, w), t.search.result = s.search.result
    PROVE  OptionInv(t, w)
BY DEF OptionInv, SameField

\* What is at hand are documents.
LEMMA AtHandItems ==
    ASSUME PageInv
    PROVE  AtHand \subseteq Items
<1>1. store.list.items \in SUBSET Copy /\ store.current \in Choice
  BY StoreFields DEF PageInv
<1>2. Rows \subseteq Items
  BY <1>1 DEF Rows, Copy
<1>3. InPanel \subseteq Items
  BY <1>1 DEF InPanel, Choice
<1> QED
  BY <1>2, <1>3 DEF AtHand

\* A step of the store that shows only in its flags.
LEMMA FlagStep ==
    ASSUME PageInv, store' \in StoreType, view' = view, SameTable(store, store'),
           SameSlots(store, store'), store'.search.result = store.search.result
    PROVE  PageInv' /\ Quiet
<1>1. EditOf(store') = EditOf(store) /\ DeletionOf(store') = DeletionOf(store)
      /\ Deleting(store') = Deleting(store)
  BY DEF SameSlots, EditOf, DeletionOf, Deleting
<1>2. PanelInv(store', view') /\ DialogInv(store', view') /\ OptionInv(store', view')
  BY <1>1, PageParts DEF PanelInv, DialogInv, OptionInv
<1> QED
  BY <1>2, PageParts DEF Quiet, SameSlots, PageInv

LEMMA LoadTablePage ==
    ASSUME PageInv, NEW c, NEW query, LoadTable(c, query)
    PROVE  PageInv' /\ Quiet
<1>1. store' = [store EXCEPT !.list.isLoading = TRUE] /\ view' = view
  BY DEF LoadTable, ListLoading
<1>2. /\ store' \in StoreType /\ SameTable(store, store') /\ SameSlots(store, store')
      /\ SameSearch(store, store')
  BY <1>1, TableFlag DEF PageInv
<1> QED
  BY <1>1, <1>2, FlagStep DEF SameSearch

\* Slots are kept with the store's choice.
LEMMA CurrentStep ==
    ASSUME NEW s \in StoreType, NEW id \in Choice
    PROVE  LET t == WithCurrent(s, id)
           IN  /\ t \in StoreType /\ SameTable(s, t) /\ SameSearch(s, t)
               /\ SameSlots(s, t) /\ t.current = id
BY StoreSteps

\* The panel shows another box, and nothing else happens but to the choice.
LEMMA ShowRowPage ==
    ASSUME PageInv, NEW id \in Items, ShowRow(id)
    PROVE  PageInv' /\ Quiet
<1>1. store' = WithCurrent(store, id) /\ view' = WithPanel(view, "read", None)
  BY DEF ShowRow, Shown, WithCurrent, WithPanel
<1>2. /\ store' \in StoreType /\ SameTable(store, store') /\ SameSearch(store, store')
      /\ SameSlots(store, store')
  BY <1>1, CurrentStep DEF PageInv, Choice
<1>3. view' \in ViewType /\ view'.box = "read" /\ SameModal(view, view') /\ SameField(view, view')
  BY <1>1, ReadStep DEF PageInv
<1>4. PanelInv(store', view')
  BY <1>3 DEF PanelInv
<1>5. DialogInv(store', view')
  BY <1>2, <1>3, PageParts, DialogKept DEF SameSlots, DeletionOf, Deleting
<1>6. OptionInv(store', view')
  BY <1>2, <1>3, PageParts, OptionsKept DEF SameSearch
<1> QED
  BY <1>2, <1>3, <1>4, <1>5, <1>6, PageParts DEF Quiet, SameSlots

LEMMA EditPage ==
    ASSUME PageInv, NEW id \in Items, Edit(id)
    PROVE  PageInv' /\ Quiet
<1> DEFINE s == WithCurrent(store, id)
           x == CurrentAction(store.slot["update"], id)
<1>1. store' = WithSlot(s, "update", x) /\ view' = WithPanel(view, "edit", id)
  BY DEF Edit, Filled, WithCurrent, WithPanel, WithSlot, PageInv, StoreType
<1>2. id \in Choice
  BY DEF Choice
<1>3. x \in Slot /\ x.current = id
  BY <1>2, ActionValues
<1>4. s \in StoreType /\ SameTable(store, s) /\ SameSearch(store, s) /\ SameSlots(store, s)
  BY <1>2, CurrentStep DEF PageInv
<1> HIDE DEF s, x
<1>5. /\ store' \in StoreType /\ SameTable(s, store') /\ SameSearch(s, store')
      /\ store'.slot["update"] = x /\ store'.slot["delete"] = s.slot["delete"]
  BY <1>1, <1>3, <1>4, SlotStep DEF Keys
<1>6. /\ view' \in ViewType /\ view'.box = "edit" /\ view'.form = id
      /\ SameModal(view, view') /\ SameField(view, view')
  BY <1>1, <1>2, PanelStep DEF PageInv
<1>7. PanelInv(store', view')
  BY <1>3, <1>5, <1>6 DEF PanelInv, EditOf
<1>8. DialogInv(store', view')
  BY <1>4, <1>5, <1>6, PageParts, DialogKept DEF SameSlots, DeletionOf, Deleting
<1>9. OptionInv(store', view')
  BY <1>4, <1>5, <1>6, PageParts, OptionsKept DEF SameSearch
<1> QED
  BY <1>4, <1>5, <1>6, <1>7, <1>8, <1>9, PageParts DEF Quiet, SameSlots, SameTable

LEMMA CancelEditPage ==
    ASSUME PageInv, CancelEdit
    PROVE  PageInv' /\ Quiet
<1>1. store' = store /\ view' = WithPanel(view, "read", None)
  BY DEF CancelEdit, Shown, WithPanel
<1>2. view' \in ViewType /\ view'.box = "read" /\ SameModal(view, view') /\ SameField(view, view')
  BY <1>1, ReadStep DEF PageInv
<1>3. PanelInv(store', view')
  BY <1>2 DEF PanelInv
<1>4. DialogInv(store', view') /\ OptionInv(store', view')
  BY <1>1, <1>2, PageParts, DialogKept, OptionsKept
<1> QED
  BY <1>1, <1>2, <1>3, <1>4, PageParts DEF Quiet, SameTable

LEMMA AskToDeletePage ==
    ASSUME PageInv, NEW id \in Items, AskToDelete(id)
    PROVE  PageInv' /\ Quiet
<1> DEFINE x == CurrentAction(store.slot["delete"], id)
<1>1. store' = WithSlot(store, "delete", x) /\ view' = WithModal(view, TRUE, id)
  BY DEF AskToDelete, WithModal, WithSlot
<1>2. id \in Choice
  BY DEF Choice
<1>3. x \in Slot /\ x.current = id /\ x.isLoading = FALSE /\ x.isSuccess = FALSE
  BY <1>2, ActionValues
<1> HIDE DEF x
<1>4. /\ store' \in StoreType /\ SameTable(store, store') /\ SameSearch(store, store')
      /\ store'.slot["delete"] = x /\ store'.slot["update"] = store.slot["update"]
  BY <1>1, <1>3, SlotStep DEF Keys, PageInv
<1>5. /\ view' \in ViewType /\ view'.modal = TRUE /\ view'.asked = id
      /\ SamePanel(view, view') /\ SameField(view, view')
  BY <1>1, <1>2, ModalStep DEF PageInv
<1>6. PanelInv(store', view')
  BY <1>4, <1>5, PageParts, PanelKept DEF EditOf
<1>7. DialogInv(store', view')
  BY <1>3, <1>4, <1>5 DEF DialogInv, DeletionOf, Deleting
<1>8. OptionInv(store', view')
  BY <1>4, <1>5, PageParts, OptionsKept DEF SameSearch
<1> QED
  BY <1>3, <1>4, <1>5, <1>6, <1>7, <1>8, PageParts DEF Quiet

LEMMA ConfirmDeletePage ==
    ASSUME PageInv, NEW c, ConfirmDelete(c)
    PROVE  PageInv' /\ Quiet /\ ~Deleted(store')
<1> DEFINE x == Loading(InitialSlot)
           v == WithModal(view, FALSE, None)
           box == IF v.box = "read" THEN "none" ELSE v.box
<1>1. store' = WithSlot(store, "delete", x)
  BY DEF ConfirmDelete, WithSlot
<1>2. v \in ViewType /\ v.modal = FALSE /\ SamePanel(view, v) /\ SameField(view, v)
  BY DismissStep DEF PageInv
<1>3. view' = WithPanel(v, box, v.form)
  <2>1. view' = [v EXCEPT !.box = box]
    BY ViewForms DEF ConfirmDelete, PageInv
  <2> HIDE DEF v, box
  <2> QED
    BY <1>2, <2>1, ViewForms
<1>4. box \in {"none", "read", "edit"} /\ v.form \in Choice
  BY <1>2, ViewFields
<1>5. box = "edit" => v.box = "edit"
  OBVIOUS
<1> HIDE DEF v, box
<1>6. /\ view' \in ViewType /\ view'.box = box /\ view'.form = v.form /\ view'.modal = FALSE
      /\ SameField(v, view')
  BY <1>2, <1>3, <1>4, PanelStep DEF SameModal
<1>7. x \in Slot /\ x.isSuccess = FALSE
  BY SlotsOf, SlotValues DEF PageInv
<1> HIDE DEF x
<1>8. /\ store' \in StoreType /\ SameTable(store, store') /\ SameSearch(store, store')
      /\ store'.slot["delete"] = x /\ store'.slot["update"] = store.slot["update"]
  BY <1>1, <1>7, SlotStep DEF Keys, PageInv
<1>9. PanelInv(store', view')
  BY <1>2, <1>5, <1>6, <1>8, PageParts DEF PanelInv, SamePanel, EditOf
<1>10. DialogInv(store', view')
  BY <1>6 DEF DialogInv
<1>11. OptionInv(store', view')
  BY <1>2, <1>6, <1>8, PageParts DEF OptionInv, SameField, SameSearch
<1> QED
  BY <1>6, <1>7, <1>8, <1>9, <1>10, <1>11, PageParts DEF Quiet, Deleted

LEMMA CancelDeletePage ==
    ASSUME PageInv, CancelDelete
    PROVE  PageInv' /\ Quiet
<1>1. store' = store /\ view' = WithModal(view, FALSE, None)
  BY ViewForms DEF CancelDelete, PageInv
<1>2. view' \in ViewType /\ view'.modal = FALSE /\ SamePanel(view, view') /\ SameField(view, view')
  BY <1>1, DismissStep DEF PageInv
<1>3. PanelInv(store', view') /\ OptionInv(store', view')
  BY <1>1, <1>2, PageParts, PanelKept, OptionsKept
<1>4. DialogInv(store', view')
  BY <1>2 DEF DialogInv
<1> QED
  BY <1>1, <1>2, <1>3, <1>4, PageParts DEF Quiet, SameTable

LEMMA SubmitCreatePage ==
    ASSUME PageInv, NEW c, SubmitCreate(c)
    PROVE  PageInv' /\ Quiet
<1> DEFINE x == Loading(store.slot["create"])
<1>1. store' = WithSlot(store, "create", x) /\ view' = view
  BY DEF SubmitCreate, WithSlot
<1>2. x \in Slot
  BY SlotsOf, SlotValues DEF PageInv
<1> HIDE DEF x
<1>3. /\ store' \in StoreType /\ SameTable(store, store') /\ SameSearch(store, store')
      /\ store'.slot["delete"] = store.slot["delete"]
      /\ store'.slot["update"] = store.slot["update"]
  BY <1>1, <1>2, SlotStep DEF Keys, PageInv
<1>4. /\ PanelInv(store', view') /\ DialogInv(store', view') /\ OptionInv(store', view')
  BY <1>1, <1>3, PageParts
     DEF PanelInv, DialogInv, OptionInv, EditOf, DeletionOf, Deleting, SameSearch
<1> QED
  BY <1>1, <1>3, <1>4, PageParts DEF Quiet, PageInv

\* The slot of the form keeps its document, and its success if it has one.
LEMMA UpdateSlotStep ==
    ASSUME PageInv, NEW x \in Slot, x.current \in {None, store.slot["update"].current},
           store' = WithSlot(store, "update", x), view' = view
    PROVE  PageInv' /\ Quiet
<1>1. /\ store' \in StoreType /\ SameTable(store, store') /\ SameSearch(store, store')
      /\ store'.slot["delete"] = store.slot["delete"] /\ store'.slot["update"] = x
  BY SlotStep DEF Keys, PageInv
<1>2. /\ PanelInv(store', view') /\ DialogInv(store', view') /\ OptionInv(store', view')
  BY <1>1, PageParts
     DEF PanelInv, DialogInv, OptionInv, EditOf, DeletionOf, Deleting, SameSearch
<1> QED
  BY <1>1, <1>2, PageParts DEF Quiet, PageInv

LEMMA SubmitUpdatePage ==
    ASSUME PageInv, NEW c, SubmitUpdate(c)
    PROVE  PageInv' /\ Quiet
<1>1. store' = WithSlot(store, "update", Loading(store.slot["update"])) /\ view' = view
  BY DEF SubmitUpdate, WithSlot
<1>2. /\ Loading(store.slot["update"]) \in Slot
      /\ Loading(store.slot["update"]).current = store.slot["update"].current
  BY SlotsOf, SlotValues DEF PageInv
<1> QED
  BY <1>1, <1>2, UpdateSlotStep

LEMMA TypePage ==
    ASSUME PageInv, NEW text \in Texts, Type(text)
    PROVE  PageInv' /\ Quiet
<1> DEFINE f == [view.field EXCEPT !.text = text, !.options = {}]
<1>1. store' = store /\ view' = WithField(view, f)
  BY ViewForms DEF Type, PageInv
<1>2. f \in Field /\ f.text = text /\ f.options = {}
  BY ViewFields, TypedField DEF PageInv
<1> HIDE DEF f
<1>3. view' \in ViewType /\ view'.field = f /\ SamePanel(view, view') /\ SameModal(view, view')
  BY <1>1, <1>2, FieldStep DEF PageInv
<1>4. PanelInv(store', view') /\ DialogInv(store', view')
  BY <1>1, <1>3, PageParts, PanelKept, DialogKept
<1>5. text # None
  OBVIOUS
<1>6. OptionInv(store', view')
  BY <1>2, <1>3, <1>5 DEF OptionInv
<1> QED
  BY <1>1, <1>3, <1>4, <1>6, PageParts DEF Quiet, SameTable

\* The search of the store.
LEMMA SearchValues ==
    ASSUME NEW search \in Search
    PROVE  /\ search.result \in SUBSET Items
           /\ search.isLoading \in BOOLEAN /\ search.isSuccess \in BOOLEAN
           /\ [search EXCEPT !.isLoading = TRUE] \in Search
           /\ [search EXCEPT !.isLoading = TRUE].result = search.result
BY DEF Search

LEMMA PausePage ==
    ASSUME PageInv, NEW c, Pause(c)
    PROVE  PageInv' /\ Quiet /\ view.field.text \in SUBSET Items
<1> DEFINE f == [view.field EXCEPT !.sought = view.field.text]
           x == [store.search EXCEPT !.isLoading = TRUE]
<1>1. store' = WithSearch(store, x)
  BY DEF Pause, WithSearch, PageInv, StoreType
<1>2. view' = WithField(view, f)
  BY ViewForms DEF Pause, PageInv
<1>3. view.field.text # None /\ view.field.text \in Texts
  BY ViewFields, PageParts DEF Pause, OptionInv
<1>4. f \in Field /\ f.text = view.field.text /\ f.options = view.field.options
  BY <1>3, ViewFields, SoughtField DEF PageInv
<1>5. x \in Search /\ x.result = store.search.result
  BY StoreFields, SearchValues DEF PageInv
<1> HIDE DEF f, x
<1>6. view' \in ViewType /\ view'.field = f /\ SamePanel(view, view') /\ SameModal(view, view')
  BY <1>2, <1>4, FieldStep DEF PageInv
<1>7. /\ store' \in StoreType /\ SameTable(store, store') /\ SameSlots(store, store')
      /\ store'.search = x
  BY <1>1, <1>5, StoreSteps DEF PageInv
<1>8. PanelInv(store', view') /\ DialogInv(store', view')
  BY <1>6, <1>7, PageParts, PanelKept, DialogKept DEF SameSlots, EditOf, DeletionOf, Deleting
<1>9. OptionInv(store', view')
  BY <1>3, <1>4, <1>5, <1>6, <1>7, PageParts DEF OptionInv
<1> QED
  BY <1>3, <1>6, <1>7, <1>8, <1>9, PageParts DEF Quiet, SameSlots

LEMMA SelectPage ==
    ASSUME PageInv, NEW id \in Items, Select(id)
    PROVE  PageInv' /\ Quiet
<1> DEFINE v == WithPanel(view, "read", None)
<1>1. store' = WithCurrent(store, Chosen(id)) /\ Chosen(id) \in Choice
  BY DEF Select, WithCurrent, Chosen, Choice
<1>2. v \in ViewType /\ v.box = "read" /\ SameModal(view, v)
  BY ReadStep DEF PageInv
<1>3. view' = WithField(v, NoSearch)
  BY DEF Select, Shown, WithPanel, WithField
<1> HIDE DEF v
<1>4. NoSearch \in Field /\ NoSearch.options = {} /\ NoSearch.sought = None
  BY EmptyField
<1>5. view' \in ViewType /\ view'.field = NoSearch /\ SamePanel(v, view') /\ SameModal(v, view')
  BY <1>2, <1>3, <1>4, FieldStep
<1>6. /\ store' \in StoreType /\ SameTable(store, store') /\ SameSlots(store, store')
  BY <1>1, CurrentStep DEF PageInv
<1>7. PanelInv(store', view')
  BY <1>2, <1>5 DEF PanelInv, SamePanel
<1>8. DialogInv(store', view')
  BY <1>2, <1>5, <1>6, PageParts DEF DialogInv, SameModal, SameSlots, DeletionOf, Deleting
<1>9. OptionInv(store', view')
  BY <1>4, <1>5 DEF OptionInv
<1> QED
  BY <1>5, <1>6, <1>7, <1>8, <1>9, PageParts DEF Quiet, SameSlots

\* The answer to a list call replaces the rows.
LEMMA AnswerListPage ==
    ASSUME PageInv, NEW c, call[c] \in Call, AnswerList(c)
    PROVE  /\ PageInv'
           /\ store'.list.items = call[c].copies /\ store'.list.query = call[c].query
           /\ store'.slot = store.slot
<1> DEFINE l == [items |-> call[c].copies, query |-> call[c].query, isLoading |-> FALSE]
<1>1. store' = WithList(store, l) /\ view' = view
  BY DEF AnswerList, WithList
<1>2. l \in Table /\ l.items = call[c].copies /\ l.query = call[c].query
  BY CallFields DEF Table
<1> HIDE DEF l
<1>3. /\ store' \in StoreType /\ SameSlots(store, store') /\ SameSearch(store, store')
      /\ store'.list = l
  BY <1>1, <1>2, StoreSteps DEF PageInv
<1>4. PanelInv(store', view') /\ DialogInv(store', view') /\ OptionInv(store', view')
  BY <1>1, <1>3, PageParts
     DEF PanelInv, DialogInv, OptionInv, EditOf, DeletionOf, Deleting, SameSlots, SameSearch
<1> QED
  BY <1>1, <1>2, <1>3, <1>4, PageParts DEF PageInv, SameSlots

\* After a save the panel shows what was saved, and no form is filled.
LEMMA SavedPage ==
    ASSUME PageInv, NEW key \in {"create", "update"}, NEW id \in Items,
           store' = Saved(key, id), view' = Shown("read")
    PROVE  PageInv' /\ Quiet
<1> DEFINE s == WithCurrent(store, id)
           t == WithSlot(s, key, InitialSlot)
<1>1. store' = [t EXCEPT !.list.isLoading = TRUE] /\ view' = WithPanel(view, "read", None)
  BY DEF Saved, ListLoading, Shown, WithCurrent, WithSlot, WithPanel, PageInv, StoreType
<1>2. s \in StoreType /\ SameTable(store, s) /\ SameSearch(store, s) /\ SameSlots(store, s)
  BY CurrentStep DEF PageInv, Choice
<1> HIDE DEF s
<1>3. InitialSlot \in Slot
  BY SlotsOf, SlotValues DEF PageInv
<1>4. t \in StoreType /\ SameTable(s, t) /\ SameSearch(s, t) /\ t.slot["delete"] = s.slot["delete"]
  BY <1>2, <1>3, SlotStep DEF Keys
<1> HIDE DEF t
<1>5. /\ store' \in StoreType /\ SameTable(t, store') /\ SameSlots(t, store')
      /\ SameSearch(t, store')
  <2> DEFINE u == [t EXCEPT !.list.isLoading = TRUE]
  <2>1. store' = u
    BY <1>1
  <2>2. u \in StoreType /\ SameTable(t, u) /\ SameSlots(t, u) /\ SameSearch(t, u)
    BY <1>4, TableFlag
  <2> HIDE DEF u
  <2> QED
    BY <2>1, <2>2
<1>6. view' \in ViewType /\ view'.box = "read" /\ SameModal(view, view') /\ SameField(view, view')
  BY <1>1, ReadStep DEF PageInv
<1>7. PanelInv(store', view')
  BY <1>6 DEF PanelInv
<1>8. store'.slot["delete"] = store.slot["delete"]
  BY <1>2, <1>4, <1>5 DEF SameSlots
<1>9. DialogInv(store', view')
  BY <1>6, <1>8, PageParts, DialogKept DEF DeletionOf, Deleting
<1>10. store'.search = store.search
  BY <1>2, <1>4, <1>5 DEF SameSearch
<1>11. OptionInv(store', view')
  BY <1>6, <1>10, PageParts, OptionsKept
<1>12. SameTable(store, store')
  BY <1>2, <1>4, <1>5 DEF SameTable
<1> QED
  BY <1>5, <1>6, <1>7, <1>8, <1>9, <1>11, <1>12, PageParts DEF Quiet

LEMMA AnswerCreatePage ==
    ASSUME PageInv, NEW c, call[c] \in Call, AnswerCreate(c)
    PROVE  PageInv' /\ Quiet
<1>1. PICK copy \in call[c].copies : store' = Saved("create", copy.id)
  BY DEF AnswerCreate
<1>2. copy.id \in Items
  BY <1>1, CallFields DEF Copy
<1> QED
  BY <1>1, <1>2, SavedPage DEF AnswerCreate

LEMMA AnswerUpdatePage ==
    ASSUME PageInv, NEW c, call[c] \in Call, AnswerUpdate(c)
    PROVE  PageInv' /\ Quiet
<1>1. CASE call[c].ok
  <2>1. store' = Saved("update", call[c].id) /\ view' = Shown("read")
    BY <1>1 DEF AnswerUpdate
  <2> QED
    BY <2>1, CallFields, SavedPage
<1>2. CASE ~call[c].ok
  <2>1. store' = WithSlot(store, "update", Failed(store.slot["update"])) /\ view' = view
    BY <1>2 DEF AnswerUpdate, WithSlot
  <2>2. /\ Failed(store.slot["update"]) \in Slot
        /\ Failed(store.slot["update"]).current = store.slot["update"].current
    BY SlotsOf, SlotValues DEF PageInv
  <2> QED
    BY <2>1, <2>2, UpdateSlotStep
<1> QED
  BY <1>1, <1>2

\* The dialog is closed, or was not open, when a deletion succeeds.
LEMMA AnswerDeletePage ==
    ASSUME PageInv, NEW c, AnswerDelete(c)
    PROVE  /\ PageInv' /\ SameTable(store, store')
           /\ ~Deleted(store) => Reload(c)
<1> DEFINE x == Succeeded(store.slot["delete"])
           s == WithSlot(store, "delete", x)
<1>1. x \in Slot
  BY SlotsOf, SlotValues DEF PageInv
<1> HIDE DEF x
<1>2. /\ s \in StoreType /\ SameTable(store, s) /\ SameSearch(store, s)
      /\ s.slot["update"] = store.slot["update"]
  BY <1>1, SlotStep DEF Keys, PageInv
<1> HIDE DEF s
<1>3. [store EXCEPT !.slot["delete"] = Succeeded(store.slot["delete"])] = s
  BY DEF s, x, WithSlot
<1>4. CASE store.slot["delete"].isSuccess /\ store.slot["delete"].current = None
  <2>1. store' = s /\ view' = view
    BY <1>3, <1>4 DEF AnswerDelete
  <2>2. ~view.modal
    BY <1>4, PageParts DEF DialogInv, DeletionOf
  <2>3. PanelInv(store', view') /\ DialogInv(store', view') /\ OptionInv(store', view')
    BY <1>2, <2>1, <2>2, PageParts DEF PanelInv, DialogInv, OptionInv, EditOf, SameSearch
  <2> QED
    BY <1>2, <1>4, <2>1, <2>3, PageParts DEF PageInv, Deleted
<1>5. CASE ~(store.slot["delete"].isSuccess /\ store.slot["delete"].current = None)
  <2>1. store' = [s EXCEPT !.list.isLoading = TRUE] /\ view' = WithModal(view, FALSE, None)
        /\ Reload(c)
    BY <1>3, <1>5, ViewForms DEF AnswerDelete, ListLoading, PageInv
  <2>2. /\ store' \in StoreType /\ SameTable(s, store') /\ SameSlots(s, store')
        /\ SameSearch(s, store')
    BY <1>2, <2>1, TableFlag
  <2>3. view' \in ViewType /\ view'.modal = FALSE /\ SamePanel(view, view')
        /\ SameField(view, view')
    BY <2>1, DismissStep DEF PageInv
  <2>4. PanelInv(store', view') /\ DialogInv(store', view') /\ OptionInv(store', view')
    BY <1>2, <2>2, <2>3, PageParts
       DEF PanelInv, DialogInv, OptionInv, EditOf, SameSearch, SameSlots, SamePanel, SameField
  <2> QED
    BY <1>2, <2>1, <2>2, <2>3, <2>4, PageParts DEF SameTable
<1> QED
  BY <1>4, <1>5

\* A search ends with a result or without.
LEMMA SearchEndsPage ==
    ASSUME PageInv, NEW ok \in BOOLEAN, NEW copies \in SUBSET Copy, SearchEnds(ok, copies)
    PROVE  PageInv' /\ Quiet
<1> DEFINE r == IF ok THEN {copy.id : copy \in copies} ELSE store.search.result
           x == [result |-> r, isLoading |-> FALSE, isSuccess |-> ok]
           o == IF ok THEN r ELSE {}
           f == [view.field EXCEPT !.options = o]
<1>1. store' = WithSearch(store, x) /\ view' = Offered(x)
  BY DEF SearchEnds, WithSearch
<1>2. r \in SUBSET Items
  BY StoreFields DEF PageInv, Copy
<1>3. ok \/ r = store.search.result
  OBVIOUS
<1> HIDE DEF r
<1>4. x \in Search /\ x.result = r /\ x.isSuccess = ok
  BY <1>2 DEF Search
<1> HIDE DEF x
<1>5. /\ store' \in StoreType /\ SameTable(store, store') /\ SameSlots(store, store')
      /\ store'.search = x
  BY <1>1, <1>4, StoreSteps DEF PageInv
<1>6. o \in SUBSET Items /\ o \subseteq r
  BY <1>2
<1>7. f \in Field /\ f.options = o /\ f.text = view.field.text
  <2> HIDE DEF o
  <2>1. view.field \in Field
    BY ViewFields DEF PageInv
  <2> QED
    BY <1>6, <2>1, OptionsField
<1>8. CASE view.field.text = None \/ ~(x.isSuccess \/ store.search.isSuccess)
  <2>1. view' = view
    BY <1>1, <1>8 DEF Offered
  <2>2. PanelInv(store', view') /\ DialogInv(store', view')
    BY <1>5, <2>1, PageParts DEF PanelInv, DialogInv, EditOf, DeletionOf, Deleting, SameSlots
  <2>3. OptionInv(store', view')
    BY <1>3, <1>4, <1>5, <1>8, <2>1, PageParts DEF OptionInv
  <2> QED
    BY <1>5, <2>1, <2>2, <2>3, PageParts DEF PageInv, Quiet, SameSlots
<1>9. CASE ~(view.field.text = None \/ ~(x.isSuccess \/ store.search.isSuccess))
  <2>1. view' = WithField(view, f)
    <3>1. view' = [view EXCEPT !.field.options = o]
      BY <1>1, <1>4, <1>9 DEF Offered
    <3> HIDE DEF o
    <3> QED
      BY <3>1, ViewForms DEF PageInv
  <2> HIDE DEF f, o
  <2>2. view' \in ViewType /\ view'.field = f /\ SamePanel(view, view') /\ SameModal(view, view')
    BY <1>7, <2>1, FieldStep DEF PageInv
  <2>3. PanelInv(store', view') /\ DialogInv(store', view')
    BY <1>5, <2>2, PageParts, PanelKept, DialogKept DEF SameSlots, EditOf, DeletionOf, Deleting
  <2>4. OptionInv(store', view')
    BY <1>4, <1>5, <1>6, <1>7, <1>9, <2>2 DEF OptionInv
  <2> QED
    BY <1>5, <2>2, <2>3, <2>4, PageParts DEF Quiet, SameSlots
<1> QED
  BY <1>8, <1>9

LEMMA AnswerSearchPage ==
    ASSUME PageInv, NEW c, call[c] \in Call, AnswerSearch(c)
    PROVE  PageInv' /\ Quiet
BY CallFields, SearchEndsPage DEF AnswerSearch

LEMMA LosePage ==
    ASSUME PageInv, NEW c \in Calls, call[c] \in Call, Lose(c)
    PROVE  PageInv' /\ Quiet
<1>1. CASE call[c].kind = "list"
  <2>1. store' = [store EXCEPT !.list.isLoading = FALSE] /\ view' = view
    BY <1>1 DEF Lose
  <2>2. /\ store' \in StoreType /\ SameTable(store, store') /\ SameSlots(store, store')
        /\ SameSearch(store, store')
    BY <2>1, TableFlag DEF PageInv
  <2> QED
    BY <2>1, <2>2, FlagStep DEF SameSearch
<1>2. CASE call[c].kind = "search"
  <2>1. SearchEnds(FALSE, {})
    BY <1>2 DEF Lose
  <2> QED
    BY <2>1, SearchEndsPage
<1>3. CASE call[c].kind \notin {"list", "search"}
  <2> DEFINE k == call[c].kind
             x == Failed(store.slot[k])
  <2>1. k \in Keys
    BY <1>3, CallFields DEF Lose, Idle, InFlight
  <2>2. store' = WithSlot(store, k, x) /\ view' = view
    BY <1>3 DEF Lose, WithSlot
  <2> HIDE DEF k
  <2>3. /\ x \in Slot /\ x.current = store.slot[k].current
        /\ x.isLoading = FALSE /\ x.isSuccess = FALSE
    BY <2>1, StoreFields, SlotValues DEF PageInv
  <2> HIDE DEF x
  <2>4. /\ store' \in StoreType /\ SameTable(store, store') /\ SameSearch(store, store')
        /\ store'.slot[k] = x
        /\ \A l \in Keys : l # k => store'.slot[l] = store.slot[l]
    BY <2>1, <2>2, <2>3, SlotStep DEF PageInv
  <2>5. "update" \in Keys /\ "delete" \in Keys
    BY DEF Keys
  <2>6. EditOf(store') = EditOf(store)
    BY <2>3, <2>4, <2>5 DEF EditOf
  <2>7. DeletionOf(store') = DeletionOf(store) /\ (Deleting(store') => Deleting(store))
    BY <2>3, <2>4, <2>5 DEF DeletionOf, Deleting
  <2>8. store'.slot["delete"].isSuccess => store.slot["delete"].isSuccess
    BY <2>3, <2>4, <2>5
  <2>9. PanelInv(store', view') /\ DialogInv(store', view') /\ OptionInv(store', view')
    BY <2>2, <2>4, <2>6, <2>7, PageParts DEF PanelInv, DialogInv, OptionInv, SameSearch
  <2> QED
    BY <2>2, <2>4, <2>8, <2>9, PageParts DEF PageInv, Quiet
<1> QED
  BY <1>1, <1>2, <1>3

-----------------------------------------------------------------------------
(***************************************************************************)
(* The calls: what the steps do to what is in flight and to the documents. *)
(***************************************************************************)

CallsType ==
    /\ doc \in DocType /\ call \in [Calls -> Call] /\ made \in Nat
    /\ ahead \in [Calls -> SUBSET Calls] /\ mishaps \subseteq Mishaps

\* One call changes.
LEMMA CallStep ==
    ASSUME call \in [Calls -> Call], NEW c \in Calls, NEW r \in Call,
           call' = [call EXCEPT ![c] = r]
    PROVE  /\ call' \in [Calls -> Call] /\ call'[c] = r
           /\ \A d \in Calls : d # c => call'[d] = call[d]
OBVIOUS

\* A call that is no list call that was served, before or after.
LEMMA ServedSame ==
    ASSUME NEW c \in Calls, NEW r, call'[c] = r,
           \A d \in Calls : d # c => call'[d] = call[d],
           ~ (call[c].kind = "list" /\ call[c].stage = "served"),
           ~ (r.kind = "list" /\ r.stage = "served")
    PROVE  Served' = Served
BY DEF Served, Arrives

LEMMA InFlightSame ==
    ASSUME NEW c \in Calls, NEW r, call'[c] = r,
           \A d \in Calls : d # c => call'[d] = call[d],
           r.kind # "delete" \/ call[c].kind = "delete"
    PROVE  InFlight("delete")' \subseteq InFlight("delete")
BY DEF InFlight

\* A call keeps the table waiting to be loaded.
Waits(r) ==
    \/ r.kind = "list" /\ r.stage = "sent"
    \/ r.kind \in Keys /\ r.stage = "served" /\ r.ok

LEMMA DueCalls ==
    /\ Due <=> \E c \in Calls : Waits(call[c])
    /\ Due' <=> \E c \in Calls : Waits(call'[c])
BY DEF Due, Waits

\* The order of the answers depends on them and their history alone.
LEMMA OrderKept ==
    ASSUME OrderInv, Served' = Served, ahead' = ahead
    PROVE  OrderInv'
BY DEF OrderInv

\* A step of a call that the table does not wait for, before or after.
LEMMA AsideStep ==
    ASSUME CallsType, OrderInv, TableInv, NEW c \in Calls, NEW r \in Call,
           call' = [call EXCEPT ![c] = r], doc' = doc, ahead' = ahead,
           ~ Waits(call[c]), call[c].kind # "list", r.kind # "list" \/ r.stage = "sent",
           SameTable(store, store'), mishaps \subseteq mishaps'
    PROVE  OrderInv' /\ TableInv' /\ call' \in [Calls -> Call]
<1>1. /\ call' \in [Calls -> Call] /\ call'[c] = r
      /\ \A d \in Calls : d # c => call'[d] = call[d]
  BY CallStep DEF CallsType
<1>2. Served' = Served
  BY <1>1, ServedSame
<1>3. OrderInv'
  BY <1>2, OrderKept
<1>4. Due => Due'
  BY <1>1, DueCalls
<1>5. \A d \in Served : d \in Calls /\ call'[d] = call[d]
  BY <1>1 DEF Served, Arrives
<1>6. \A d \in Served : Latest(d)' <=> Latest(d)
  BY <1>2 DEF Latest
<1>7. TableInv'
  <2> SUFFICES ASSUME mishaps' = {}, ~Due'
               PROVE  /\ Served' = {} => store'.list.items = Held(doc', store'.list.query)
                      /\ \A d \in Served' :
                            Latest(d)' => call'[d].copies = Held(doc', call'[d].query)
    BY DEF TableInv
  <2>1. mishaps = {} /\ ~Due
    BY <1>4
  <2> QED
    BY <1>2, <1>5, <1>6, <2>1 DEF TableInv, SameTable
<1> QED
  BY <1>1, <1>3, <1>7

\* A step after which the table waits to be loaded.
LEMMA DueStep ==
    ASSUME CallsType, OrderInv, NEW c \in Calls, NEW r \in Call,
           call' = [call EXCEPT ![c] = r], ahead' = ahead,
           call[c].kind # "list" \/ call[c].stage = "sent", Waits(r)
    PROVE  OrderInv' /\ TableInv' /\ call' \in [Calls -> Call]
<1>1. /\ call' \in [Calls -> Call] /\ call'[c] = r
      /\ \A d \in Calls : d # c => call'[d] = call[d]
  BY CallStep DEF CallsType
<1>2. Served' = Served
  BY <1>1, ServedSame DEF Waits, Keys
<1>3. OrderInv'
  BY <1>2, OrderKept
<1>4. Due'
  BY <1>1, DueCalls
<1> QED
  BY <1>1, <1>3, <1>4 DEF TableInv

\* A step without calls.
LEMMA StillStep ==
    ASSUME CallsType, DeletionInv, OrderInv, TableInv,
           UNCHANGED <<doc, call, made, ahead, mishaps>>, Quiet
    PROVE  CallsType' /\ DeletionInv' /\ OrderInv' /\ TableInv'
<1>1. CallsType' /\ Served' = Served /\ (Due' <=> Due)
      /\ InFlight("delete")' = InFlight("delete")
  BY DueCalls DEF CallsType, Served, Arrives, InFlight
<1>2. OrderInv'
  BY <1>1, OrderKept
<1>3. DeletionInv'
  BY <1>1 DEF DeletionInv, Quiet
<1>4. \A d \in Served : Latest(d)' <=> Latest(d)
  BY <1>1 DEF Latest
<1>5. TableInv'
  <2> SUFFICES ASSUME mishaps' = {}, ~Due'
               PROVE  /\ Served' = {} => store'.list.items = Held(doc', store'.list.query)
                      /\ \A d \in Served' :
                            Latest(d)' => call'[d].copies = Held(doc', call'[d].query)
    BY DEF TableInv
  <2> QED
    BY <1>1, <1>4 DEF TableInv, SameTable, Quiet
<1> QED
  BY <1>1, <1>2, <1>3, <1>5

\* A step that sends no deletion and tells of none.
LEMMA DeletionKept ==
    ASSUME DeletionInv, InFlight("delete")' \subseteq InFlight("delete"),
           mishaps \subseteq mishaps', Deleted(store') => Deleted(store)
    PROVE  DeletionInv'
<1> SUFFICES ASSUME "deletions" \notin mishaps'
             PROVE  /\ \A c, d \in InFlight("delete")' : c = d
                    /\ InFlight("delete")' # {} => ~store'.slot["delete"].isSuccess
  BY DEF DeletionInv
<1> QED
  BY DEF DeletionInv, Deleted

CallsInv == CallsType /\ DeletionInv /\ OrderInv /\ TableInv

\* A click that calls.
LEMMA SendStep ==
    ASSUME CallsInv, NEW c \in Calls, NEW r \in Call, Click(c),
           call' = [call EXCEPT ![c] = r], r.stage = "sent", r.kind # "delete",
           UNCHANGED <<doc, ahead, mishaps>>, Quiet
    PROVE  CallsInv'
<1>1. call[c].kind = "idle" /\ made' \in Nat
  BY DEF Click, Idle, InFlight, CallsInv, CallsType
<1>2. OrderInv' /\ TableInv' /\ call' \in [Calls -> Call]
  BY <1>1, AsideStep DEF CallsInv, Waits, Keys, Quiet
<1>3. call'[c] = r /\ \A d \in Calls : d # c => call'[d] = call[d]
  BY CallStep DEF CallsInv, CallsType
<1>4. DeletionInv'
  BY <1>3, InFlightSame, DeletionKept DEF CallsInv, Quiet, Deleted
<1> QED
  BY <1>1, <1>2, <1>4 DEF CallsInv, CallsType

\* An answer is put in its call.
LEMMA AnsweredCall ==
    ASSUME CallsInv, NEW c \in Calls, NEW ok \in BOOLEAN, NEW copies \in SUBSET Copy,
           Answered(c, ok, copies)
    PROVE  \E r \in Call :
             /\ call' = [call EXCEPT ![c] = r]
             /\ r.kind = call[c].kind /\ r.query = call[c].query /\ r.stage = "served"
             /\ r.ok = ok /\ r.copies = copies
<1> DEFINE r == [call[c] EXCEPT !.stage = "served", !.ok = ok, !.copies = copies]
<1>1. call[c] \in Call
  BY DEF CallsInv, CallsType
<1>2. /\ r \in Call /\ r.kind = call[c].kind /\ r.query = call[c].query
      /\ r.stage = "served" /\ r.ok = ok /\ r.copies = copies
  BY <1>1 DEF Call
<1>3. call' = [call EXCEPT ![c] = r]
  BY <1>1 DEF Answered, CallsInv, CallsType, Call
<1> QED
  BY <1>2, <1>3

\* The copies of live documents.
LEMMA Copies ==
    ASSUME CallsType, NEW q \in SUBSET Items
    PROVE  /\ {CopyOf(i) : i \in Live \cap q} = Held(doc, q)
           /\ \A i \in Items : CopyOf(i) \in Copy
           /\ Held(doc, q) \in SUBSET Copy
<1>1. {CopyOf(i) : i \in Live \cap q} = Held(doc, q)
  BY DEF CopyOf, Live, Held
<1>2. \A i \in Items : CopyOf(i) \in Copy
  BY DEF CopyOf, Copy, CallsType, DocType
<1>3. Held(doc, q) \subseteq Copy
  BY DEF Held, Copy, CallsType, DocType
<1> QED
  BY <1>1, <1>2, <1>3

\* What is served is the latest answer, and current.
LEMMA ServeListCalls ==
    ASSUME CallsInv, NEW c \in Calls, ServeList(c)
    PROVE  CallsInv'
<1>1. call[c] \in Call /\ call[c].query \in SUBSET Items
  BY CallFields DEF CallsInv, CallsType
<1>2. Answered(c, TRUE, Held(doc, call[c].query)) /\ Held(doc, call[c].query) \in SUBSET Copy
  BY <1>1, Copies DEF ServeList, CallsInv
<1>3. PICK r \in Call :
        /\ call' = [call EXCEPT ![c] = r]
        /\ r.kind = call[c].kind /\ r.query = call[c].query /\ r.stage = "served"
        /\ r.ok = TRUE /\ r.copies = Held(doc, call[c].query)
  <2> DEFINE copies == Held(doc, call[c].query)
             ok == TRUE
  <2>1. Answered(c, ok, copies) /\ copies \in SUBSET Copy /\ ok \in BOOLEAN
    BY <1>2
  <2> HIDE DEF copies, ok
  <2>2. \E r \in Call :
          /\ call' = [call EXCEPT ![c] = r]
          /\ r.kind = call[c].kind /\ r.query = call[c].query /\ r.stage = "served"
          /\ r.ok = ok /\ r.copies = copies
    BY <2>1, AnsweredCall
  <2> QED
    BY <2>2 DEF copies, ok
<1>4. /\ call[c].kind = "list" /\ call[c].stage = "sent"
      /\ UNCHANGED <<doc, store, view, made, mishaps>>
      /\ ahead' = [ahead EXCEPT ![c] = Served]
  BY DEF ServeList, Served, Arrives, InFlight
<1>5. /\ call' \in [Calls -> Call] /\ call'[c] = r
      /\ \A d \in Calls : d # c => call'[d] = call[d]
  BY <1>3, CallStep DEF CallsInv, CallsType
<1>6. Served' = Served \cup {c} /\ c \notin Served /\ Served \subseteq Calls
  BY <1>3, <1>4, <1>5 DEF Served, Arrives
<1>7. ahead \in [Calls -> SUBSET Calls]
  BY DEF CallsInv, CallsType
<1>8. ahead'[c] = Served /\ \A d \in Calls : d # c => ahead'[d] = ahead[d]
  BY <1>4, <1>7
<1>9. CallsType'
  <2>1. ahead' \in [Calls -> SUBSET Calls]
    BY <1>4, <1>6, <1>7
  <2> QED
    BY <1>4, <1>5, <2>1 DEF CallsInv, CallsType
<1>10. OrderInv'
  BY <1>6, <1>8 DEF OrderInv, CallsInv
<1>11. \A d \in Served' : Latest(d)' => d = c
  BY <1>6, <1>8 DEF Latest
<1>12. TableInv'
  BY <1>3, <1>4, <1>5, <1>6, <1>11 DEF TableInv
<1>13. DeletionInv'
  BY <1>3, <1>4, <1>5, InFlightSame, DeletionKept DEF CallsInv
<1> QED
  BY <1>9, <1>10, <1>12, <1>13 DEF CallsInv

\* What an answer to another call does to the deletions in flight.
LEMMA ServeDeletions ==
    ASSUME CallsInv, NEW c \in Calls, NEW r \in Call, call' = [call EXCEPT ![c] = r],
           r.kind = call[c].kind, store' = store, mishaps' = mishaps
    PROVE  DeletionInv'
BY CallStep, InFlightSame, DeletionKept DEF CallsInv, CallsType

LEMMA ServeSearchCalls ==
    ASSUME CallsInv, NEW c \in Calls, ServeSearch(c)
    PROVE  CallsInv'
<1> DEFINE found == Live \cap call[c].query
<1>1. call[c] \in Call /\ call[c].query \in SUBSET Items
  BY CallFields DEF CallsInv, CallsType
<1>2. Answered(c, found # {}, {CopyOf(i) : i \in found}) /\ {CopyOf(i) : i \in found} \in SUBSET Copy
  BY <1>1, Copies DEF ServeSearch, CallsInv
<1>3. PICK r \in Call : /\ call' = [call EXCEPT ![c] = r]
                        /\ r.kind = call[c].kind /\ r.stage = "served"
  <2> DEFINE copies == {CopyOf(i) : i \in found}
             ok == found # {}
  <2>1. Answered(c, ok, copies) /\ copies \in SUBSET Copy /\ ok \in BOOLEAN
    BY <1>2
  <2> HIDE DEF copies, ok
  <2> QED
    BY <2>1, AnsweredCall
<1>4. call[c].kind = "search" /\ UNCHANGED <<doc, store, view, made, ahead, mishaps>>
  BY DEF ServeSearch
<1>5. OrderInv' /\ TableInv' /\ call' \in [Calls -> Call]
  BY <1>3, <1>4, AsideStep DEF CallsInv, Waits, Keys, SameTable
<1>6. DeletionInv'
  BY <1>3, <1>4, ServeDeletions
<1> QED
  BY <1>4, <1>5, <1>6 DEF CallsInv, CallsType

\* A write that succeeded makes the table wait.
LEMMA WriteStep ==
    ASSUME CallsInv, NEW c \in Calls, call[c].kind \in Keys, NEW copies \in SUBSET Copy,
           Answered(c, TRUE, copies), doc' \in DocType,
           UNCHANGED <<store, view, made, ahead, mishaps>>
    PROVE  CallsInv'
<1>1. PICK r \in Call : /\ call' = [call EXCEPT ![c] = r]
                        /\ r.kind = call[c].kind /\ r.stage = "served" /\ r.ok = TRUE
  BY AnsweredCall
<1>2. OrderInv' /\ TableInv' /\ call' \in [Calls -> Call]
  BY <1>1, DueStep DEF CallsInv, Waits, Keys
<1>3. DeletionInv'
  BY <1>1, ServeDeletions
<1> QED
  BY <1>2, <1>3 DEF CallsInv, CallsType

LEMMA ServeCreateCalls ==
    ASSUME CallsInv, NEW c \in Calls, NEW i \in Items, ServeCreate(c, i)
    PROVE  CallsInv'
<1>1. doc' \in DocType
  BY DEF ServeCreate, CallsInv, CallsType, DocType
<1>2. {CopyOf(i)} \in SUBSET Copy
  BY Copies DEF CallsInv
<1> QED
  BY <1>1, <1>2, WriteStep DEF ServeCreate, Keys

LEMMA ServeUpdateCalls ==
    ASSUME CallsInv, NEW c \in Calls, ServeUpdate(c)
    PROVE  CallsInv'
<1> DEFINE i == call[c].id
<1>1. i \in Items
  BY CallFields DEF CallsInv, CallsType
<1>2. CASE i \in Live
  <2>1. doc' = [doc EXCEPT ![i].rev = @ + 1] /\ Answered(c, TRUE, {})
    BY <1>2 DEF ServeUpdate
  <2>2. doc' \in DocType
    BY <1>1, <2>1 DEF CallsInv, CallsType, DocType
  <2> QED
    BY <2>1, <2>2, WriteStep DEF ServeUpdate, Keys
<1>3. CASE i \notin Live
  <2>1. /\ Answered(c, FALSE, {}) /\ UNCHANGED <<doc, store, view, made, ahead, mishaps>>
        /\ call[c].kind = "update" /\ call[c].stage = "sent"
    BY <1>3 DEF ServeUpdate
  <2>2. PICK r \in Call : /\ call' = [call EXCEPT ![c] = r]
                          /\ r.kind = call[c].kind /\ r.stage = "served" /\ r.ok = FALSE
    BY <2>1, AnsweredCall
  <2>3. OrderInv' /\ TableInv' /\ call' \in [Calls -> Call]
    BY <2>1, <2>2, AsideStep DEF CallsInv, Waits, Keys, SameTable
  <2>4. DeletionInv'
    BY <2>1, <2>2, ServeDeletions
  <2> QED
    BY <2>1, <2>3, <2>4 DEF CallsInv, CallsType
<1> QED
  BY <1>2, <1>3

LEMMA ServeDeleteCalls ==
    ASSUME CallsInv, NEW c \in Calls, ServeDelete(c)
    PROVE  CallsInv'
<1>1. call[c].id \in Items
  BY CallFields DEF CallsInv, CallsType
<1>2. doc' \in DocType
  BY <1>1 DEF ServeDelete, CallsInv, CallsType, DocType
<1> QED
  BY <1>2, WriteStep DEF ServeDelete, Keys

-----------------------------------------------------------------------------
(***************************************************************************)
(* The answers.                                                            *)
(***************************************************************************)

\* An answer that arrives, or is lost, is ahead of no other any more.
LEMMA OvertakeStep ==
    ASSUME CallsType, OrderInv, NEW c \in Calls, Done(c), Overtake(c)
    PROVE  /\ call' \in [Calls -> Call] /\ ahead' \in [Calls -> SUBSET Calls]
           /\ call'[c] = NoCall /\ \A d \in Calls : d # c => call'[d] = call[d]
           /\ \A d \in Calls : d # c => ahead'[d] = ahead[d] \ {c}
           /\ Served' = Served \ {c} /\ Served \subseteq Calls /\ OrderInv'
<1>1. /\ call' \in [Calls -> Call] /\ call'[c] = NoCall
      /\ \A d \in Calls : d # c => call'[d] = call[d]
  BY CallValues, CallStep DEF Done, CallsType
<1>2. Served' = Served \ {c} /\ Served \subseteq Calls
  <2>1. NoCall.kind # "list"
    BY CallValues
  <2>2. c \notin Served' /\ Served \subseteq Calls /\ Served' \subseteq Calls
    BY <1>1, <2>1 DEF Served, Arrives
  <2>3. \A d \in Calls : d # c => (d \in Served' <=> d \in Served)
    BY <1>1 DEF Served, Arrives
  <2> QED
    BY <2>2, <2>3
<1>3. /\ ahead' \in [Calls -> SUBSET Calls]
      /\ \A d \in Calls : d # c => ahead'[d] = ahead[d] \ {c}
  BY DEF Overtake, CallsType
<1>4. OrderInv'
  BY <1>2, <1>3 DEF OrderInv
<1> QED
  BY <1>1, <1>2, <1>3, <1>4

LEMMA AnswerListCalls ==
    ASSUME CallsInv, PageInv, NEW c \in Calls, AnswerList(c)
    PROVE  CallsInv'
<1>1. /\ call' \in [Calls -> Call] /\ ahead' \in [Calls -> SUBSET Calls]
      /\ call'[c] = NoCall /\ \A d \in Calls : d # c => call'[d] = call[d]
      /\ \A d \in Calls : d # c => ahead'[d] = ahead[d] \ {c}
      /\ Served' = Served \ {c} /\ Served \subseteq Calls /\ OrderInv'
  BY OvertakeStep DEF AnswerList, CallsInv
<1>2. /\ call[c] \in Call /\ c \in Served /\ UNCHANGED <<doc, made>>
      /\ call[c].kind = "list" /\ call[c].stage = "served"
      /\ mishaps' = IF ahead[c] = {} THEN mishaps ELSE mishaps \cup {"reordered"}
  BY DEF AnswerList, Arrives, Served, CallsInv, CallsType
<1>3. /\ store'.list.items = call[c].copies /\ store'.list.query = call[c].query
      /\ store'.slot = store.slot
  BY <1>2, AnswerListPage
<1>4. CallsType'
  BY <1>1, <1>2 DEF CallsInv, CallsType, Mishaps
<1>5. DeletionInv'
  BY <1>1, <1>2, <1>3, CallValues, InFlightSame, DeletionKept DEF CallsInv, Deleted
<1>6. TableInv'
  <2> SUFFICES ASSUME mishaps' = {}, ~Due'
               PROVE  /\ Served' = {} => store'.list.items = Held(doc', store'.list.query)
                      /\ \A d \in Served' :
                            Latest(d)' => call'[d].copies = Held(doc', call'[d].query)
    BY DEF TableInv
  <2>1. mishaps = {} /\ ahead[c] = {}
    BY <1>2
  <2>2. ~Waits(call[c])
    BY <1>2 DEF Waits, Keys
  <2>3. ~Due
    BY <1>1, <2>2, DueCalls
  <2>4. \A d \in Served : Latest(d) => call[d].copies = Held(doc, call[d].query)
    BY <2>1, <2>3 DEF TableInv, CallsInv
  <2>5. ASSUME Served' = {} PROVE store'.list.items = Held(doc', store'.list.query)
    <3>1. Latest(c)
      BY <1>1, <1>2, <2>1, <2>5 DEF Latest
    <3> QED
      BY <1>2, <1>3, <2>4, <3>1
  <2>6. ASSUME NEW d \in Served', Latest(d)'
        PROVE  call'[d].copies = Held(doc', call'[d].query)
    <3>1. d \in Served /\ d # c /\ d \in Calls
      BY <1>1
    <3>2. Latest(d)
      <4> SUFFICES ASSUME NEW e \in Served PROVE d \notin ahead[e]
        BY <3>1 DEF Latest
      <4>1. CASE e = c
        BY <2>1, <4>1
      <4>2. CASE e # c
        <5>1. e \in Served' /\ e \in Calls
          BY <1>1, <4>2
        <5>2. d \notin ahead'[e]
          BY <2>6, <5>1 DEF Latest
        <5> QED
          BY <1>1, <3>1, <4>2, <5>1, <5>2
      <4> QED
        BY <4>1, <4>2
    <3> QED
      BY <1>1, <1>2, <2>4, <3>1, <3>2
  <2> QED
    BY <2>5, <2>6
<1> QED
  BY <1>1, <1>4, <1>5, <1>6 DEF CallsInv

LEMMA LoseCalls ==
    ASSUME CallsInv, PageInv, NEW c \in Calls, Lose(c)
    PROVE  CallsInv'
<1>1. Done(c) /\ Overtake(c) /\ mishaps' = mishaps \cup {"lost"} /\ UNCHANGED <<doc, made>>
  BY DEF Lose
<1>2. /\ call' \in [Calls -> Call] /\ ahead' \in [Calls -> SUBSET Calls]
      /\ call'[c] = NoCall /\ \A d \in Calls : d # c => call'[d] = call[d]
      /\ OrderInv'
  BY <1>1, OvertakeStep DEF CallsInv
<1>3. Quiet
  BY LosePage DEF CallsInv, CallsType
<1>4. CallsType'
  BY <1>1, <1>2 DEF CallsInv, CallsType, Mishaps
<1>5. DeletionInv'
  BY <1>1, <1>2, <1>3, CallValues, InFlightSame, DeletionKept DEF CallsInv, Quiet, Deleted
<1>6. TableInv'
  BY <1>1 DEF TableInv
<1> QED
  BY <1>2, <1>4, <1>5, <1>6 DEF CallsInv

\* A write that succeeded loads the table anew.
LEMMA ReloadStep ==
    ASSUME CallsInv, NEW c \in Calls, call[c].kind # "list", Reload(c),
           UNCHANGED <<doc, made, ahead, mishaps>>
    PROVE  /\ CallsType' /\ OrderInv' /\ TableInv'
           /\ call'[c].kind = "list" /\ \A d \in Calls : d # c => call'[d] = call[d]
<1> DEFINE r == ListCall(Items)
<1>1. r \in Call /\ r.kind = "list" /\ r.stage = "sent"
  BY CallValues
<1>2. call' = [call EXCEPT ![c] = r]
  BY DEF Reload
<1> HIDE DEF r
<1>3. OrderInv' /\ TableInv' /\ call' \in [Calls -> Call]
  BY <1>1, <1>2, DueStep DEF CallsInv, Waits
<1>4. call'[c] = r /\ \A d \in Calls : d # c => call'[d] = call[d]
  BY <1>1, <1>2, CallStep DEF CallsInv, CallsType
<1> QED
  BY <1>1, <1>3, <1>4 DEF CallsInv, CallsType

\* An answer that loads nothing.
LEMMA DoneStep ==
    ASSUME CallsInv, NEW c \in Calls, call[c].kind # "list", ~Waits(call[c]), Done(c),
           UNCHANGED <<doc, made, ahead, mishaps>>, Quiet
    PROVE  CallsInv'
<1>1. NoCall \in Call /\ NoCall.kind = "idle"
  BY CallValues
<1>2. OrderInv' /\ TableInv' /\ call' \in [Calls -> Call]
  BY <1>1, AsideStep DEF CallsInv, Done, Quiet
<1>3. call'[c] = NoCall /\ \A d \in Calls : d # c => call'[d] = call[d]
  BY <1>1, CallStep DEF CallsInv, CallsType, Done
<1>4. DeletionInv'
  BY <1>1, <1>3, InFlightSame, DeletionKept DEF CallsInv, Quiet, Deleted
<1> QED
  BY <1>2, <1>4 DEF CallsInv, CallsType

LEMMA AnswerSearchCalls ==
    ASSUME CallsInv, PageInv, NEW c \in Calls, AnswerSearch(c)
    PROVE  CallsInv'
<1>1. Quiet
  BY AnswerSearchPage DEF CallsInv, CallsType
<1> QED
  BY <1>1, DoneStep DEF AnswerSearch, Arrives, Waits, Keys

LEMMA AnswerCreateCalls ==
    ASSUME CallsInv, PageInv, NEW c \in Calls, AnswerCreate(c)
    PROVE  CallsInv'
<1>1. Quiet
  BY AnswerCreatePage DEF CallsInv, CallsType
<1>2. /\ CallsType' /\ OrderInv' /\ TableInv'
      /\ call'[c].kind = "list" /\ \A d \in Calls : d # c => call'[d] = call[d]
  BY ReloadStep DEF AnswerCreate, Arrives
<1>3. DeletionInv'
  BY <1>1, <1>2, InFlightSame, DeletionKept DEF CallsInv, AnswerCreate, Quiet, Deleted
<1> QED
  BY <1>2, <1>3 DEF CallsInv

LEMMA AnswerUpdateCalls ==
    ASSUME CallsInv, PageInv, NEW c \in Calls, AnswerUpdate(c)
    PROVE  CallsInv'
<1>1. Quiet
  BY AnswerUpdatePage DEF CallsInv, CallsType
<1>2. CASE call[c].ok
  <2>1. /\ CallsType' /\ OrderInv' /\ TableInv'
        /\ call'[c].kind = "list" /\ \A d \in Calls : d # c => call'[d] = call[d]
    BY <1>2, ReloadStep DEF AnswerUpdate, Arrives
  <2>2. DeletionInv'
    BY <1>1, <2>1, InFlightSame, DeletionKept DEF CallsInv, AnswerUpdate, Quiet, Deleted
  <2> QED
    BY <2>1, <2>2 DEF CallsInv
<1>3. CASE ~call[c].ok
  BY <1>1, <1>3, DoneStep DEF AnswerUpdate, Arrives, Waits
<1> QED
  BY <1>2, <1>3

\* One deletion at a time ends with a load of the table.
LEMMA AnswerDeleteCalls ==
    ASSUME CallsInv, PageInv, NEW c \in Calls, AnswerDelete(c)
    PROVE  CallsInv'
<1>1. /\ call[c].kind = "delete" /\ UNCHANGED <<doc, made, ahead, mishaps>>
      /\ c \in InFlight("delete")
  BY DEF AnswerDelete, Arrives, InFlight
<1>2. SameTable(store, store') /\ (~Deleted(store) => Reload(c))
  BY AnswerDeletePage
<1>3. Reload(c) \/ Done(c)
  BY DEF AnswerDelete
<1>4. CASE Reload(c)
  <2>1. /\ CallsType' /\ OrderInv' /\ TableInv'
        /\ call'[c].kind = "list" /\ \A d \in Calls : d # c => call'[d] = call[d]
    BY <1>1, <1>4, ReloadStep
  <2>2. DeletionInv'
    <3> SUFFICES ASSUME "deletions" \notin mishaps' PROVE InFlight("delete")' = {}
      BY DEF DeletionInv
    <3>1. \A d \in InFlight("delete") : d = c
      BY <1>1 DEF DeletionInv, CallsInv
    <3> QED
      BY <2>1, <3>1 DEF InFlight
  <2> QED
    BY <2>1, <2>2 DEF CallsInv
<1>5. CASE ~Reload(c)
  <2>1. Deleted(store) /\ Done(c)
    BY <1>2, <1>3, <1>5
  <2>2. "deletions" \in mishaps
    BY <1>1, <2>1 DEF DeletionInv, CallsInv, Deleted
  <2>3. call' \in [Calls -> Call] /\ call'[c] = NoCall
        /\ \A d \in Calls : d # c => call'[d] = call[d]
    BY <2>1, CallValues, CallStep DEF CallsInv, CallsType, Done
  <2>4. Served' = Served
    BY <1>1, <2>3, CallValues, ServedSame
  <2>5. OrderInv' /\ TableInv' /\ DeletionInv'
    BY <1>1, <2>2, <2>4, OrderKept DEF CallsInv, TableInv, DeletionInv
  <2> QED
    BY <1>1, <2>3, <2>5 DEF CallsInv, CallsType
<1> QED
  BY <1>4, <1>5

-----------------------------------------------------------------------------
(***************************************************************************)
(* Every step keeps the invariant.                                         *)
(***************************************************************************)

LEMMA ConfirmDeleteCalls ==
    ASSUME CallsInv, PageInv, NEW c \in Calls, ConfirmDelete(c)
    PROVE  CallsInv'
<1> DEFINE chosen == store.slot["delete"].current
           r == Sent("delete", chosen)
<1>1. /\ call' = [call EXCEPT ![c] = r] /\ Click(c) /\ chosen # None
      /\ UNCHANGED <<doc, ahead>>
      /\ mishaps' = IF InFlight("delete") = {} THEN mishaps ELSE mishaps \cup {"deletions"}
  BY DEF ConfirmDelete
<1>2. chosen \in Items
  BY <1>1, SlotsOf, SlotValues DEF PageInv, Choice
<1>3. r \in Call /\ r.kind = "delete" /\ r.stage = "sent"
  BY <1>2, CallValues DEF Keys
<1> HIDE DEF chosen, r
<1>4. Quiet /\ ~Deleted(store')
  BY ConfirmDeletePage
<1>5. call[c].kind = "idle" /\ made' \in Nat
  BY <1>1 DEF Click, Idle, InFlight, CallsInv, CallsType
<1>6. OrderInv' /\ TableInv' /\ call' \in [Calls -> Call]
  BY <1>1, <1>3, <1>4, <1>5, AsideStep DEF CallsInv, Waits, Keys, Quiet
<1>7. call'[c] = r /\ \A d \in Calls : d # c => call'[d] = call[d]
  BY <1>1, <1>3, CallStep DEF CallsInv, CallsType
<1>8. DeletionInv'
  <2> SUFFICES ASSUME "deletions" \notin mishaps'
               PROVE  \A d, e \in InFlight("delete")' : d = e
    BY <1>4 DEF DeletionInv, Deleted
  <2>1. InFlight("delete") = {}
    BY <1>1
  <2> QED
    BY <1>7, <2>1 DEF InFlight
<1> QED
  BY <1>1, <1>5, <1>6, <1>8 DEF CallsInv, CallsType, Mishaps

StepInv == PageInv /\ CallsInv

\* The user's steps: what the page shows, and what is sent.
LEMMA UserStep ==
    ASSUME StepInv, User, Queries \subseteq SUBSET Items
    PROVE  StepInv'
<1> USE DEF StepInv
<1>1. ASSUME NEW c \in Calls, NEW query \in Queries, LoadTable(c, query)
      PROVE  StepInv'
  <2>1. ListCall(query) \in Call /\ ListCall(query).kind = "list" /\ ListCall(query).stage = "sent"
    BY CallValues
  <2>2. PageInv' /\ Quiet
    BY <1>1, LoadTablePage
  <2>3. CallsInv'
    BY <1>1, <2>1, <2>2, SendStep DEF LoadTable
  <2> QED
    BY <2>2, <2>3
<1>2. ASSUME NEW id \in AtHand, Use(id)
      PROVE  StepInv'
  <2>1. id \in Items
    BY AtHandItems
  <2>2. PageInv' /\ Quiet
    BY <1>2, <2>1, ShowRowPage, EditPage, AskToDeletePage DEF Use
  <2>3. UNCHANGED <<doc, call, made, ahead, mishaps>>
    BY <1>2 DEF Use, ShowRow, Edit, AskToDelete
  <2> QED
    BY <2>2, <2>3, StillStep DEF CallsInv
<1>3. ASSUME NEW text \in Texts, Type(text)
      PROVE  StepInv'
  <2>1. PageInv' /\ Quiet
    BY <1>3, TypePage
  <2> QED
    BY <1>3, <2>1, StillStep DEF CallsInv, Type
<1>4. ASSUME NEW c \in Calls, Pause(c)
      PROVE  StepInv'
  <2> DEFINE r == [NoCall EXCEPT !.kind = "search", !.query = view.field.text]
  <2>1. PageInv' /\ Quiet /\ view.field.text \in SUBSET Items
    BY <1>4, PausePage
  <2>2. r \in Call /\ r.kind = "search" /\ r.stage = "sent"
    BY <2>1, CallValues
  <2>3. Click(c) /\ call' = [call EXCEPT ![c] = r] /\ UNCHANGED <<doc, ahead, mishaps>>
    BY <1>4 DEF Pause
  <2> HIDE DEF r
  <2>4. CallsInv'
    BY <2>1, <2>2, <2>3, SendStep
  <2> QED
    BY <2>1, <2>4
<1>5. ASSUME NEW id \in view.field.options, Select(id)
      PROVE  StepInv'
  <2>1. id \in Items
    BY ViewFields DEF PageInv
  <2>2. PageInv' /\ Quiet
    BY <1>5, <2>1, SelectPage
  <2> QED
    BY <1>5, <2>2, StillStep DEF CallsInv, Select
<1>6. ASSUME CancelEdit PROVE StepInv'
  BY <1>6, CancelEditPage, StillStep DEF CallsInv, CancelEdit
<1>7. ASSUME CancelDelete PROVE StepInv'
  BY <1>7, CancelDeletePage, StillStep DEF CallsInv, CancelDelete
<1>8. ASSUME NEW c \in Calls, ConfirmDelete(c) PROVE StepInv'
  BY <1>8, ConfirmDeletePage, ConfirmDeleteCalls
<1>9. ASSUME NEW c \in Calls, SubmitCreate(c) PROVE StepInv'
  <2>1. Sent("create", 1) \in Call /\ Sent("create", 1).kind = "create"
        /\ Sent("create", 1).stage = "sent"
    <3>1. "create" \in Keys /\ 1 \in Items
      BY DEF Keys, Items
    <3> QED
      BY <3>1, CallValues
  <2>2. PageInv' /\ Quiet
    BY <1>9, SubmitCreatePage
  <2>3. CallsInv'
    BY <1>9, <2>1, <2>2, SendStep DEF SubmitCreate
  <2> QED
    BY <2>2, <2>3
<1>10. ASSUME NEW c \in Calls, SubmitUpdate(c) PROVE StepInv'
  <2> DEFINE chosen == store.slot["update"].current
             r == Sent("update", chosen)
  <2>1. chosen \in Items
    BY <1>10, SlotsOf, SlotValues DEF PageInv, Choice, SubmitUpdate
  <2>2. r \in Call /\ r.kind = "update" /\ r.stage = "sent"
    BY <2>1, CallValues DEF Keys
  <2>3. PageInv' /\ Quiet
    BY <1>10, SubmitUpdatePage
  <2>4. Click(c) /\ call' = [call EXCEPT ![c] = r] /\ UNCHANGED <<doc, ahead, mishaps>>
    BY <1>10 DEF SubmitUpdate
  <2> HIDE DEF r
  <2>5. CallsInv'
    BY <2>2, <2>3, <2>4, SendStep
  <2> QED
    BY <2>3, <2>5
<1> QED
  BY <1>1, <1>2, <1>3, <1>4, <1>5, <1>6, <1>7, <1>8, <1>9, <1>10 DEF User

\* The server's steps touch no page.
LEMMA ServeStep ==
    ASSUME StepInv, NEW c \in Calls, Serve(c)
    PROVE  StepInv'
<1>1. UNCHANGED <<store, view>>
  BY DEF Serve, ServeList, ServeSearch, ServeCreate, ServeUpdate, ServeDelete
<1>2. PageInv'
  BY <1>1, PageParts DEF StepInv
<1>3. CallsInv'
  BY ServeListCalls, ServeSearchCalls, ServeCreateCalls, ServeUpdateCalls, ServeDeleteCalls
     DEF Serve, StepInv
<1> QED
  BY <1>2, <1>3 DEF StepInv

\* The answers, and what is lost.
LEMMA AnswerStep ==
    ASSUME StepInv, NEW c \in Calls, Answer(c) \/ Lose(c)
    PROVE  StepInv'
<1>1. call[c] \in Call
  BY DEF StepInv, CallsInv, CallsType
<1>2. PageInv'
  BY <1>1, AnswerListPage, AnswerSearchPage, AnswerCreatePage, AnswerUpdatePage,
     AnswerDeletePage, LosePage DEF Answer, StepInv
<1>3. CallsInv'
  BY AnswerListCalls, AnswerSearchCalls, AnswerCreateCalls, AnswerUpdateCalls,
     AnswerDeleteCalls, LoseCalls DEF Answer, StepInv
<1> QED
  BY <1>2, <1>3 DEF StepInv

LEMMA InvForm ==
    /\ IInv <=> StepInv
    /\ IInv' <=> StepInv'
BY TypeParts DEF IInv, StepInv, TypeInv, PageInv, CallsInv, CallsType

LEMMA InitInv ==
    ASSUME Init
    PROVE  StepInv
<1>1. 1 \in Calls
  BY DEF Calls
<1>2. Items \in SUBSET Items
  OBVIOUS
<1>3. ListCall(Items) \in Call /\ ListCall(Items).kind = "list" /\ ListCall(Items).stage = "sent"
      /\ NoCall \in Call /\ NoCall.kind = "idle"
  BY <1>2, CallValues
<1>4. /\ doc \in DocType /\ call \in [Calls -> Call] /\ made \in Nat
      /\ ahead \in [Calls -> SUBSET Calls] /\ mishaps = {}
      /\ call[1] = ListCall(Items) /\ \A c \in Calls : c # 1 => call[c] = NoCall
  BY <1>1, <1>3 DEF Init, DocType
<1>5. Served = {} /\ InFlight("delete") = {}
  BY <1>1, <1>3, <1>4 DEF Served, Arrives, InFlight
<1>6. Due
  BY <1>1, <1>3, <1>4, DueCalls DEF Waits
<1>7. CallsInv
  BY <1>4, <1>5, <1>6 DEF CallsInv, CallsType, DeletionInv, OrderInv, TableInv, Mishaps
<1>8. InitialStore \in StoreType /\ EditOf(InitialStore) = None
      /\ InitialStore.search.result = {}
  BY DEF InitialStore, StoreType, Table, Slot, InitialSlot, Search, Choice, EditOf, Keys
<1>9. /\ store \in StoreType /\ SameSlots(InitialStore, store) /\ SameSearch(InitialStore, store)
  BY <1>8, TableFlag DEF Init, ListLoading
<1>10. NoSearch \in Field /\ NoSearch.options = {} /\ NoSearch.sought = None
  BY EmptyField
<1>11. /\ view \in ViewType /\ view.modal = FALSE /\ view.box = "none" /\ view.field = NoSearch
  BY <1>10 DEF Init, ViewType, Choice
<1>12. PageInv
  BY <1>8, <1>9, <1>10, <1>11, PageParts DEF PanelInv, DialogInv, OptionInv, SameSearch
<1> QED
  BY <1>7, <1>12 DEF StepInv

\* The invariant of the page of a table: the components show what the store holds,
\* deletions are told apart unless they overlap, and whatever the table misses is
\* on its way (redux/crud/reducer.js, CrudModule).
THEOREM Invariant == Spec => []IInv
<1>1. Init => IInv
  BY InitInv, InvForm
<1>2. IInv /\ [Next]_vars => IInv'
  <2> SUFFICES ASSUME StepInv, [Next]_vars PROVE StepInv'
    BY InvForm
  <2>1. CASE User
    BY <2>1, UserStep
  <2>2. ASSUME NEW c \in Calls, Serve(c) \/ Answer(c) \/ Lose(c) PROVE StepInv'
    BY <2>2, ServeStep, AnswerStep
  <2>3. CASE UNCHANGED vars
    <3>1. PageInv'
      BY <2>3, PageParts DEF vars, StepInv
    <3>2. Quiet
      BY <2>3 DEF vars, Quiet, SameTable
    <3>3. CallsInv'
      BY <2>3, <3>2, StillStep DEF vars, StepInv, CallsInv
    <3> QED
      BY <3>1, <3>3 DEF StepInv
  <2> QED
    BY <2>1, <2>2, <2>3 DEF Next
<1> QED
  BY <1>1, <1>2, PTL DEF Spec

\* The store, the components and the calls keep their shape, so no step reads a key
\* that an answer or the failure of a call has taken out of the store
\* (redux/crud/reducer.js:46-71).
THEOREM TypeCorrect == Spec => []TypeOK
<1>1. IInv => TypeOK
  BY DEF IInv, TypeInv
<1> QED
  BY <1>1, Invariant, PTL

\* What is sent is what is shown, for any number of calls in flight: the form and the
\* dialog name the document that the store will send, and every option of the search
\* field is found in the result (components/UpdateForm/index.jsx:33-43,
\* DeleteModal/index.jsx:38-47, SearchItem/index.jsx:59-91).
THEOREM SentIsShown == Spec => []ActsOnWhatIsShown
<1>1. IInv => ActsOnWhatIsShown
  BY DEF IInv, ShownInv
<1> QED
  BY <1>1, Invariant, PTL

\* When every call is answered, and no call was lost, no two lists were overtaken and
\* no two deletions overlapped, the table shows what the server has
\* (components/UpdateForm/index.jsx:83-92, DeleteModal/index.jsx:31-43).
THEOREM TableCorrect == Spec => []TableIsCurrent
<1>1. IInv => TableIsCurrent
  <2> SUFFICES ASSUME IInv, Idle = Calls, mishaps = {}
               PROVE  store.list.items = {CopyOf(i) : i \in Live \cap store.list.query}
    BY DEF TableIsCurrent
  <2>1. \A c \in Calls : call[c].kind = "idle"
    BY DEF Idle, InFlight
  <2>2. ~Due /\ Served = {}
    BY <2>1 DEF Due, Served, Arrives, Keys
  <2>3. store.list.items = Held(doc, store.list.query)
    BY <2>2 DEF IInv, TableInv
  <2>4. store.list.query \in SUBSET Items /\ CallsType
    BY InvForm, StoreFields DEF StepInv, PageInv, CallsInv
  <2> QED
    BY <2>3, <2>4, Copies
<1> QED
  BY <1>1, Invariant, PTL
=============================================================================
