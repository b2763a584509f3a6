--------------------------- MODULE ErpPagesProofs ---------------------------
(***************************************************************************)
(* Theorems about ErpPages, for any number of documents, of calls in       *)
(* flight and of mishaps.                                                  *)
(***************************************************************************)
EXTENDS ErpPages, TLAPS

USE ErpPagesAssumption

-----------------------------------------------------------------------------
(***************************************************************************)
(* Invariants.                                                             *)
(***************************************************************************)

\* The calls in flight: a bag of calls.
Flight(f) ==
    /\ f = [c \in DOMAIN f |-> f[c]]
    /\ DOMAIN f \subseteq Call
    /\ \A c \in DOMAIN f : f[c] \in Nat \ {0}

Browser(s) ==
    /\ s = [page |-> s.page, current |-> s.current, rows |-> s.rows, slot |-> s.slot,
            recent |-> s.recent, modal |-> s.modal, asked |-> s.asked,
            flight |-> s.flight, mishaps |-> s.mishaps]
    /\ s.page \in Page
    /\ s.current \in Choice
    /\ s.rows \subseteq Docs
    /\ s.slot \in [Keys -> Slot]
    /\ s.recent \in Recent
    /\ s.modal \in BOOLEAN
    /\ s.asked \in Choice
    /\ Flight(s.flight)
    /\ s.mishaps \subseteq Mishaps

TypeInv ==
    /\ doc \in [Docs -> {"absent", "live", "removed"}]
    /\ Browser(b)

\* There is at most one call of these keys in the bag.
Sole(f, keys) ==
    \A c \in DOMAIN f : c.key \in keys =>
        /\ f[c] = 1
        /\ \A d \in DOMAIN f : d.key \in keys => d = c

\* Rows are documents of the entity that was asked for, and none are
\* refused unless they were lost.
RowsInv(s) ==
    \A c \in DOMAIN s.flight :
        /\ c.rows \subseteq Of(c.entity)
        /\ c.key = "list" /\ c.stage = "refused" => "lost" \in s.mishaps

\* Nothing was left behind: the list in flight is the one of the page, ...
ListInv(s) ==
    "list" \notin s.mishaps =>
        /\ Sole(s.flight, {"list"})
        /\ \A c \in DOMAIN s.flight : c.key = "list" => c.entity = s.page.entity

\* ... a read is the one of the document of the path, ...
ReadInv(s) ==
    "read" \notin s.mishaps =>
        \A c \in DOMAIN s.flight : c.key = "read" => c.id = s.page.id

\* ... a deletion was sent by the table, which waits for it, ...
DeletionInv(s) ==
    "delete" \notin s.mishaps =>
        /\ Sole(s.flight, {"delete"})
        /\ \A c \in DOMAIN s.flight : c.key = "delete" =>
            /\ s.page.name = "list"
            /\ s.slot["delete"].isLoading /\ ~s.slot["delete"].isSuccess

\* The page that sends a save.
Sender(k) == IF k = "recordPayment" THEN "pay" ELSE k

\* ... and a save was sent by the page, which waits for it.
SaveInv(s) ==
    "save" \notin s.mishaps =>
        /\ Sole(s.flight, Saves)
        /\ \A c \in DOMAIN s.flight : c.key \in Saves =>
            /\ s.page.name = Sender(c.key)
            /\ s.slot[c.key].isLoading
            /\ c.key = "update" => \/ c.id = s.page.id
                                   \/ s.page.entity = "payment" /\ "read" \in s.mishaps

FlightInv(s) == RowsInv(s) /\ ListInv(s) /\ ReadInv(s) /\ DeletionInv(s) /\ SaveInv(s)

\* The payment that is prepared is for the current item, and none succeeded.
PayInv(s) ==
    s.page.name = "pay" => /\ s.slot["recordPayment"].current = s.current
                           /\ ~s.slot["recordPayment"].isSuccess

\* The dialog belongs to the table, and names the document of its key.
ModalInv(s) ==
    s.modal => /\ s.page.name = "list"
               /\ s.asked \in Docs
               /\ s.slot["delete"].current = s.asked

\* The form that is open is not closed by a save that was answered before.
FormInv(s) ==
    /\ s.page.name = "update" => ~(ReadDone(s) /\ s.slot["update"].isSuccess)
    /\ FormOpen(s) /\ "read" \notin s.mishaps =>
          /\ s.slot["read"].result = s.page.id
          /\ s.page.entity = "invoice" => s.slot["update"].current = s.page.id

ListedInv(s) ==
    s.page.name = "list" /\ "list" \notin s.mishaps => s.rows \subseteq Of(s.page.entity)

ShownInv(s) == PageOpen(s) /\ s.mishaps \cap {"read", "save"} = {} => s.current = s.page.id

\* The success of a save outlives its page only after a mishap.
CreatedInv(s) == "save" \notin s.mishaps => ~s.slot["create"].isSuccess
UpdatedInv(s) == s.mishaps \cap {"save", "payment"} = {} => ~s.slot["update"].isSuccess

PageInv(s) ==
    /\ PayInv(s) /\ ModalInv(s) /\ FormInv(s) /\ ListedInv(s) /\ ShownInv(s)
    /\ CreatedInv(s) /\ UpdatedInv(s)

\* Unless a deletion has just been made, the table or the list that is about
\* to fill it shows live documents.
Deleted(s) == \E c \in DOMAIN s.flight : c.key = "delete" /\ c.stage = "done"
TableInv(s, live) ==
    /\ s.page.name = "list" /\ s.mishaps \cap {"lost", "list", "delete"} = {}
    /\ ~Deleted(s)
    => /\ (\A c \in DOMAIN s.flight : c.key # "list") => s.rows \subseteq live
       /\ \A c \in DOMAIN s.flight : c.key = "list" /\ c.stage = "done" => c.rows \subseteq live

IInv == TypeInv /\ FlightInv(b) /\ PageInv(b) /\ TableInv(b, Live)

-----------------------------------------------------------------------------
(***************************************************************************)
(* Bags of calls.                                                          *)
(***************************************************************************)

Plus(f, c) == f (+) SetToBag({c})
Minus(f, c) == f (-) SetToBag({c})
Kept(f) == [c \in {x \in BagToSet(f) : x.key # "recent"} |-> f[c]]

\* A call leaves.
LEMMA PlusIs ==
    ASSUME NEW f, NEW c \in Call, Flight(f)
    PROVE  /\ Flight(Plus(f, c))
           /\ DOMAIN Plus(f, c) = DOMAIN f \cup {c}
           /\ \A d \in DOMAIN f : d # c => Plus(f, c)[d] = f[d]
           /\ c \notin DOMAIN f => Plus(f, c)[c] = 1
BY DEF Flight, Plus, SetToBag, (+)

\* A call is answered.
LEMMA MinusIs ==
    ASSUME NEW f, NEW c \in DOMAIN f, Flight(f)
    PROVE  /\ Flight(Minus(f, c))
           /\ DOMAIN Minus(f, c) \subseteq DOMAIN f
           /\ \A d \in DOMAIN f : d # c => d \in DOMAIN Minus(f, c) /\ Minus(f, c)[d] = f[d]
           /\ f[c] = 1 => c \notin DOMAIN Minus(f, c)
<1> DEFINE B == [e \in DOMAIN f |-> IF e \in {c} THEN f[e] - SetToBag({c})[e] ELSE f[e]]
           D == {d \in DOMAIN f : B[d] > 0}
<1>1. Minus(f, c) = [e \in D |-> B[e]]
  BY DEF Minus, SetToBag, (-)
<1>2. \A e \in DOMAIN f : B[e] = IF e = c THEN f[e] - 1 ELSE f[e]
  BY DEF SetToBag
<1>3. /\ f[c] \in Nat \ {0} /\ DOMAIN f \subseteq Call
      /\ \A e \in DOMAIN f : f[e] \in Nat \ {0}
  BY DEF Flight
<1> HIDE DEF B
<1>4. ASSUME NEW e \in D PROVE B[e] \in Nat \ {0}
  <2>1. e \in DOMAIN f /\ B[e] > 0
    OBVIOUS
  <2>2. f[e] \in Nat /\ B[e] = IF e = c THEN f[e] - 1 ELSE f[e]
    BY <1>2, <1>3, <2>1
  <2> QED
    BY <2>1, <2>2
<1>5. DOMAIN Minus(f, c) = D /\ \A e \in D : Minus(f, c)[e] = B[e]
  BY <1>1
<1>6. Flight(Minus(f, c))
  BY <1>1, <1>3, <1>4, <1>5 DEF Flight
<1>7. \A d \in DOMAIN f : d # c => d \in D /\ B[d] = f[d]
  BY <1>2, <1>3
<1>8. f[c] = 1 => c \notin D
  BY <1>2, <1>3
<1> QED
  BY <1>5, <1>6, <1>7, <1>8

\* The calls of the dashboard are given up.
LEMMA KeptIs ==
    ASSUME NEW f, Flight(f)
    PROVE  /\ Flight(Kept(f))
           /\ DOMAIN Kept(f) = {c \in DOMAIN f : c.key # "recent"}
           /\ \A c \in DOMAIN Kept(f) : Kept(f)[c] = f[c]
BY DEF Flight, Kept, BagToSet

LEMMA DomainPlus ==
    ASSUME NEW f, NEW g, NEW c \in Call, Flight(f), g = Plus(f, c)
    PROVE  DOMAIN g = DOMAIN f \cup {c}
<1>1. DOMAIN Plus(f, c) = DOMAIN f \cup {c}
  BY PlusIs
<1> QED
  BY <1>1

LEMMA SolePlus ==
    ASSUME NEW f, NEW c \in Call, NEW keys, Flight(f), Sole(f, keys),
           c.key \notin keys \/ \A d \in DOMAIN f : d.key \notin keys
    PROVE  Sole(Plus(f, c), keys)
<1>1. /\ DOMAIN Plus(f, c) = DOMAIN f \cup {c}
      /\ \A d \in DOMAIN f : d # c => Plus(f, c)[d] = f[d]
      /\ c \notin DOMAIN f => Plus(f, c)[c] = 1
  BY PlusIs
<1>2. CASE c.key \notin keys
  BY <1>1, <1>2 DEF Sole
<1>3. CASE \A d \in DOMAIN f : d.key \notin keys
  <2>1. c.key \in keys => c \notin DOMAIN f
    BY <1>3
  <2> QED
    BY <1>1, <1>3, <2>1 DEF Sole
<1> QED
  BY <1>2, <1>3

LEMMA SoleMinus ==
    ASSUME NEW f, NEW c \in DOMAIN f, NEW keys, Flight(f), Sole(f, keys)
    PROVE  /\ Sole(Minus(f, c), keys)
           /\ c.key \in keys => \A d \in DOMAIN Minus(f, c) : d.key \notin keys
BY MinusIs DEF Sole

LEMMA SoleKept ==
    ASSUME NEW f, NEW keys, Flight(f), Sole(f, keys)
    PROVE  Sole(Kept(f), keys)
<1>1. /\ DOMAIN Kept(f) = {c \in DOMAIN f : c.key # "recent"}
      /\ \A c \in DOMAIN Kept(f) : Kept(f)[c] = f[c]
  BY KeptIs
<1> QED
  BY <1>1 DEF Sole

\* A call is served: it is replaced by one of the same key.
LEMMA SoleReplaced ==
    ASSUME NEW f, NEW c \in DOMAIN f, NEW d \in Call, NEW keys, Flight(f), Sole(f, keys),
           c.key = d.key
    PROVE  Sole(Plus(Minus(f, c), d), keys)
<1>1. Flight(Minus(f, c))
  BY MinusIs
<1>2. CASE c.key \in keys
  BY <1>1, <1>2, SoleMinus, SolePlus
<1>3. CASE c.key \notin keys
  BY <1>1, <1>3, SoleMinus, SolePlus
<1> QED
  BY <1>2, <1>3

-----------------------------------------------------------------------------
(***************************************************************************)
(* The steps that the handlers are made of.                                *)
(***************************************************************************)

\* What a step leaves alone.
SamePage(s, t) == /\ t.page = s.page /\ t.recent = s.recent
                  /\ t.modal = s.modal /\ t.asked = s.asked
SameItems(s, t) == t.current = s.current /\ t.rows = s.rows
SameCalls(s, t) == t.flight = s.flight /\ t.mishaps = s.mishaps
SameSlots(s, t, k) == \A j \in Keys : j # k => t.slot[j] = s.slot[j]

\* A key of the store is given a value.
WithSlot(s, k, v) == [s EXCEPT !.slot = [s.slot EXCEPT ![k] = v]]

LEMMA WithSlotIs ==
    ASSUME NEW s, NEW k \in Keys, NEW v \in Slot, Browser(s)
    PROVE  LET t == WithSlot(s, k, v)
           IN  /\ Browser(t) /\ SamePage(s, t) /\ SameItems(s, t) /\ SameCalls(s, t)
               /\ SameSlots(s, t, k) /\ t.slot[k] = v
<1> DEFINE slot == [s.slot EXCEPT ![k] = v]
           t == [s EXCEPT !.slot = slot]
<1>1. slot \in [Keys -> Slot] /\ slot[k] = v /\ \A j \in Keys \ {k} : slot[j] = s.slot[j]
  BY DEF Browser
<1> HIDE DEF slot
<1>2. Browser(t) /\ SamePage(s, t) /\ SameItems(s, t) /\ SameCalls(s, t) /\ t.slot = slot
  BY <1>1 DEF Browser, SamePage, SameItems, SameCalls
<1>3. SameSlots(s, t, k) /\ t.slot[k] = v
  BY <1>1, <1>2 DEF SameSlots
<1> QED
  BY <1>2, <1>3 DEF WithSlot, slot

LEMMA SlotFields ==
    ASSUME NEW v \in Slot
    PROVE  /\ v.result \in Choice /\ v.current \in Choice
           /\ v.isLoading \in BOOLEAN /\ v.isSuccess \in BOOLEAN
BY DEF Slot

LEMMA CurrentItemIs ==
    ASSUME NEW s, NEW d \in Choice, Browser(s)
    PROVE  LET t == CurrentItem(s, d)
           IN  /\ Browser(t) /\ SamePage(s, t) /\ SameCalls(s, t) /\ t.slot = s.slot
               /\ t.rows = s.rows /\ t.current = d
BY DEF CurrentItem, Browser, SamePage, SameCalls

LEMMA RequestLoadingIs ==
    ASSUME NEW s, NEW k \in Keys, Browser(s)
    PROVE  LET t == RequestLoading(s, k)
           IN  /\ Browser(t) /\ SamePage(s, t) /\ SameItems(s, t) /\ SameCalls(s, t)
               /\ SameSlots(s, t, k)
               /\ t.slot[k].result = s.slot[k].result /\ t.slot[k].current = s.slot[k].current
               /\ t.slot[k].isLoading /\ t.slot[k].isSuccess = s.slot[k].isSuccess
<1> DEFINE v == [s.slot[k] EXCEPT !.isLoading = TRUE]
<1>1. s.slot[k] \in Slot
  BY DEF Browser
<1>2. /\ v \in Slot /\ v.result = s.slot[k].result /\ v.current = s.slot[k].current
      /\ v.isLoading /\ v.isSuccess = s.slot[k].isSuccess
  BY <1>1 DEF Slot
<1>3. RequestLoading(s, k) = WithSlot(s, k, v)
  BY DEF RequestLoading, WithSlot, Browser
<1> HIDE DEF v
<1> QED
  BY <1>2, <1>3, WithSlotIs

LEMMA RequestFailedIs ==
    ASSUME NEW s, NEW k \in Keys, Browser(s)
    PROVE  LET t == RequestFailed(s, k)
           IN  /\ Browser(t) /\ SamePage(s, t) /\ SameItems(s, t) /\ SameCalls(s, t)
               /\ SameSlots(s, t, k)
               /\ t.slot[k].result = s.slot[k].result /\ t.slot[k].current = s.slot[k].current
               /\ ~t.slot[k].isLoading /\ ~t.slot[k].isSuccess
<1> DEFINE u == [s.slot[k] EXCEPT !.isLoading = FALSE]
           v == [u EXCEPT !.isSuccess = FALSE]
<1>1. s.slot[k] \in Slot
  BY DEF Browser
<1>2. u \in Slot /\ u.result = s.slot[k].result /\ u.current = s.slot[k].current /\ ~u.isLoading
  BY <1>1 DEF Slot
<1>3. /\ v \in Slot /\ v.result = s.slot[k].result /\ v.current = s.slot[k].current
      /\ ~v.isLoading /\ ~v.isSuccess
  BY <1>2 DEF Slot
<1>4. RequestFailed(s, k) = WithSlot(s, k, v)
  BY DEF RequestFailed, WithSlot, Browser
<1> HIDE DEF u, v
<1> QED
  BY <1>3, <1>4, WithSlotIs

LEMMA RequestSuccessIs ==
    ASSUME NEW s, NEW k \in Keys, NEW r \in Choice, Browser(s)
    PROVE  LET t == RequestSuccess(s, k, r)
           IN  /\ Browser(t) /\ SamePage(s, t) /\ SameItems(s, t) /\ SameCalls(s, t)
               /\ SameSlots(s, t, k)
               /\ t.slot[k].result = r /\ t.slot[k].current = None
               /\ ~t.slot[k].isLoading /\ t.slot[k].isSuccess
<1> DEFINE v == [InitialSlot EXCEPT !.result = r, !.isSuccess = TRUE]
<1>1. v \in Slot /\ v.result = r /\ v.current = None /\ ~v.isLoading /\ v.isSuccess
  BY DEF Slot, InitialSlot, Choice
<1>2. RequestSuccess(s, k, r) = WithSlot(s, k, v)
  BY DEF RequestSuccess, WithSlot
<1> HIDE DEF v
<1> QED
  BY <1>1, <1>2, WithSlotIs

LEMMA CurrentActionIs ==
    ASSUME NEW s, NEW k \in Keys, NEW d \in Choice, Browser(s)
    PROVE  LET t == CurrentAction(s, k, d)
           IN  /\ Browser(t) /\ SamePage(s, t) /\ SameItems(s, t) /\ SameCalls(s, t)
               /\ SameSlots(s, t, k)
               /\ t.slot[k].result = s.slot[k].result /\ t.slot[k].current = d
               /\ t.slot[k].isLoading = s.slot[k].isLoading
               /\ t.slot[k].isSuccess = s.slot[k].isSuccess
<1> DEFINE v == [s.slot[k] EXCEPT !.current = d]
<1>1. s.slot[k] \in Slot
  BY DEF Browser
<1>2. /\ v \in Slot /\ v.result = s.slot[k].result /\ v.current = d
      /\ v.isLoading = s.slot[k].isLoading /\ v.isSuccess = s.slot[k].isSuccess
  BY <1>1 DEF Slot
<1>3. CurrentAction(s, k, d) = WithSlot(s, k, v)
  BY DEF CurrentAction, WithSlot, Browser
<1> HIDE DEF v
<1> QED
  BY <1>2, <1>3, WithSlotIs

LEMMA InitialSlotIs ==
    /\ InitialSlot \in Slot /\ InitialSlot.result = None /\ InitialSlot.current = None
    /\ ~InitialSlot.isLoading /\ ~InitialSlot.isSuccess
BY DEF Slot, InitialSlot, Choice

LEMMA ResetActionIs ==
    ASSUME NEW s, NEW k \in Keys, Browser(s)
    PROVE  LET t == ResetAction(s, k)
           IN  /\ Browser(t) /\ SamePage(s, t) /\ SameItems(s, t) /\ SameCalls(s, t)
               /\ SameSlots(s, t, k) /\ t.slot[k] = InitialSlot
<1>1. ResetAction(s, k) = WithSlot(s, k, InitialSlot)
  BY DEF ResetAction, WithSlot
<1> QED
  BY <1>1, InitialSlotIs, WithSlotIs

LEMMA ResetStateIs ==
    ASSUME NEW s, Browser(s)
    PROVE  LET t == ResetState(s)
           IN  /\ Browser(t) /\ SamePage(s, t) /\ SameCalls(s, t)
               /\ t.current = None /\ t.rows = {} /\ \A k \in Keys : t.slot[k] = InitialSlot
<1> DEFINE slot == [k \in Keys |-> InitialSlot]
           u == [s EXCEPT !.current = None]
           none == {}
           v == [u EXCEPT !.rows = none]
           t == [v EXCEPT !.slot = slot]
<1>1. slot \in [Keys -> Slot] /\ \A k \in Keys : slot[k] = InitialSlot
  BY InitialSlotIs
<1>2. None \in Choice /\ none \subseteq Docs
  BY DEF Choice
<1> HIDE DEF slot, none
<1>3. Browser(u) /\ SamePage(s, u) /\ SameCalls(s, u) /\ u.current = None
  BY <1>2 DEF Browser, SamePage, SameCalls
<1>4. ResetState(s) = t
  BY DEF ResetState, slot, none
<1> HIDE DEF u
<1>5. /\ Browser(v) /\ SamePage(u, v) /\ SameCalls(u, v)
      /\ v.current = u.current /\ v.rows = none
  BY <1>2, <1>3 DEF Browser, SamePage, SameCalls
<1> HIDE DEF v
<1>6. /\ Browser(t) /\ SamePage(v, t) /\ SameCalls(v, t)
      /\ t.current = v.current /\ t.rows = v.rows /\ t.slot = slot
  BY <1>1, <1>5 DEF Browser, SamePage, SameCalls
<1> HIDE DEF t
<1> QED
  BY <1>1, <1>3, <1>4, <1>5, <1>6 DEF SamePage, SameCalls, none

\* The bag of calls and the history.
WithCalls(s, f, m) == [s EXCEPT !.flight = f, !.mishaps = m]

LEMMA WithCallsIs ==
    ASSUME NEW s, NEW f, NEW m \in SUBSET Mishaps, Browser(s), Flight(f)
    PROVE  LET t == WithCalls(s, f, m)
           IN  /\ Browser(t) /\ SamePage(s, t) /\ SameItems(s, t) /\ t.slot = s.slot
               /\ t.flight = f /\ t.mishaps = m
<1> DEFINE u == [s EXCEPT !.flight = f]
           t == [u EXCEPT !.mishaps = m]
<1>1. /\ Browser(u) /\ SamePage(s, u) /\ SameItems(s, u) /\ u.slot = s.slot
      /\ u.flight = f
  BY DEF Browser, SamePage, SameItems
<1>2. WithCalls(s, f, m) = t
  BY DEF WithCalls
<1> HIDE DEF u
<1>3. /\ Browser(t) /\ SamePage(u, t) /\ SameItems(u, t) /\ t.slot = u.slot
      /\ t.flight = u.flight /\ t.mishaps = m
  BY <1>1 DEF Browser, SamePage, SameItems
<1> HIDE DEF t
<1> QED
  BY <1>1, <1>2, <1>3 DEF SamePage, SameItems

LEMMA AbandonedIs ==
    ASSUME NEW s, Browser(s)
    PROVE  /\ Abandoned(s) \subseteq Mishaps
           /\ \A c \in DOMAIN s.flight :
                 /\ c.key \in {"read", "list", "delete"} => c.key \in Abandoned(s)
                 /\ c.key \in Saves => "save" \in Abandoned(s)
           /\ \A k \in {"read", "list", "delete"} :
                 k \in Abandoned(s) => \E c \in DOMAIN s.flight : c.key = k
BY DEF Abandoned, InFlight, BagToSet, Saves, Mishaps

LEMMA SentIs ==
    ASSUME NEW k \in Keys \cup {"recent"}, NEW entity \in Entities, NEW id \in Choice
    PROVE  LET c == Sent(k, entity, id)
           IN  /\ c \in Call /\ c.key = k /\ c.entity = entity /\ c.id = id
               /\ c.rows = {} /\ c.stage = "sent"
BY DEF Sent, Call

\* The mishaps after a call was sent, and after a page was left.
SentMishaps(s, k) == s.mishaps \cup (Abandoned(s) \cap ({"list"} \cap {k}))
LeftMishaps(s) == s.mishaps \cup Abandoned(s)

LEMMA SendIs ==
    ASSUME NEW s, NEW k \in Keys, NEW entity \in Entities, NEW id \in Choice, Browser(s)
    PROVE  LET t == Send(s, k, entity, id)
           IN  /\ Browser(t) /\ SamePage(s, t) /\ SameItems(s, t) /\ SameSlots(s, t, k)
               /\ t.slot[k].result = s.slot[k].result /\ t.slot[k].current = s.slot[k].current
               /\ t.slot[k].isLoading /\ t.slot[k].isSuccess = s.slot[k].isSuccess
               /\ t.flight = Plus(s.flight, Sent(k, entity, id))
               /\ t.mishaps = SentMishaps(s, k)
<1> DEFINE u == RequestLoading(s, k)
           f == Plus(s.flight, Sent(k, entity, id))
           m == SentMishaps(s, k)
<1>1. /\ Browser(u) /\ SamePage(s, u) /\ SameItems(s, u) /\ SameCalls(s, u)
      /\ SameSlots(s, u, k)
      /\ u.slot[k].result = s.slot[k].result /\ u.slot[k].current = s.slot[k].current
      /\ u.slot[k].isLoading /\ u.slot[k].isSuccess = s.slot[k].isSuccess
  BY RequestLoadingIs
<1>2. Sent(k, entity, id) \in Call /\ Flight(s.flight) /\ s.mishaps \subseteq Mishaps
  BY SentIs DEF Browser
<1>3. Flight(f)
  BY <1>2, PlusIs
<1>4. m \in SUBSET Mishaps
  BY <1>2, AbandonedIs DEF SentMishaps
<1>5. u.flight = s.flight /\ u.mishaps = s.mishaps
  BY <1>1 DEF SameCalls
<1>6. Send(s, k, entity, id) = WithCalls(u, f, m)
  BY <1>5 DEF Send, WithCalls, Plus, SentMishaps
<1> HIDE DEF u, f, m
<1> DEFINE t == WithCalls(u, f, m)
<1>7. /\ Browser(t) /\ SamePage(u, t) /\ SameItems(u, t) /\ t.slot = u.slot
      /\ t.flight = f /\ t.mishaps = m
  BY <1>1, <1>3, <1>4, WithCallsIs
<1> HIDE DEF t
<1>8. SamePage(s, t) /\ SameItems(s, t) /\ SameSlots(s, t, k)
  BY <1>1, <1>7 DEF SamePage, SameItems, SameSlots
<1>9. Send(s, k, entity, id) = t
  BY <1>6 DEF t
<1> QED
  BY <1>1, <1>7, <1>8, <1>9 DEF f, m

LEMMA KeysAre ==
    /\ "list" \in Keys /\ "create" \in Keys /\ "update" \in Keys /\ "delete" \in Keys
    /\ "read" \in Keys /\ "recordPayment" \in Keys /\ Saves \subseteq Keys
BY DEF Keys, Saves

\* Only a list that is sent while another is in flight is a mishap.
LEMMA SendMishaps ==
    ASSUME NEW s, NEW k \in Keys, NEW entity \in Entities, NEW id \in Choice, Browser(s)
    PROVE  /\ k = "list" => Send(s, k, entity, id).mishaps = s.mishaps \cup (Abandoned(s) \cap {"list"})
           /\ k # "list" => Send(s, k, entity, id).mishaps = s.mishaps
<1>1. Send(s, k, entity, id).mishaps = SentMishaps(s, k)
  BY SendIs
<1> QED
  BY <1>1 DEF SentMishaps

LEMMA SendListMishaps ==
    ASSUME NEW s, NEW entity \in Entities, NEW id \in Choice, Browser(s)
    PROVE  Send(s, "list", entity, id).mishaps = s.mishaps \cup (Abandoned(s) \cap {"list"})
BY SendMishaps, KeysAre

LEMMA SendReadMishaps ==
    ASSUME NEW s, NEW entity \in Entities, NEW id \in Choice, Browser(s)
    PROVE  Send(s, "read", entity, id).mishaps = s.mishaps
BY SendMishaps, KeysAre

LEMMA SendFlight ==
    ASSUME NEW s, NEW k \in Keys, NEW entity \in Entities, NEW id \in Choice, Browser(s)
    PROVE  Send(s, k, entity, id).flight = Plus(s.flight, Sent(k, entity, id))
BY SendIs, Z3

PageAt(name, entity, id) == [name |-> name, entity |-> entity, id |-> id]
WithView(s, page, recent) ==
    [s EXCEPT !.page = page, !.modal = FALSE, !.asked = None, !.recent = recent]

LEMMA WithViewIs ==
    ASSUME NEW s, NEW page \in Page, NEW recent \in Recent, Browser(s)
    PROVE  LET t == WithView(s, page, recent)
           IN  /\ Browser(t) /\ SameItems(s, t) /\ SameCalls(s, t) /\ t.slot = s.slot
               /\ t.page = page /\ t.recent = recent /\ ~t.modal /\ t.asked = None
<1> DEFINE no == FALSE
           u == [s EXCEPT !.page = page]
           v == [u EXCEPT !.modal = no]
           w == [v EXCEPT !.asked = None]
           t == [w EXCEPT !.recent = recent]
<1>1. no \in BOOLEAN /\ None \in Choice
  BY DEF Choice
<1>2. ~no
  OBVIOUS
<1>3. WithView(s, page, recent) = t
  BY DEF WithView
<1> HIDE DEF no
<1>4. /\ Browser(u) /\ SameItems(s, u) /\ SameCalls(s, u) /\ u.slot = s.slot
      /\ u.page = page
  BY DEF Browser, SameItems, SameCalls
<1> HIDE DEF u
<1>5. /\ Browser(v) /\ SameItems(u, v) /\ SameCalls(u, v) /\ v.slot = u.slot
      /\ v.page = u.page /\ v.modal = no
  BY <1>1, <1>4 DEF Browser, SameItems, SameCalls
<1> HIDE DEF v
<1>6. /\ Browser(w) /\ SameItems(v, w) /\ SameCalls(v, w) /\ w.slot = v.slot
      /\ w.page = v.page /\ w.modal = v.modal /\ w.asked = None
  BY <1>1, <1>5 DEF Browser, SameItems, SameCalls
<1> HIDE DEF w
<1>7. /\ Browser(t) /\ SameItems(w, t) /\ SameCalls(w, t) /\ t.slot = w.slot
      /\ t.page = w.page /\ t.modal = w.modal /\ t.asked = w.asked /\ t.recent = recent
  BY <1>6 DEF Browser, SameItems, SameCalls
<1> HIDE DEF t
<1>8. SameItems(s, t) /\ SameCalls(s, t) /\ t.slot = s.slot
  BY <1>4, <1>5, <1>6, <1>7 DEF SameItems, SameCalls
<1> QED
  BY <1>2, <1>3, <1>4, <1>5, <1>6, <1>7, <1>8

LEMMA NoRecentIs == NoRecent \in Recent
BY DEF NoRecent, Recent

\* What is in flight was left behind.
Left(s) ==
    \A c \in DOMAIN s.flight :
        /\ c.key \in {"read", "list", "delete"} => c.key \in s.mishaps
        /\ c.key \in Saves => "save" \in s.mishaps

\* A page is left, and another one opens.
LEMMA AtIs ==
    ASSUME NEW s, NEW name, NEW entity \in Entities, NEW id \in Choice, Browser(s),
           PageAt(name, entity, id) \in Page
    PROVE  LET t == At(s, name, entity, id)
           IN  /\ Browser(t) /\ SameItems(s, t) /\ t.slot = s.slot
               /\ t.page.name = name /\ t.page.entity = entity /\ t.page.id = id
               /\ ~t.modal /\ t.asked = None
               /\ t.flight = Kept(s.flight) /\ t.mishaps = LeftMishaps(s)
               /\ RowsInv(s) => RowsInv(t)
               /\ Left(t)
<1> DEFINE page == PageAt(name, entity, id)
           u == WithView(s, page, NoRecent)
           f == Kept(s.flight)
           m == LeftMishaps(s)
           t == WithCalls(u, f, m)
<1>1. page.name = name /\ page.entity = entity /\ page.id = id
  BY DEF PageAt
<1>2. Flight(s.flight) /\ s.mishaps \subseteq Mishaps
  BY DEF Browser
<1>3. /\ Flight(f) /\ DOMAIN f = {c \in DOMAIN s.flight : c.key # "recent"}
  BY <1>2, KeptIs
<1>4. m \in SUBSET Mishaps
  BY <1>2, AbandonedIs DEF LeftMishaps
<1>5. At(s, name, entity, id) = t
  BY DEF At, WithCalls, WithView, Kept, PageAt, LeftMishaps
<1>6. page \in Page
  OBVIOUS
<1>n. \A c \in DOMAIN f :
         /\ c.key \in {"read", "list", "delete"} => c.key \in m
         /\ c.key \in Saves => "save" \in m
  BY <1>3, AbandonedIs DEF LeftMishaps
<1>o. s.mishaps \subseteq m
  BY DEF LeftMishaps
<1> HIDE DEF page
<1>7. /\ Browser(u) /\ SameItems(s, u) /\ u.slot = s.slot /\ u.page = page
      /\ ~u.modal /\ u.asked = None
  BY <1>6, NoRecentIs, WithViewIs
<1> HIDE DEF u, f, m
<1>8. /\ Browser(t) /\ SamePage(u, t) /\ SameItems(u, t) /\ t.slot = u.slot
      /\ t.flight = f /\ t.mishaps = m
  BY <1>3, <1>4, <1>7, WithCallsIs
<1> HIDE DEF t
<1>9. /\ SameItems(s, t) /\ t.slot = s.slot /\ t.page = page /\ ~t.modal /\ t.asked = None
  BY <1>7, <1>8 DEF SamePage, SameItems
<1>10. Left(t)
  BY <1>8, <1>n DEF Left
<1>11. RowsInv(s) => RowsInv(t)
  BY <1>3, <1>8, <1>o DEF RowsInv
<1> QED
  BY <1>1, <1>5, <1>8, <1>9, <1>10, <1>11 DEF f, m

\* An answer is taken, or a call replaced by its answer.
LEMMA TakenIs ==
    ASSUME NEW s, NEW c \in DOMAIN s.flight, Browser(s)
    PROVE  LET t == [s EXCEPT !.flight = @ (-) SetToBag({c})]
           IN  /\ Browser(t) /\ SamePage(s, t) /\ SameItems(s, t) /\ t.slot = s.slot
               /\ t.flight = Minus(s.flight, c) /\ t.mishaps = s.mishaps
<1> DEFINE f == Minus(s.flight, c)
           m == s.mishaps
<1>1. Flight(f) /\ m \in SUBSET Mishaps
  BY MinusIs DEF Browser
<1>2. [s EXCEPT !.flight = @ (-) SetToBag({c})] = WithCalls(s, f, m)
  BY DEF WithCalls, Minus, Browser
<1> HIDE DEF f, m
<1>3. LET t == WithCalls(s, f, m)
      IN  /\ Browser(t) /\ SamePage(s, t) /\ SameItems(s, t) /\ t.slot = s.slot
          /\ t.flight = f /\ t.mishaps = m
  BY <1>1, WithCallsIs
<1> QED
  BY <1>2, <1>3 DEF f, m

LEMMA FetchIs ==
    ASSUME NEW s, Browser(s)
    PROVE  LET t == Fetch(s)
           IN  /\ Browser(t) /\ SamePage(s, t) /\ SameItems(s, t) /\ t.slot = s.slot
               /\ t.flight = Plus(s.flight, Sent("recent", "invoice", None))
               /\ t.mishaps = s.mishaps
<1> DEFINE f == Plus(s.flight, Sent("recent", "invoice", None))
           m == s.mishaps
<1>1. Sent("recent", "invoice", None) \in Call
  BY SentIs DEF Entities, Choice
<1>2. Flight(f) /\ m \in SUBSET Mishaps
  BY <1>1, PlusIs DEF Browser
<1>3. Fetch(s) = WithCalls(s, f, m)
  BY DEF Fetch, WithCalls, Plus, Browser
<1> HIDE DEF f, m
<1>4. LET t == WithCalls(s, f, m)
      IN  /\ Browser(t) /\ SamePage(s, t) /\ SameItems(s, t) /\ t.slot = s.slot
          /\ t.flight = f /\ t.mishaps = m
  BY <1>2, WithCallsIs
<1> QED
  BY <1>3, <1>4 DEF f, m

-----------------------------------------------------------------------------
(***************************************************************************)
(* The calls in flight, after each step.                                   *)
(***************************************************************************)

LEMMA LeftIsFlight ==
    ASSUME NEW s, RowsInv(s), Left(s)
    PROVE  FlightInv(s)
BY DEF FlightInv, ListInv, ReadInv, DeletionInv, SaveInv, Left, Sole, Saves

\* Nothing that the calls depend on has changed.
SameFlags(s, t) ==
    \A k \in Keys : /\ t.slot[k].isLoading = s.slot[k].isLoading
                    /\ t.slot[k].isSuccess = s.slot[k].isSuccess

LEMMA FlightSame ==
    ASSUME NEW s, NEW t, FlightInv(s), t.page = s.page, t.flight = s.flight,
           s.mishaps \subseteq t.mishaps, SameFlags(s, t)
    PROVE  FlightInv(t)
<1>1. RowsInv(t)
  BY DEF FlightInv, RowsInv
<1>2. ListInv(t) /\ ReadInv(t)
  BY DEF FlightInv, ListInv, ReadInv
<1>3. DeletionInv(t)
  BY KeysAre DEF FlightInv, DeletionInv, SameFlags
<1>4. SaveInv(t)
  BY KeysAre DEF FlightInv, SaveInv, SameFlags
<1> QED
  BY <1>1, <1>2, <1>3, <1>4 DEF FlightInv

\* A call was sent that had not been answered.
LEMMA SentRows ==
    ASSUME NEW s, NEW t, NEW c \in Call, Flight(s.flight), RowsInv(s),
           t.flight = Plus(s.flight, c), s.mishaps \subseteq t.mishaps,
           c.rows = {}, c.stage = "sent"
    PROVE  RowsInv(t)
<1>1. DOMAIN t.flight = DOMAIN s.flight \cup {c}
  BY DomainPlus
<1>2. c.rows \subseteq Of(c.entity)
  OBVIOUS
<1> QED
  BY <1>1, <1>2 DEF RowsInv

\* The table of a page is asked for.
LEMMA SendListFlight ==
    ASSUME NEW s, NEW id \in Choice, NEW entity \in Entities, Browser(s), FlightInv(s),
           entity = s.page.entity
    PROVE  LET t == Send(s, "list", entity, id)
           IN  /\ FlightInv(t)
               /\ "list" \notin t.mishaps =>
                     \A c \in DOMAIN t.flight : c.key = "list" => c.stage = "sent"
               /\ Sent("list", entity, id) \in DOMAIN t.flight
               /\ s.mishaps \subseteq t.mishaps
<1> DEFINE c == Sent("list", entity, id)
           t == Send(s, "list", entity, id)
<1>1. /\ c \in Call /\ c.key = "list" /\ c.entity = entity /\ c.id = id
      /\ c.rows = {} /\ c.stage = "sent"
  BY SentIs, KeysAre
<1>2. Flight(s.flight)
  BY DEF Browser
<1>60. "list" \in Keys
  BY KeysAre
<1>61. t.flight = Plus(s.flight, c)
  BY <1>60, SendFlight
<1>62. SamePage(s, t) /\ SameSlots(s, t, "list")
  BY <1>60, SendIs
<1>3. SamePage(s, t) /\ SameSlots(s, t, "list") /\ t.flight = Plus(s.flight, c)
  BY <1>61, <1>62
<1>50. t.mishaps = s.mishaps \cup (Abandoned(s) \cap {"list"})
  BY SendListMishaps
<1> HIDE DEF c, t
<1>4. DOMAIN t.flight = DOMAIN s.flight \cup {c}
  BY <1>1, <1>2, <1>3, DomainPlus
<1>5. s.mishaps \subseteq t.mishaps
  BY <1>50
<1>6. RowsInv(t)
  BY <1>1, <1>2, <1>3, <1>5, SentRows DEF FlightInv
<1>7. "list" \notin t.mishaps => \A d \in DOMAIN s.flight : d.key # "list"
  BY <1>50, AbandonedIs
<1>8. ListInv(t)
  <2> SUFFICES ASSUME "list" \notin t.mishaps
               PROVE  /\ Sole(t.flight, {"list"})
                      /\ \A d \in DOMAIN t.flight : d.key = "list" => d.entity = t.page.entity
    BY DEF ListInv
  <2>1. \A d \in DOMAIN s.flight : d.key \notin {"list"}
    BY <1>7
  <2>2. Sole(s.flight, {"list"})
    BY <2>1 DEF Sole
  <2>3. Sole(t.flight, {"list"})
    BY <1>1, <1>2, <1>3, <2>1, <2>2, SolePlus
  <2> QED
    BY <1>1, <1>3, <1>4, <2>1, <2>3 DEF SamePage
<1>9. ReadInv(t)
  BY <1>1, <1>3, <1>4, <1>5 DEF FlightInv, ReadInv, SamePage
<1>10. DeletionInv(t)
  <2> SUFFICES ASSUME "delete" \notin t.mishaps PROVE DeletionInv(t)
    BY DEF DeletionInv
  <2>1. Sole(s.flight, {"delete"})
    BY <1>5 DEF FlightInv, DeletionInv
  <2>2. Sole(t.flight, {"delete"})
    BY <1>1, <1>2, <1>3, <2>1, SolePlus
  <2>3. t.slot["delete"] = s.slot["delete"] /\ t.page = s.page
    BY <1>3, KeysAre DEF SameSlots, SamePage
  <2> QED
    BY <1>1, <1>4, <1>5, <2>2, <2>3 DEF FlightInv, DeletionInv
<1>11. SaveInv(t)
  <2> SUFFICES ASSUME "save" \notin t.mishaps PROVE SaveInv(t)
    BY DEF SaveInv
  <2>1. Sole(s.flight, Saves)
    BY <1>5 DEF FlightInv, SaveInv
  <2>2. c.key \notin Saves
    BY <1>1 DEF Saves
  <2>3. Sole(t.flight, Saves)
    BY <1>1, <1>2, <1>3, <2>1, <2>2, SolePlus
  <2>4. t.page = s.page /\ \A k \in Saves : t.slot[k] = s.slot[k]
    BY <1>3, KeysAre DEF SameSlots, SamePage, Saves
  <2> QED
    BY <1>4, <1>5, <2>2, <2>3, <2>4 DEF FlightInv, SaveInv
<1>12. FlightInv(t)
  BY <1>6, <1>8, <1>9, <1>10, <1>11 DEF FlightInv
<1> QED
  BY <1>1, <1>4, <1>5, <1>7, <1>12 DEF t, c

\* The document of a page is read.
LEMMA SendReadFlight ==
    ASSUME NEW s, NEW id \in Choice, NEW entity \in Entities, Browser(s), FlightInv(s),
           id = s.page.id
    PROVE  LET t == Send(s, "read", entity, id)
           IN  /\ FlightInv(t)
               /\ t.mishaps = s.mishaps
<1> DEFINE c == Sent("read", entity, id)
           t == Send(s, "read", entity, id)
<1>1. /\ c \in Call /\ c.key = "read" /\ c.entity = entity /\ c.id = id
      /\ c.rows = {} /\ c.stage = "sent"
  BY SentIs, KeysAre
<1>2. Flight(s.flight)
  BY DEF Browser
<1>60. "read" \in Keys
  BY KeysAre
<1>61. t.flight = Plus(s.flight, c)
  BY <1>60, SendFlight
<1>62. SamePage(s, t) /\ SameSlots(s, t, "read")
  BY <1>60, SendIs
<1>3. SamePage(s, t) /\ SameSlots(s, t, "read") /\ t.flight = Plus(s.flight, c)
  BY <1>61, <1>62
<1>50. t.mishaps = s.mishaps
  BY SendReadMishaps
<1> HIDE DEF c, t
<1>4. DOMAIN t.flight = DOMAIN s.flight \cup {c}
  BY <1>1, <1>2, <1>3, DomainPlus
<1>5. t.mishaps = s.mishaps
  BY <1>50
<1>6. RowsInv(t)
  BY <1>1, <1>2, <1>3, <1>5, SentRows DEF FlightInv
<1>7. t.page = s.page /\ \A k \in Keys : k # "read" => t.slot[k] = s.slot[k]
  BY <1>3 DEF SameSlots, SamePage
<1>8. ListInv(t)
  <2> SUFFICES ASSUME "list" \notin t.mishaps PROVE ListInv(t)
    BY DEF ListInv
  <2>1. Sole(s.flight, {"list"})
    BY <1>5 DEF FlightInv, ListInv
  <2>2. Sole(t.flight, {"list"})
    BY <1>1, <1>2, <1>3, <2>1, SolePlus
  <2> QED
    BY <1>1, <1>4, <1>5, <1>7, <2>2 DEF FlightInv, ListInv
<1>9. ReadInv(t)
  BY <1>1, <1>4, <1>5, <1>7 DEF FlightInv, ReadInv
<1>10. DeletionInv(t)
  <2> SUFFICES ASSUME "delete" \notin t.mishaps PROVE DeletionInv(t)
    BY DEF DeletionInv
  <2>1. Sole(s.flight, {"delete"})
    BY <1>5 DEF FlightInv, DeletionInv
  <2>2. Sole(t.flight, {"delete"})
    BY <1>1, <1>2, <1>3, <2>1, SolePlus
  <2> QED
    BY <1>1, <1>4, <1>5, <1>7, <2>2, KeysAre DEF FlightInv, DeletionInv
<1>11. SaveInv(t)
  <2> SUFFICES ASSUME "save" \notin t.mishaps PROVE SaveInv(t)
    BY DEF SaveInv
  <2>1. Sole(s.flight, Saves)
    BY <1>5 DEF FlightInv, SaveInv
  <2>2. c.key \notin Saves
    BY <1>1 DEF Saves
  <2>3. Sole(t.flight, Saves)
    BY <1>1, <1>2, <1>3, <2>1, <2>2, SolePlus
  <2>4. \A k \in Saves : t.slot[k] = s.slot[k]
    BY <1>7, KeysAre DEF Saves
  <2> QED
    BY <1>4, <1>5, <1>7, <2>2, <2>3, <2>4 DEF FlightInv, SaveInv
<1>12. FlightInv(t)
  BY <1>6, <1>8, <1>9, <1>10, <1>11 DEF FlightInv
<1> QED
  BY <1>5, <1>12 DEF t, c

\* The calls of the dashboard are of no consequence.
LEMMA FetchFlight ==
    ASSUME NEW s, Browser(s), FlightInv(s)
    PROVE  FlightInv(Fetch(s))
<1> DEFINE c == Sent("recent", "invoice", None)
           t == Fetch(s)
<1>1. /\ c \in Call /\ c.key = "recent" /\ c.rows = {} /\ c.stage = "sent"
  BY SentIs DEF Entities, Choice
<1>2. Flight(s.flight)
  BY DEF Browser
<1>3. /\ SamePage(s, t) /\ t.slot = s.slot /\ t.flight = Plus(s.flight, c)
      /\ t.mishaps = s.mishaps
  BY FetchIs
<1> HIDE DEF c, t
<1>4. DOMAIN t.flight = DOMAIN s.flight \cup {c}
  BY <1>1, <1>2, <1>3, DomainPlus
<1>5. t.page = s.page
  BY <1>3 DEF SamePage
<1>6. RowsInv(t)
  BY <1>1, <1>2, <1>3, SentRows DEF FlightInv
<1>7. \A keys : Sole(s.flight, keys) /\ "recent" \notin keys => Sole(t.flight, keys)
  BY <1>1, <1>2, <1>3, SolePlus
<1>8. "recent" \notin Saves /\ c.key \notin Saves
  BY <1>1 DEF Saves
<1>9. ListInv(t) /\ ReadInv(t) /\ DeletionInv(t) /\ SaveInv(t)
  BY <1>1, <1>3, <1>4, <1>5, <1>7, <1>8
     DEF FlightInv, ListInv, ReadInv, DeletionInv, SaveInv
<1> QED
  BY <1>6, <1>9 DEF FlightInv, t

LEMMA LeftMishapsAre ==
    ASSUME NEW s, Browser(s)
    PROVE  /\ s.mishaps \subseteq LeftMishaps(s)
           /\ \A c \in DOMAIN s.flight : c.key = "read" => "read" \in LeftMishaps(s)
BY AbandonedIs DEF LeftMishaps

\* The list is asked for by a page that is about to be left.
LEMMA SendRows ==
    ASSUME NEW s, NEW k \in Keys, NEW entity \in Entities, NEW id \in Choice, Browser(s),
           RowsInv(s)
    PROVE  RowsInv(Send(s, k, entity, id))
<1> DEFINE c == Sent(k, entity, id)
           t == Send(s, k, entity, id)
<1>1. c \in Call /\ c.rows = {} /\ c.stage = "sent"
  BY SentIs
<1>2. Flight(s.flight)
  BY DEF Browser
<1>3. t.flight = Plus(s.flight, c) /\ t.mishaps = SentMishaps(s, k)
  BY SendIs
<1>4. s.mishaps \subseteq SentMishaps(s, k)
  BY DEF SentMishaps
<1> HIDE DEF c, t
<1>5. RowsInv(t)
  BY <1>1, <1>2, <1>3, <1>4, SentRows
<1> QED
  BY <1>5 DEF t

-----------------------------------------------------------------------------
(***************************************************************************)
(* Pages that open, from a browser of which little is known: the page that *)
(* is left may be in the middle of its effects.                            *)
(***************************************************************************)

Good(s) == Browser(s) /\ FlightInv(s) /\ PageInv(s)

\* What a browser must satisfy that opens a page.
Able(s) == Browser(s) /\ RowsInv(s) /\ CreatedInv(s) /\ UpdatedInv(s)

\* A page without a form, a table or a payment.
LEMMA PlainPage ==
    ASSUME NEW t, Browser(t), FlightInv(t), ~t.modal,
           t.page.name \notin {"pay", "update", "list"},
           ShownInv(t), CreatedInv(t), UpdatedInv(t)
    PROVE  Good(t)
BY DEF Good, PageInv, PayInv, ModalInv, FormInv, ListedInv, FormOpen

\* The flags of the saves are those of the browser before.
LEMMA SaveFlagsKept ==
    ASSUME NEW s, NEW t, s.mishaps \subseteq t.mishaps, CreatedInv(s), UpdatedInv(s),
           t.slot["create"].isSuccess = s.slot["create"].isSuccess,
           t.slot["update"].isSuccess = s.slot["update"].isSuccess
    PROVE  CreatedInv(t) /\ UpdatedInv(t)
BY DEF CreatedInv, UpdatedInv

LEMMA OpenReadInvoiceGood ==
    ASSUME NEW s, NEW id \in Choice, Able(s)
    PROVE  LET t == OpenReadInvoice(s, id)
           IN  Good(t) /\ t.page.name = "read"
<1> DEFINE u == At(s, "read", "invoice", id)
           t == Send(u, "read", "invoice", id)
<1>1. /\ "read" \in Keys /\ "invoice" \in Entities /\ PageAt("read", "invoice", id) \in Page
  BY DEF Keys, Entities, PageAt, Page
<1>2. /\ Browser(u) /\ u.slot = s.slot /\ u.page.name = "read" /\ u.page.entity = "invoice"
      /\ u.page.id = id /\ ~u.modal /\ u.mishaps = LeftMishaps(s) /\ RowsInv(u) /\ Left(u)
  BY <1>1, AtIs DEF Able
<1>3. FlightInv(u)
  BY <1>2, LeftIsFlight
<1>4. s.mishaps \subseteq u.mishaps
  BY <1>2, LeftMishapsAre DEF Able
<1> HIDE DEF u
<1>5. /\ Browser(t) /\ SamePage(u, t) /\ SameSlots(u, t, "read") /\ t.slot["read"].isLoading
  BY <1>1, <1>2, SendIs
<1>6. FlightInv(t) /\ t.mishaps = u.mishaps
  BY <1>1, <1>2, <1>3, SendReadFlight
<1> HIDE DEF t
<1>7. t.slot["create"] = s.slot["create"] /\ t.slot["update"] = s.slot["update"]
  BY <1>2, <1>5, KeysAre DEF SameSlots
<1>8. CreatedInv(t) /\ UpdatedInv(t)
  BY <1>4, <1>6, <1>7, SaveFlagsKept DEF Able
<1>9. ShownInv(t)
  BY <1>2, <1>5 DEF ShownInv, PageOpen, InvoiceOpen, PaymentOpen, PayOpen, ReadDone, SamePage
<1>10. Good(t) /\ t.page.name = "read"
  BY <1>2, <1>5, <1>6, <1>8, <1>9, PlainPage DEF SamePage
<1> QED
  BY <1>10 DEF OpenReadInvoice, t, u

\* A page takes its document from the table or reads it.
LEMMA TakeRowIs ==
    ASSUME NEW s, NEW entity \in Entities, NEW id \in Choice, Browser(s)
    PROVE  LET t == TakeRow(s, entity, id)
           IN  /\ Browser(t) /\ SamePage(s, t) /\ t.rows = s.rows /\ SameSlots(s, t, "read")
               /\ t.slot["read"].result = s.slot["read"].result
               /\ t.slot["read"].current = s.slot["read"].current
               /\ t.slot["read"].isSuccess = s.slot["read"].isSuccess
               /\ t.slot["read"].isLoading \/ t.slot["read"].isLoading = s.slot["read"].isLoading
               /\ t.current = id \/ t.current = s.current
               /\ id \in s.rows => t.current = id
               /\ t.mishaps = s.mishaps
               /\ FlightInv(s) /\ id = s.page.id => FlightInv(t)
<1>1. CASE id \in s.rows
  <2> DEFINE t == CurrentItem(s, id)
  <2>1. /\ Browser(t) /\ SamePage(s, t) /\ SameCalls(s, t) /\ t.slot = s.slot
        /\ t.rows = s.rows /\ t.current = id
    BY CurrentItemIs
  <2>2. TakeRow(s, entity, id) = t
    BY <1>1 DEF TakeRow
  <2> HIDE DEF t
  <2>3. FlightInv(s) => FlightInv(t)
    BY <2>1, FlightSame DEF SamePage, SameCalls, SameFlags
  <2> QED
    BY <2>1, <2>2, <2>3 DEF SameSlots, SameCalls
<1>2. CASE id \notin s.rows
  <2> DEFINE t == Send(s, "read", entity, id)
  <2>1. /\ Browser(t) /\ SamePage(s, t) /\ SameItems(s, t) /\ SameSlots(s, t, "read")
        /\ t.slot["read"].result = s.slot["read"].result
        /\ t.slot["read"].current = s.slot["read"].current
        /\ t.slot["read"].isLoading /\ t.slot["read"].isSuccess = s.slot["read"].isSuccess
    BY SendIs, KeysAre
  <2>2. t.mishaps = s.mishaps
    BY SendReadMishaps
  <2>3. FlightInv(s) /\ id = s.page.id => FlightInv(t)
    BY SendReadFlight
  <2>4. TakeRow(s, entity, id) = t
    BY <1>2 DEF TakeRow
  <2> HIDE DEF t
  <2> QED
    BY <1>2, <2>1, <2>2, <2>3, <2>4 DEF SameItems
<1> QED
  BY <1>1, <1>2

LEMMA OpenReadPaymentGood ==
    ASSUME NEW s, NEW id \in Choice, Able(s), s.current = id
    PROVE  LET t == OpenReadPayment(s, id)
           IN  Good(t) /\ t.page.name = "read"
<1> DEFINE u == At(s, "read", "payment", id)
           t == TakeRow(u, "payment", id)
<1>1. "payment" \in Entities /\ PageAt("read", "payment", id) \in Page
  BY DEF Entities, PageAt, Page
<1>2. /\ Browser(u) /\ SameItems(s, u) /\ u.slot = s.slot
      /\ u.page.name = "read" /\ u.page.entity = "payment"
      /\ u.page.id = id /\ ~u.modal /\ u.mishaps = LeftMishaps(s) /\ RowsInv(u) /\ Left(u)
  BY <1>1, AtIs DEF Able
<1>3. FlightInv(u)
  BY <1>2, LeftIsFlight
<1>4. s.mishaps \subseteq u.mishaps
  BY <1>2, LeftMishapsAre DEF Able
<1> HIDE DEF u
<1>5. /\ Browser(t) /\ SamePage(u, t) /\ SameSlots(u, t, "read")
      /\ t.current = id \/ t.current = u.current
      /\ t.mishaps = u.mishaps
      /\ FlightInv(t)
  BY <1>1, <1>2, <1>3, TakeRowIs
<1> HIDE DEF t
<1>6. t.slot["create"] = s.slot["create"] /\ t.slot["update"] = s.slot["update"]
  BY <1>2, <1>5, KeysAre DEF SameSlots
<1>7. CreatedInv(t) /\ UpdatedInv(t)
  BY <1>4, <1>5, <1>6, SaveFlagsKept DEF Able
<1>8. ShownInv(t)
  BY <1>2, <1>5 DEF ShownInv, SamePage, SameItems
<1>9. Good(t) /\ t.page.name = "read"
  BY <1>2, <1>5, <1>7, <1>8, PlainPage DEF SamePage
<1> QED
  BY <1>9 DEF OpenReadPayment, t, u

LEMMA OpenReadGood ==
    ASSUME NEW s, NEW entity, NEW id \in Choice, Able(s), s.current = id
    PROVE  LET t == OpenRead(s, entity, id)
           IN  Good(t) /\ t.page.name = "read"
BY OpenReadInvoiceGood, OpenReadPaymentGood DEF OpenRead

LEMMA OpenDashboardGood ==
    ASSUME NEW s, Able(s)
    PROVE  LET t == OpenDashboard(s)
           IN  Good(t) /\ t.page.name = "dashboard"
<1> DEFINE u == At(s, "dashboard", "invoice", None)
           t == Fetch(u)
<1>1. /\ "invoice" \in Entities /\ None \in Choice
      /\ PageAt("dashboard", "invoice", None) \in Page
  BY DEF Entities, PageAt, Page, Choice
<1>2. /\ Browser(u) /\ u.slot = s.slot /\ u.page.name = "dashboard"
      /\ ~u.modal /\ u.mishaps = LeftMishaps(s) /\ RowsInv(u) /\ Left(u)
  BY <1>1, AtIs DEF Able
<1>3. FlightInv(u)
  BY <1>2, LeftIsFlight
<1>4. s.mishaps \subseteq u.mishaps
  BY <1>2, LeftMishapsAre DEF Able
<1> HIDE DEF u
<1>5. /\ Browser(t) /\ SamePage(u, t) /\ t.slot = u.slot /\ t.mishaps = u.mishaps
      /\ FlightInv(t)
  BY <1>2, <1>3, FetchIs, FetchFlight
<1> HIDE DEF t
<1>6. CreatedInv(t) /\ UpdatedInv(t)
  BY <1>2, <1>4, <1>5, SaveFlagsKept DEF Able
<1>7. t.page.name = "dashboard" /\ ~t.modal
  BY <1>2, <1>5 DEF SamePage
<1>8. ShownInv(t)
  BY <1>7 DEF ShownInv, PageOpen, InvoiceOpen, PaymentOpen, PayOpen
<1>9. Good(t) /\ t.page.name = "dashboard"
  BY <1>5, <1>6, <1>7, <1>8, PlainPage
<1> QED
  BY <1>9 DEF OpenDashboard, t, u

\* A list that was just asked for has no rows yet.
LEMMA TableAsked ==
    ASSUME NEW t, NEW c, NEW live, c \in DOMAIN t.flight, c.key = "list",
           "list" \notin t.mishaps =>
              \A d \in DOMAIN t.flight : d.key = "list" => d.stage = "sent"
    PROVE  TableInv(t, live)
BY DEF TableInv

LEMMA OpenListGood ==
    ASSUME NEW s, NEW entity \in Entities, NEW live, Browser(s), RowsInv(s)
    PROVE  LET t == OpenList(s, entity)
           IN  Good(t) /\ TableInv(t, live) /\ t.page.name = "list"
<1> DEFINE u == At(s, "list", entity, None)
           r == ResetState(u)
           once == Send(r, "list", entity, None)
           twice == Send(once, "list", entity, None)
           c == Sent("list", entity, None)
<1>1. /\ None \in Choice /\ PageAt("list", entity, None) \in Page
  BY DEF Entities, PageAt, Page, Choice
<1>2. /\ Browser(u) /\ u.slot = s.slot /\ u.page.name = "list" /\ u.page.entity = entity
      /\ ~u.modal /\ RowsInv(u) /\ Left(u)
  BY <1>1, AtIs
<1> HIDE DEF u
<1>3. /\ Browser(r) /\ SamePage(u, r) /\ SameCalls(u, r)
      /\ r.rows = {} /\ \A k \in Keys : r.slot[k] = InitialSlot
  BY <1>2, ResetStateIs
<1> HIDE DEF r
<1>4. RowsInv(r) /\ Left(r)
  BY <1>2, <1>3 DEF RowsInv, Left, SameCalls
<1>5. FlightInv(r)
  BY <1>4, LeftIsFlight
<1>6. r.page.name = "list" /\ r.page.entity = entity /\ ~r.modal
  BY <1>2, <1>3 DEF SamePage
<1>7. c.key = "list"
  BY DEF Sent
<1> HIDE DEF c
<1> DEFINE Fits(t) == /\ Browser(t) /\ FlightInv(t) /\ t.page = r.page /\ t.modal = r.modal
                      /\ t.rows = {}
                      /\ \A k \in Keys : ~t.slot[k].isSuccess
                      /\ c \in DOMAIN t.flight
                      /\ "list" \notin t.mishaps =>
                            \A d \in DOMAIN t.flight : d.key = "list" => d.stage = "sent"
<1>8. Fits(once)
  <2>1. /\ Browser(once) /\ SamePage(r, once) /\ SameItems(r, once)
        /\ SameSlots(r, once, "list")
        /\ once.slot["list"].isSuccess = r.slot["list"].isSuccess
    BY <1>1, <1>3, SendIs, KeysAre
  <2>2. /\ FlightInv(once)
        /\ c \in DOMAIN once.flight
        /\ "list" \notin once.mishaps =>
              \A d \in DOMAIN once.flight : d.key = "list" => d.stage = "sent"
    BY <1>1, <1>3, <1>5, <1>6, SendListFlight DEF c
  <2> HIDE DEF once
  <2>3. \A k \in Keys : ~once.slot[k].isSuccess
    BY <1>3, <2>1, InitialSlotIs DEF SameSlots
  <2> QED
    BY <1>3, <2>1, <2>2, <2>3 DEF SamePage, SameItems
<1>9. Fits(twice)
  <2> HIDE DEF once
  <2>1. /\ Browser(twice) /\ SamePage(once, twice) /\ SameItems(once, twice)
        /\ SameSlots(once, twice, "list")
        /\ twice.slot["list"].isSuccess = once.slot["list"].isSuccess
    BY <1>1, <1>8, SendIs, KeysAre
  <2>2. /\ FlightInv(twice)
        /\ c \in DOMAIN twice.flight
        /\ "list" \notin twice.mishaps =>
              \A d \in DOMAIN twice.flight : d.key = "list" => d.stage = "sent"
    BY <1>1, <1>6, <1>8, SendListFlight DEF c
  <2> HIDE DEF twice
  <2>3. \A k \in Keys : ~twice.slot[k].isSuccess
    BY <1>8, <2>1 DEF SameSlots
  <2> QED
    BY <1>8, <2>1, <2>2, <2>3 DEF SamePage, SameItems
<1>10. OpenList(s, entity) = once \/ OpenList(s, entity) = twice
  BY DEF OpenList, once, twice, r, u
<1> HIDE DEF once, twice
<1>11. ASSUME NEW t, Fits(t) PROVE Good(t) /\ TableInv(t, live) /\ t.page.name = "list"
  <2>1. t.page.name = "list" /\ ~t.modal
    BY <1>6, <1>11
  <2>2. PayInv(t) /\ ModalInv(t) /\ FormInv(t) /\ ShownInv(t)
    BY <2>1 DEF PayInv, ModalInv, FormInv, FormOpen, ShownInv, PageOpen, InvoiceOpen,
                PaymentOpen, PayOpen
  <2>3. ListedInv(t) /\ CreatedInv(t) /\ UpdatedInv(t)
    BY <1>11, KeysAre DEF ListedInv, CreatedInv, UpdatedInv
  <2>4. TableInv(t, live)
    BY <1>7, <1>11, TableAsked
  <2> QED
    BY <1>11, <2>1, <2>2, <2>3, <2>4 DEF Good, PageInv
<1> HIDE DEF Fits
<1> QED
  BY <1>8, <1>9, <1>10, <1>11

LEMMA TableElsewhere ==
    ASSUME NEW t, NEW live, t.page.name # "list"
    PROVE  TableInv(t, live)
BY DEF TableInv

\* A mishap is noted.
LEMMA NotedIs ==
    ASSUME NEW s, NEW m \in SUBSET Mishaps, Browser(s)
    PROVE  LET t == [s EXCEPT !.mishaps = @ \cup m]
           IN  /\ Browser(t) /\ SamePage(s, t) /\ SameItems(s, t) /\ t.slot = s.slot
               /\ t.flight = s.flight /\ s.mishaps \subseteq t.mishaps /\ m \subseteq t.mishaps
               /\ \A x \in t.mishaps : x \in s.mishaps \/ x \in m
<1> DEFINE f == s.flight
           n == s.mishaps \cup m
           t == WithCalls(s, f, n)
<1>1. Flight(f) /\ n \in SUBSET Mishaps
  BY DEF Browser
<1>2. /\ s.mishaps \subseteq n /\ m \subseteq n
      /\ \A x \in n : x \in s.mishaps \/ x \in m
  OBVIOUS
<1>3. [s EXCEPT !.mishaps = @ \cup m] = t
  BY DEF WithCalls, Browser
<1> HIDE DEF f, n
<1>4. /\ Browser(t) /\ SamePage(s, t) /\ SameItems(s, t) /\ t.slot = s.slot
      /\ t.flight = f /\ t.mishaps = n
  BY <1>1, WithCallsIs
<1> HIDE DEF t
<1> QED
  BY <1>2, <1>3, <1>4 DEF f

LEMMA SavedGood ==
    ASSUME NEW s, Browser(s), RowsInv(s), CreatedInv(s)
    PROVE  LET t == Saved(s)
           IN  Good(t) /\ t.page.name = "read"
<1> DEFINE u == ResetAction(s, "update")
<1>1. /\ Browser(u) /\ SameCalls(s, u) /\ SameSlots(s, u, "update")
      /\ u.slot["update"] = InitialSlot
  BY ResetActionIs, KeysAre
<1> HIDE DEF u
<1>2. RowsInv(u)
  BY <1>1 DEF SameCalls, RowsInv
<1>3. CreatedInv(u) /\ UpdatedInv(u)
  BY <1>1, InitialSlotIs, KeysAre DEF SameCalls, SameSlots, CreatedInv, UpdatedInv
<1>4. s.page.id \in Choice
  BY DEF Browser, Page
<1> QED
  BY <1>1, <1>2, <1>3, <1>4, OpenReadInvoiceGood DEF Able, Saved, u

\* Another document than that of the path may be the current item.
Excused(s) ==
    \/ "read" \in s.mishaps \/ "save" \in s.mishaps
    \/ \E c \in DOMAIN s.flight : c.key = "read"

LEMMA SavedPaymentGood ==
    ASSUME NEW s, NEW d \in Choice, Browser(s), RowsInv(s), CreatedInv(s),
           s.current = d \/ Excused(s)
    PROVE  LET t == SavedPayment(s, d)
           IN  Good(t) /\ t.page.name = "read" /\ "payment" \in t.mishaps
<1> DEFINE r == ResetAction(s, "recordPayment")
           u == At(r, "read", "payment", d)
           v == Send(u, "list", "payment", None)
           m == {"payment"}
           w == [v EXCEPT !.mishaps = @ \cup m]
           t == TakeRow(w, "payment", d)
<1>1. /\ "payment" \in Entities /\ None \in Choice /\ PageAt("read", "payment", d) \in Page
      /\ m \in SUBSET Mishaps /\ "payment" \in m
  BY DEF Entities, PageAt, Page, Choice, Mishaps
<1>2. /\ Browser(r) /\ SameItems(s, r) /\ SameCalls(s, r) /\ SameSlots(s, r, "recordPayment")
  BY ResetActionIs, KeysAre
<1> HIDE DEF r
<1>3. RowsInv(r)
  BY <1>2 DEF SameCalls, RowsInv
<1>4. /\ Browser(u) /\ SameItems(r, u) /\ u.slot = r.slot
      /\ u.page.name = "read" /\ u.page.entity = "payment"
      /\ u.page.id = d /\ ~u.modal /\ u.mishaps = LeftMishaps(r) /\ RowsInv(u) /\ Left(u)
  BY <1>1, <1>2, <1>3, AtIs
<1>5. FlightInv(u)
  BY <1>4, LeftIsFlight
<1>6. /\ s.mishaps \subseteq u.mishaps
      /\ Excused(s) => "read" \in u.mishaps \/ "save" \in u.mishaps
  BY <1>2, <1>4, LeftMishapsAre DEF SameCalls, Excused
<1> HIDE DEF u, m
<1>7. /\ Browser(v) /\ SamePage(u, v) /\ SameItems(u, v) /\ SameSlots(u, v, "list")
  BY <1>1, <1>4, SendIs, KeysAre
<1>8. FlightInv(v) /\ u.mishaps \subseteq v.mishaps
  BY <1>1, <1>4, <1>5, SendListFlight
<1> HIDE DEF v
<1>9. /\ Browser(w) /\ SamePage(v, w) /\ SameItems(v, w) /\ w.slot = v.slot
      /\ w.flight = v.flight /\ v.mishaps \subseteq w.mishaps /\ m \subseteq w.mishaps
  BY <1>1, <1>7, NotedIs
<1> HIDE DEF w
<1>10. FlightInv(w)
  BY <1>8, <1>9, FlightSame DEF SamePage, SameFlags
<1>11. d = w.page.id /\ w.page.name = "read" /\ ~w.modal /\ w.current = s.current
  BY <1>2, <1>4, <1>7, <1>9 DEF SamePage, SameItems
<1>12. /\ Browser(t) /\ SamePage(w, t) /\ SameSlots(w, t, "read")
       /\ t.current = d \/ t.current = w.current
       /\ t.mishaps = w.mishaps
       /\ FlightInv(t)
  BY <1>1, <1>9, <1>10, <1>11, TakeRowIs
<1> HIDE DEF t
<1>13. t.slot["create"] = s.slot["create"]
  BY <1>2, <1>4, <1>7, <1>9, <1>12, KeysAre DEF SameSlots
<1>14. s.mishaps \subseteq t.mishaps /\ u.mishaps \subseteq t.mishaps /\ "payment" \in t.mishaps
  BY <1>1, <1>6, <1>8, <1>9, <1>12
<1>15. CreatedInv(t) /\ UpdatedInv(t)
  BY <1>13, <1>14 DEF CreatedInv, UpdatedInv
<1>16. t.page.id = d /\ t.page.name = "read" /\ ~t.modal
  BY <1>11, <1>12 DEF SamePage
<1>17. ShownInv(t)
  BY <1>6, <1>11, <1>12, <1>14, <1>16 DEF ShownInv
<1>18. Good(t)
  BY <1>12, <1>15, <1>16, <1>17, PlainPage
<1> QED
  BY <1>14, <1>16, <1>18 DEF SavedPayment, t, w, v, u, r, m

LEMMA OpenUpdateGood ==
    ASSUME NEW s, NEW entity \in Entities, NEW id \in Choice, Able(s)
    PROVE  LET t == OpenUpdate(s, entity, id)
           IN  /\ Good(t)
               /\ t.page.name \in {"update", "read"}
               /\ ~s.slot["update"].isSuccess => t.page.name = "update"
<1> DEFINE u == At(s, "update", entity, id)
           asked == Send(u, "read", entity, id)
           stale == s.slot["read"].result
           given == IF stale # None THEN CurrentAction(asked, "update", stale) ELSE asked
           c == Sent("read", entity, id)
<1>1. PageAt("update", entity, id) \in Page
  BY DEF PageAt, Page
<1>2. stale \in Choice
  BY KeysAre, SlotFields DEF Able, Browser
<1>3. /\ Browser(u) /\ u.slot = s.slot /\ u.page.name = "update" /\ u.page.entity = entity
      /\ u.page.id = id /\ ~u.modal /\ u.mishaps = LeftMishaps(s) /\ RowsInv(u) /\ Left(u)
  BY <1>1, AtIs DEF Able
<1>4. FlightInv(u)
  BY <1>3, LeftIsFlight
<1>5. s.mishaps \subseteq u.mishaps
  BY <1>3, LeftMishapsAre DEF Able
<1> HIDE DEF u
<1>6. /\ Browser(asked) /\ SamePage(u, asked) /\ SameSlots(u, asked, "read")
      /\ asked.slot["read"].isLoading
  BY <1>3, SendIs, KeysAre
<1>7. FlightInv(asked) /\ asked.mishaps = u.mishaps
  BY <1>3, <1>4, SendReadFlight
<1>8. c \in Call /\ c.key = "read"
  BY SentIs, KeysAre
<1>9. c \in DOMAIN asked.flight
  <2>1. asked.flight = Plus(u.flight, c)
    BY <1>3, SendFlight, KeysAre
  <2>2. Flight(u.flight)
    BY <1>3 DEF Browser
  <2> HIDE DEF asked, c
  <2>3. DOMAIN asked.flight = DOMAIN u.flight \cup {c}
    BY <1>8, <2>1, <2>2, DomainPlus
  <2> QED
    BY <2>3
<1> HIDE DEF asked, stale, c
<1>10. /\ Browser(given) /\ SamePage(asked, given) /\ SameCalls(asked, given)
       /\ SameSlots(asked, given, "update")
       /\ given.slot["update"].isSuccess = asked.slot["update"].isSuccess
       /\ given.slot["update"].isLoading = asked.slot["update"].isLoading
  <2>1. CASE stale # None
    <3>1. given = CurrentAction(asked, "update", stale)
      BY <2>1
    <3> HIDE DEF given
    <3> QED
      BY <1>2, <1>6, <3>1, CurrentActionIs, KeysAre
  <2>2. CASE stale = None
    <3>1. given = asked
      BY <2>2
    <3> HIDE DEF given
    <3> QED
      BY <1>6, <3>1 DEF SamePage, SameCalls, SameSlots
  <2> QED
    BY <2>1, <2>2
<1> HIDE DEF given
<1>11. /\ given.page = u.page /\ ~given.modal /\ given.flight = asked.flight
       /\ given.mishaps = asked.mishaps
       /\ given.slot["create"] = s.slot["create"]
       /\ given.slot["update"].isSuccess = s.slot["update"].isSuccess
       /\ given.slot["read"].isLoading
  BY <1>3, <1>6, <1>10, KeysAre DEF SamePage, SameCalls, SameSlots
<1>12. FlightInv(given)
  <2>1. SameFlags(asked, given)
    BY <1>10 DEF SameFlags, SameSlots
  <2>2. given.page = asked.page
    BY <1>10 DEF SamePage
  <2> QED
    BY <1>7, <1>11, <2>1, <2>2, FlightSame
<1>13. s.mishaps \subseteq given.mishaps
  BY <1>5, <1>7, <1>11
<1>14. CreatedInv(given) /\ UpdatedInv(given)
  BY <1>11, <1>13, SaveFlagsKept DEF Able
<1>15. CASE ~(ReadDone(s) /\ s.slot["update"].isSuccess)
  <2>1. OpenUpdate(s, entity, id) = given
    BY <1>15 DEF OpenUpdate, given, asked, stale, u
  <2>2. given.page.name = "update"
    BY <1>3, <1>11
  <2>3. ~ReadDone(given)
    BY <1>11 DEF ReadDone
  <2>4. /\ PayInv(given) /\ ModalInv(given) /\ FormInv(given) /\ ListedInv(given)
        /\ ShownInv(given)
    BY <1>11, <2>2, <2>3 DEF PayInv, ModalInv, FormInv, FormOpen, ListedInv, ShownInv,
       PageOpen, InvoiceOpen, PaymentOpen, PayOpen
  <2> QED
    BY <1>10, <1>12, <1>14, <2>1, <2>2, <2>4 DEF Good, PageInv
<1>16. CASE ReadDone(s) /\ s.slot["update"].isSuccess
  <2>1. RowsInv(given)
    BY <1>12 DEF FlightInv
  <2>2. Excused(given)
    BY <1>8, <1>9, <1>11 DEF Excused
  <2>3. LET t == Saved(given) IN Good(t) /\ t.page.name = "read"
    BY <1>10, <1>14, <2>1, SavedGood
  <2>4. LET t == SavedPayment(given, stale) IN Good(t) /\ t.page.name = "read"
    BY <1>2, <1>10, <1>14, <2>1, <2>2, SavedPaymentGood
  <2>5. OpenUpdate(s, entity, id) \in {Saved(given), SavedPayment(given, stale)}
    BY <1>16 DEF OpenUpdate, given, asked, stale, u
  <2> QED
    BY <1>16, <2>3, <2>4, <2>5
<1> QED
  BY <1>15, <1>16

LEMMA PaymentRecordedGood ==
    ASSUME NEW s, NEW live, Browser(s), RowsInv(s)
    PROVE  LET t == PaymentRecorded(s)
           IN  Good(t) /\ TableInv(t, live) /\ t.page.name = "list"
<1> DEFINE u == ResetAction(s, "recordPayment")
           v == Send(u, "list", "invoice", None)
<1>1. "invoice" \in Entities /\ None \in Choice
  BY DEF Entities, Choice
<1>2. Browser(u) /\ SameCalls(s, u)
  BY ResetActionIs, KeysAre
<1> HIDE DEF u
<1>3. RowsInv(u)
  BY <1>2 DEF SameCalls, RowsInv
<1>4. Browser(v)
  BY <1>1, <1>2, SendIs, KeysAre
<1>5. RowsInv(v)
  BY <1>1, <1>2, <1>3, SendRows, KeysAre
<1> HIDE DEF v
<1>6. LET t == OpenList(v, "invoice")
      IN  Good(t) /\ TableInv(t, live) /\ t.page.name = "list"
  BY <1>1, <1>4, <1>5, OpenListGood
<1> QED
  BY <1>6 DEF PaymentRecorded, v, u

LEMMA OpenPayGood ==
    ASSUME NEW s, NEW id \in Docs, NEW live, Able(s), s.current = id
    PROVE  LET t == OpenPay(s, id)
           IN  Good(t) /\ TableInv(t, live) /\ t.page.name \in {"pay", "list"}
<1> DEFINE u == At(s, "pay", "invoice", id)
           taken == TakeRow(u, "invoice", id)
           given == CurrentAction(taken, "recordPayment", taken.current)
<1>1. /\ "invoice" \in Entities /\ id \in Choice /\ id # None
      /\ PageAt("pay", "invoice", id) \in Page
  BY DEF Entities, PageAt, Page, Choice
<1>2. /\ Browser(u) /\ SameItems(s, u) /\ u.slot = s.slot /\ u.page.name = "pay"
      /\ u.page.id = id /\ ~u.modal /\ u.mishaps = LeftMishaps(s) /\ RowsInv(u) /\ Left(u)
  BY <1>1, AtIs DEF Able
<1>3. FlightInv(u)
  BY <1>2, LeftIsFlight
<1>4. s.mishaps \subseteq u.mishaps
  BY <1>2, LeftMishapsAre DEF Able
<1> HIDE DEF u
<1>5. /\ Browser(taken) /\ SamePage(u, taken) /\ SameSlots(u, taken, "read")
      /\ taken.current = id \/ taken.current = u.current
      /\ taken.mishaps = u.mishaps
      /\ FlightInv(taken)
  BY <1>1, <1>2, <1>3, TakeRowIs
<1> HIDE DEF taken
<1>6. taken.current = id
  BY <1>2, <1>5 DEF SameItems
<1>7. /\ Browser(given) /\ SamePage(taken, given) /\ SameItems(taken, given)
      /\ SameCalls(taken, given) /\ SameSlots(taken, given, "recordPayment")
      /\ given.slot["recordPayment"].current = taken.current
      /\ given.slot["recordPayment"].isLoading = taken.slot["recordPayment"].isLoading
      /\ given.slot["recordPayment"].isSuccess = taken.slot["recordPayment"].isSuccess
  BY <1>1, <1>5, <1>6, CurrentActionIs, KeysAre
<1> HIDE DEF given
<1>8. FlightInv(given)
  <2>1. SameFlags(taken, given)
    BY <1>7 DEF SameFlags, SameSlots
  <2> QED
    BY <1>5, <1>7, <2>1, FlightSame DEF SamePage, SameCalls
<1>9. /\ given.page = u.page /\ ~given.modal /\ given.mishaps = u.mishaps
      /\ given.current = id
      /\ given.slot["create"] = s.slot["create"]
      /\ given.slot["update"] = s.slot["update"]
      /\ given.slot["recordPayment"].isSuccess = s.slot["recordPayment"].isSuccess
  BY <1>2, <1>5, <1>6, <1>7, KeysAre DEF SamePage, SameCalls, SameSlots, SameItems
<1>10. CreatedInv(given) /\ UpdatedInv(given)
  BY <1>4, <1>9, SaveFlagsKept DEF Able
<1>11. CASE ~s.slot["recordPayment"].isSuccess
  <2>1. OpenPay(s, id) = given
    BY <1>11 DEF OpenPay, given, taken, u
  <2>2. given.page.name = "pay" /\ given.page.id = id
    BY <1>2, <1>9
  <2>3. /\ PayInv(given) /\ ModalInv(given) /\ FormInv(given) /\ ListedInv(given)
        /\ ShownInv(given)
    BY <1>6, <1>7, <1>9, <1>11, <2>2
       DEF PayInv, ModalInv, FormInv, FormOpen, ListedInv, ShownInv
  <2> QED
    BY <1>7, <1>8, <1>10, <2>1, <2>2, <2>3, TableElsewhere DEF Good, PageInv
<1>12. CASE s.slot["recordPayment"].isSuccess
  <2>1. OpenPay(s, id) = PaymentRecorded(given)
    BY <1>1, <1>12 DEF OpenPay, given, taken, u
  <2>2. RowsInv(given)
    BY <1>8 DEF FlightInv
  <2> QED
    BY <1>7, <2>1, <2>2, PaymentRecordedGood
<1> QED
  BY <1>11, <1>12

LEMMA CreatedGood ==
    ASSUME NEW s, Browser(s), RowsInv(s), UpdatedInv(s)
    PROVE  LET t == Created(s)
           IN  Good(t) /\ t.page.name = "read"
<1> DEFINE u == ResetAction(s, "create")
<1>1. /\ Browser(u) /\ SameCalls(s, u) /\ SameSlots(s, u, "create")
      /\ u.slot["create"] = InitialSlot
  BY ResetActionIs, KeysAre
<1> HIDE DEF u
<1>2. RowsInv(u)
  BY <1>1 DEF SameCalls, RowsInv
<1>3. CreatedInv(u) /\ UpdatedInv(u)
  BY <1>1, InitialSlotIs, KeysAre DEF SameCalls, SameSlots, CreatedInv, UpdatedInv
<1>4. s.slot["create"].result \in Choice
  BY KeysAre, SlotFields DEF Browser
<1> QED
  BY <1>1, <1>2, <1>3, <1>4, OpenReadInvoiceGood DEF Able, Created, u

LEMMA OpenCreateGood ==
    ASSUME NEW s, Able(s)
    PROVE  LET t == OpenCreate(s)
           IN  /\ Good(t)
               /\ t.page.name \in {"create", "read"}
               /\ ~s.slot["create"].isSuccess => t.page.name = "create"
<1> DEFINE u == At(s, "create", "invoice", None)
<1>1. /\ "invoice" \in Entities /\ None \in Choice
      /\ PageAt("create", "invoice", None) \in Page
  BY DEF Entities, PageAt, Page, Choice
<1>2. /\ Browser(u) /\ u.slot = s.slot /\ u.page.name = "create"
      /\ ~u.modal /\ u.mishaps = LeftMishaps(s) /\ RowsInv(u) /\ Left(u)
  BY <1>1, AtIs DEF Able
<1>3. FlightInv(u)
  BY <1>2, LeftIsFlight
<1>4. s.mishaps \subseteq u.mishaps
  BY <1>2, LeftMishapsAre DEF Able
<1> HIDE DEF u
<1>5. CreatedInv(u) /\ UpdatedInv(u)
  BY <1>2, <1>4, SaveFlagsKept DEF Able
<1>6. CASE s.slot["create"].isSuccess
  BY <1>2, <1>5, <1>6, CreatedGood DEF OpenCreate, u
<1>7. CASE ~s.slot["create"].isSuccess
  <2>1. OpenCreate(s) = u
    BY <1>7 DEF OpenCreate, u
  <2>2. ShownInv(u)
    BY <1>2 DEF ShownInv, PageOpen, InvoiceOpen, PaymentOpen, PayOpen
  <2> QED
    BY <1>2, <1>3, <1>5, <2>1, <2>2, PlainPage
<1> QED
  BY <1>6, <1>7

-----------------------------------------------------------------------------
(***************************************************************************)
(* The user.                                                               *)
(***************************************************************************)

LEMMA IInvIs ==
    /\ IInv <=> /\ doc \in [Docs -> {"absent", "live", "removed"}]
                /\ Good(b) /\ TableInv(b, Live)
    /\ IInv' <=> /\ doc' \in [Docs -> {"absent", "live", "removed"}]
                 /\ Good(b') /\ TableInv(b', Live')
BY DEF IInv, TypeInv, Good

\* An action that leaves the server alone.
LEMMA Unserved ==
    ASSUME IInv, doc' = doc, Good(b'), TableInv(b', Live)
    PROVE  IInv'
<1>1. Live' = Live
  BY DEF Live
<1> QED
  BY <1>1, IInvIs

LEMMA GoodIsAble ==
    ASSUME NEW s, Good(s)
    PROVE  Able(s)
BY DEF Good, Able, FlightInv, PageInv

\* The row that is clicked becomes the current item, or the one of a key.
LEMMA RowTaken ==
    ASSUME NEW s, NEW d \in Choice, Good(s)
    PROVE  /\ Able(CurrentItem(s, d)) /\ CurrentItem(s, d).current = d
           /\ Able(CurrentAction(s, "update", d))
           /\ CurrentAction(s, "update", d).slot["update"].isSuccess = s.slot["update"].isSuccess
<1> DEFINE t == CurrentItem(s, d)
           u == CurrentAction(s, "update", d)
<1>1. Able(s)
  BY GoodIsAble
<1>2. /\ Browser(t) /\ SameCalls(s, t) /\ t.slot = s.slot /\ t.current = d
  BY <1>1, CurrentItemIs DEF Able
<1>3. /\ Browser(u) /\ SameCalls(s, u) /\ SameSlots(s, u, "update")
      /\ u.slot["update"].isSuccess = s.slot["update"].isSuccess
  BY <1>1, CurrentActionIs, KeysAre DEF Able
<1> HIDE DEF t, u
<1>4. Able(t)
  BY <1>1, <1>2, SaveFlagsKept DEF Able, SameCalls, RowsInv
<1>5. Able(u)
  BY <1>1, <1>3, SaveFlagsKept, KeysAre DEF Able, SameCalls, RowsInv, SameSlots
<1> QED
  BY <1>2, <1>3, <1>4, <1>5 DEF t, u

LEMMA GoToListInv ==
    ASSUME IInv, NEW entity \in Entities, GoToList(entity)
    PROVE  IInv'
<1>1. Good(b)
  BY IInvIs
<1>2. Able(b)
  BY <1>1, GoodIsAble
<1>3. b' = OpenList(b, entity) /\ doc' = doc
  BY DEF GoToList, Click
<1>4. Good(b') /\ TableInv(b', Live)
  BY <1>2, <1>3, OpenListGood DEF Able
<1> QED
  BY <1>3, <1>4, Unserved

LEMMA GoToDashboardInv ==
    ASSUME IInv, GoToDashboard
    PROVE  IInv'
<1>1. Able(b)
  BY IInvIs, GoodIsAble
<1>2. b' = OpenDashboard(b) /\ doc' = doc
  BY DEF GoToDashboard, Click
<1>3. Good(b') /\ b'.page.name = "dashboard"
  BY <1>1, <1>2, OpenDashboardGood
<1> QED
  BY <1>2, <1>3, TableElsewhere, Unserved

LEMMA ShowInv ==
    ASSUME IInv, NEW d \in Docs, ShowRecent(d) \/ ShowRow(d)
    PROVE  IInv'
<1>1. Good(b)
  BY IInvIs
<1>2. d \in Choice
  BY DEF Choice
<1>3. Able(CurrentItem(b, d)) /\ CurrentItem(b, d).current = d
  BY <1>1, <1>2, RowTaken
<1>4. /\ doc' = doc
      /\ \E entity : b' = OpenRead(CurrentItem(b, d), entity, d)
  BY DEF ShowRecent, ShowRow, Click
<1>5. Good(b') /\ b'.page.name = "read"
  BY <1>2, <1>3, <1>4, OpenReadGood
<1> QED
  BY <1>4, <1>5, TableElsewhere, Unserved

LEMMA PageEntity ==
    ASSUME NEW s, Browser(s)
    PROVE  s.page.entity \in Entities /\ s.page.id \in Choice
BY DEF Browser, Page

LEMMA EditInv ==
    ASSUME IInv, \/ \E d \in Docs : EditRecent(d) \/ EditRow(d)
                 \/ EditShown
    PROVE  /\ IInv'
           /\ ~b.slot["update"].isSuccess => b'.page.name = "update"
<1>1. Good(b) /\ Browser(b)
  BY IInvIs DEF Good
<1>2. b.page.entity \in Entities /\ "invoice" \in Entities /\ Docs \subseteq Choice
      /\ b.current \in Choice
  BY <1>1, PageEntity DEF Entities, Choice, Browser
<1>3. PICK d \in Choice, entity \in Entities :
         b' = OpenUpdate(CurrentAction(b, "update", d), entity, d)
  BY <1>2 DEF EditRecent, EditRow, EditShown, Shown
<1>4. doc' = doc
  BY DEF EditRecent, EditRow, EditShown, Click
<1>5. /\ Able(CurrentAction(b, "update", d))
      /\ CurrentAction(b, "update", d).slot["update"].isSuccess = b.slot["update"].isSuccess
  BY <1>1, RowTaken
<1>6. /\ Good(b') /\ b'.page.name \in {"update", "read"}
      /\ ~b.slot["update"].isSuccess => b'.page.name = "update"
  BY <1>3, <1>5, OpenUpdateGood
<1> QED
  BY <1>4, <1>6, TableElsewhere, Unserved

LEMMA PayRowInv ==
    ASSUME IInv, NEW d \in Docs, PayRow(d)
    PROVE  IInv'
<1>1. Good(b)
  BY IInvIs
<1>2. d \in Choice
  BY DEF Choice
<1>3. Able(CurrentItem(b, d)) /\ CurrentItem(b, d).current = d
  BY <1>1, <1>2, RowTaken
<1>4. b' = OpenPay(CurrentItem(b, d), d) /\ doc' = doc
  BY DEF PayRow, Click
<1>5. Good(b') /\ TableInv(b', Live)
  BY <1>3, <1>4, OpenPayGood
<1> QED
  BY <1>4, <1>5, Unserved

LEMMA NewInvoiceInv ==
    ASSUME IInv, NewInvoice
    PROVE  /\ IInv'
           /\ ~b.slot["create"].isSuccess => b'.page.name = "create"
<1>1. Able(b)
  BY IInvIs, GoodIsAble
<1>2. b' = OpenCreate(b) /\ doc' = doc
  BY DEF NewInvoice, Click
<1>3. /\ Good(b') /\ b'.page.name \in {"create", "read"}
      /\ ~b.slot["create"].isSuccess => b'.page.name = "create"
  BY <1>1, <1>2, OpenCreateGood
<1> QED
  BY <1>2, <1>3, TableElsewhere, Unserved

LEMMA ShowInvoiceInv ==
    ASSUME IInv, ShowInvoice
    PROVE  IInv'
<1>1. Good(b) /\ Browser(b)
  BY IInvIs DEF Good
<1>2. Able(b)
  BY <1>1, GoodIsAble
<1>3. Shown(b) \in Choice /\ Form(b) \in Choice
  <2>1. b.slot["update"] \in Slot /\ b.slot["read"] \in Slot
    BY <1>1, KeysAre DEF Browser
  <2> QED
    BY <1>1, <2>1, SlotFields DEF Browser, Shown, Form
<1>4. doc' = doc /\ \E id \in Choice : b' = OpenReadInvoice(b, id)
  BY <1>3 DEF ShowInvoice, Click
<1>5. Good(b') /\ b'.page.name = "read"
  BY <1>2, <1>4, OpenReadInvoiceGood
<1> QED
  BY <1>4, <1>5, TableElsewhere, Unserved

\* What the page shows and does, the dialog excepted, has not changed.
SameShown(s, t) ==
    /\ t.page = s.page /\ t.current = s.current /\ t.rows = s.rows
    /\ t.slot["read"] = s.slot["read"]
    /\ \A k \in Saves : /\ t.slot[k].current = s.slot[k].current
                        /\ t.slot[k].isSuccess = s.slot[k].isSuccess

LEMMA SavesAre == "create" \in Saves /\ "update" \in Saves /\ "recordPayment" \in Saves
BY DEF Saves

\* A page may also lose its success, never gain one.
LessShown(s, t) ==
    /\ t.page = s.page /\ t.current = s.current /\ t.rows = s.rows
    /\ ReadDone(t) => ReadDone(s)
    /\ t.slot["read"].result = s.slot["read"].result
    /\ \A k \in Saves : /\ t.slot[k].current = s.slot[k].current
                        /\ t.slot[k].isSuccess => s.slot[k].isSuccess

LEMMA PageLess ==
    ASSUME NEW s, NEW t, PageInv(s), LessShown(s, t), s.mishaps \subseteq t.mishaps, ModalInv(t)
    PROVE  PageInv(t)
<1>1. PayInv(t)
  BY SavesAre DEF PageInv, PayInv, LessShown
<1>2. FormInv(t)
  BY SavesAre DEF PageInv, FormInv, FormOpen, LessShown
<1>3. ListedInv(t)
  BY DEF PageInv, ListedInv, LessShown
<1>4. PageOpen(t) => PageOpen(s)
  BY DEF PageOpen, InvoiceOpen, PaymentOpen, PayOpen, LessShown
<1>5. ShownInv(t)
  BY <1>4 DEF PageInv, ShownInv, LessShown
<1>6. CreatedInv(t) /\ UpdatedInv(t)
  BY SavesAre DEF PageInv, LessShown, CreatedInv, UpdatedInv
<1> QED
  BY <1>1, <1>2, <1>3, <1>5, <1>6 DEF PageInv

LEMMA PageKept ==
    ASSUME NEW s, NEW t, PageInv(s), SameShown(s, t), s.mishaps \subseteq t.mishaps, ModalInv(t)
    PROVE  PageInv(t)
<1>1. LessShown(s, t)
  BY DEF SameShown, LessShown, ReadDone
<1> QED
  BY <1>1, PageLess

\* The dialog opens, or closes.
WithModal(s, modal) == [s EXCEPT !.modal = modal]

LEMMA ModalIs ==
    ASSUME NEW s, NEW modal \in BOOLEAN, Browser(s)
    PROVE  LET t == WithModal(s, modal)
           IN  /\ Browser(t) /\ SameItems(s, t) /\ SameCalls(s, t) /\ t.slot = s.slot
               /\ t.page = s.page /\ t.modal = modal /\ t.asked = s.asked
BY DEF WithModal, Browser, SameItems, SameCalls

Opened(s, d) == [s EXCEPT !.modal = TRUE, !.asked = d]

LEMMA OpenedIs ==
    ASSUME NEW s, NEW d \in Choice, Browser(s)
    PROVE  LET t == Opened(s, d)
           IN  /\ Browser(t) /\ SameItems(s, t) /\ SameCalls(s, t) /\ t.slot = s.slot
               /\ t.page = s.page /\ t.modal /\ t.asked = d
<1> DEFINE u == WithModal(s, TRUE)
           t == [u EXCEPT !.asked = d]
<1>1. TRUE \in BOOLEAN
  OBVIOUS
<1>2. Opened(s, d) = t
  BY DEF Opened, WithModal
<1>3. /\ Browser(u) /\ SameItems(s, u) /\ SameCalls(s, u) /\ u.slot = s.slot
      /\ u.page = s.page /\ u.modal = TRUE
  BY <1>1, ModalIs
<1> HIDE DEF u
<1>4. /\ Browser(t) /\ SameItems(u, t) /\ SameCalls(u, t) /\ t.slot = u.slot
      /\ t.page = u.page /\ t.modal = u.modal /\ t.asked = d
  BY <1>3 DEF Browser, SameItems, SameCalls
<1> HIDE DEF t
<1> QED
  BY <1>2, <1>3, <1>4 DEF SameItems, SameCalls

LEMMA ClosedIs ==
    ASSUME NEW s, Browser(s)
    PROVE  LET t == [s EXCEPT !.modal = FALSE]
           IN  /\ Browser(t) /\ SameItems(s, t) /\ SameCalls(s, t) /\ t.slot = s.slot
               /\ t.page = s.page /\ ~t.modal /\ t.asked = s.asked
<1>1. FALSE \in BOOLEAN
  OBVIOUS
<1> QED
  BY <1>1, ModalIs DEF WithModal

\* The table that is shown is loaded again.
LEMMA LoadGood ==
    ASSUME NEW s, NEW live, Good(s), s.page.name = "list"
    PROVE  LET t == Send(s, "list", s.page.entity, None)
           IN  Good(t) /\ TableInv(t, live)
<1> DEFINE entity == s.page.entity
           t == Send(s, "list", entity, None)
           c == Sent("list", entity, None)
<1>1. Browser(s) /\ FlightInv(s) /\ PageInv(s)
  BY DEF Good
<1>2. entity \in Entities /\ None \in Choice
  BY <1>1, PageEntity DEF Choice
<1>3. c.key = "list"
  BY DEF Sent
<1> HIDE DEF entity, c
<1>4. /\ Browser(t) /\ SamePage(s, t) /\ SameItems(s, t) /\ SameSlots(s, t, "list")
  BY <1>1, <1>2, SendIs, KeysAre
<1>5. /\ FlightInv(t)
      /\ c \in DOMAIN t.flight
      /\ "list" \notin t.mishaps =>
            \A d \in DOMAIN t.flight : d.key = "list" => d.stage = "sent"
      /\ s.mishaps \subseteq t.mishaps
  BY <1>1, <1>2, SendListFlight DEF entity, c
<1> HIDE DEF t
<1>6. SameShown(s, t)
  <2>1. \A k \in Saves : k \in Keys /\ k # "list"
    BY KeysAre DEF Saves
  <2> QED
    BY <1>4, <2>1, KeysAre DEF SameShown, SamePage, SameItems, SameSlots
<1>7. ModalInv(t)
  BY <1>1, <1>4, KeysAre DEF PageInv, ModalInv, SamePage, SameSlots
<1>8. PageInv(t)
  BY <1>1, <1>5, <1>6, <1>7, PageKept
<1>9. TableInv(t, live)
  BY <1>3, <1>5, TableAsked
<1> QED
  BY <1>4, <1>5, <1>8, <1>9 DEF Good, t, entity

LEMMA LoadTableInv ==
    ASSUME IInv, LoadTable
    PROVE  IInv'
<1>1. Good(b)
  BY IInvIs
<1>2. doc' = doc /\ b.page.name = "list" /\ b' = Send(b, "list", b.page.entity, None)
  BY DEF LoadTable, Click
<1>3. Good(b') /\ TableInv(b', Live)
  BY <1>1, <1>2, LoadGood
<1> QED
  BY <1>2, <1>3, Unserved

\* The effect of a deletion closes the dialog and loads the table.
LEMMA DeleteEffectGood ==
    ASSUME NEW s, NEW live, Browser(s), FlightInv(s), PageInv([s EXCEPT !.modal = FALSE]),
           s.page.name = "list"
    PROVE  LET t == DeleteEffect(s)
           IN  Good(t) /\ TableInv(t, live)
<1> DEFINE u == [s EXCEPT !.modal = FALSE]
<1>1. /\ Browser(u) /\ SameItems(s, u) /\ SameCalls(s, u) /\ u.slot = s.slot
      /\ u.page = s.page
  BY ClosedIs
<1>2. PageInv(u) /\ DeleteEffect(s) = Send(u, "list", u.page.entity, None)
  BY <1>1 DEF DeleteEffect
<1> HIDE DEF u
<1>3. FlightInv(u)
  BY <1>1, FlightSame DEF SameCalls, SameFlags
<1> QED
  BY <1>1, <1>2, <1>3, LoadGood DEF Good

LEMMA DeleteRowInv ==
    ASSUME IInv, NEW d \in Docs, DeleteRow(d)
    PROVE  IInv'
<1> DEFINE u == CurrentAction(b, "delete", d)
           open == Opened(u, d)
           closed == [open EXCEPT !.modal = FALSE]
<1>1. /\ Good(b) /\ Browser(b) /\ FlightInv(b) /\ PageInv(b) /\ TableInv(b, Live)
  BY IInvIs DEF Good
<1>2. d \in Choice
  BY DEF Choice
<1>3. /\ doc' = doc /\ b.page.name = "list"
      /\ b' = IF b.slot["delete"].isSuccess THEN DeleteEffect(open) ELSE open
  BY DEF DeleteRow, Click, Opened
<1>4. /\ Browser(u) /\ SamePage(b, u) /\ SameItems(b, u) /\ SameCalls(b, u)
      /\ SameSlots(b, u, "delete")
      /\ u.slot["delete"].current = d
      /\ u.slot["delete"].isLoading = b.slot["delete"].isLoading
      /\ u.slot["delete"].isSuccess = b.slot["delete"].isSuccess
  BY <1>1, <1>2, CurrentActionIs, KeysAre
<1> HIDE DEF u
<1>5. /\ Browser(open) /\ SameItems(u, open) /\ SameCalls(u, open) /\ open.slot = u.slot
      /\ open.page = u.page /\ open.modal /\ open.asked = d
  BY <1>2, <1>4, OpenedIs
<1> HIDE DEF open
<1>6. /\ Browser(closed) /\ SameItems(open, closed) /\ SameCalls(open, closed)
      /\ closed.slot = open.slot /\ closed.page = open.page /\ ~closed.modal
  BY <1>5, ClosedIs
<1>7. open.page = b.page /\ open.flight = b.flight /\ open.mishaps = b.mishaps
  BY <1>4, <1>5 DEF SamePage, SameCalls
<1>8. FlightInv(open)
  <2>1. SameFlags(b, open)
    BY <1>4, <1>5 DEF SameFlags, SameSlots
  <2> QED
    BY <1>1, <1>7, <2>1, FlightSame
<1>9. SameShown(b, open)
  <2>1. \A k \in Saves : k \in Keys /\ k # "delete"
    BY KeysAre DEF Saves
  <2> QED
    BY <1>4, <1>5, <1>7, <2>1, KeysAre DEF SameShown, SameItems, SameSlots
<1>10. CASE ~b.slot["delete"].isSuccess
  <2>1. b' = open
    BY <1>3, <1>10
  <2>2. ModalInv(open)
    BY <1>3, <1>4, <1>5, <1>7 DEF ModalInv
  <2>3. PageInv(open)
    BY <1>1, <1>7, <1>9, <2>2, PageKept
  <2>4. TableInv(open, Live)
    <3>1. open.rows = b.rows
      BY <1>9 DEF SameShown
    <3>2. Deleted(open) = Deleted(b)
      BY <1>7 DEF Deleted
    <3> QED
      BY <1>1, <1>7, <3>1, <3>2 DEF TableInv
  <2> QED
    BY <1>3, <1>5, <1>8, <2>1, <2>3, <2>4, Unserved DEF Good
<1>11. CASE b.slot["delete"].isSuccess
  <2>1. b' = DeleteEffect(open)
    BY <1>3, <1>11
  <2>2. SameShown(b, closed) /\ ModalInv(closed) /\ b.mishaps \subseteq closed.mishaps
    BY <1>6, <1>7, <1>9 DEF SameShown, SameItems, SameCalls, ModalInv
  <2>3. PageInv(closed)
    BY <1>1, <2>2, PageKept
  <2>4. Good(DeleteEffect(open)) /\ TableInv(DeleteEffect(open), Live)
    BY <1>3, <1>5, <1>7, <1>8, <2>3, DeleteEffectGood
  <2> QED
    BY <1>3, <2>1, <2>4, Unserved
<1> QED
  BY <1>10, <1>11

SameFlag(s, t, k) ==
    t.slot[k].isLoading = s.slot[k].isLoading /\ t.slot[k].isSuccess = s.slot[k].isSuccess

\* A deletion is sent by the table, when none is in flight.
LEMMA SendDeleteFlight ==
    ASSUME NEW s, NEW t, NEW c \in Call, Flight(s.flight), FlightInv(s),
           c.key = "delete", c.rows = {}, c.stage = "sent",
           t.page = s.page, t.flight = Plus(s.flight, c), s.mishaps \subseteq t.mishaps,
           \A k \in Saves : SameFlag(s, t, k),
           t.slot["delete"].isLoading, ~t.slot["delete"].isSuccess, s.page.name = "list",
           "delete" \notin t.mishaps => \A d \in DOMAIN s.flight : d.key # "delete"
    PROVE  FlightInv(t)
<1>1. DOMAIN t.flight = DOMAIN s.flight \cup {c}
  BY DomainPlus
<1>2. RowsInv(t)
  BY SentRows DEF FlightInv
<1>3. \A keys : Sole(s.flight, keys) /\ c.key \notin keys => Sole(t.flight, keys)
  BY SolePlus
<1>4. ListInv(t) /\ ReadInv(t)
  BY <1>1, <1>3 DEF FlightInv, ListInv, ReadInv
<1>5. DeletionInv(t)
  <2> SUFFICES ASSUME "delete" \notin t.mishaps PROVE DeletionInv(t)
    BY DEF DeletionInv
  <2>1. \A d \in DOMAIN s.flight : d.key \notin {"delete"}
    OBVIOUS
  <2>2. Sole(s.flight, {"delete"})
    BY <2>1 DEF Sole
  <2>3. Sole(t.flight, {"delete"})
    BY <2>1, <2>2, SolePlus
  <2> QED
    BY <2>3 DEF DeletionInv
<1>6. SaveInv(t)
  <2>1. c.key \notin Saves
    BY DEF Saves
  <2> QED
    BY <1>1, <1>3, <2>1 DEF FlightInv, SaveInv, SameFlag
<1> QED
  BY <1>2, <1>4, <1>5, <1>6 DEF FlightInv

\* A save is sent by its page, when none is in flight or it is a mishap.
LEMMA SendSaveFlight ==
    ASSUME NEW s, NEW t, NEW c \in Call, Flight(s.flight), FlightInv(s),
           c.key \in Saves, c.rows = {}, c.stage = "sent",
           t.page = s.page, t.flight = Plus(s.flight, c), s.mishaps \subseteq t.mishaps,
           SameFlag(s, t, "delete"),
           t.slot[c.key].isLoading, s.page.name = Sender(c.key),
           c.key = "update" => \/ c.id = s.page.id
                               \/ s.page.entity = "payment" /\ "read" \in s.mishaps,
           "save" \notin t.mishaps => \A d \in DOMAIN s.flight : d.key \notin Saves
    PROVE  FlightInv(t)
<1>1. DOMAIN t.flight = DOMAIN s.flight \cup {c}
  BY DomainPlus
<1>2. RowsInv(t)
  BY SentRows DEF FlightInv
<1>3. \A keys : Sole(s.flight, keys) /\ c.key \notin keys => Sole(t.flight, keys)
  BY SolePlus
<1>4. c.key # "list" /\ c.key # "read" /\ c.key # "delete"
  BY DEF Saves
<1>5. ListInv(t) /\ ReadInv(t)
  BY <1>1, <1>3, <1>4 DEF FlightInv, ListInv, ReadInv
<1>6. DeletionInv(t)
  BY <1>1, <1>3, <1>4 DEF FlightInv, DeletionInv, SameFlag
<1>7. SaveInv(t)
  <2> SUFFICES ASSUME "save" \notin t.mishaps PROVE SaveInv(t)
    BY DEF SaveInv
  <2>1. Sole(s.flight, Saves)
    BY DEF Sole
  <2>2. Sole(t.flight, Saves)
    BY <2>1, SolePlus
  <2> QED
    BY <1>1, <2>2 DEF SaveInv
<1> QED
  BY <1>2, <1>5, <1>6, <1>7 DEF FlightInv

\* The table does not change by a call of another key that is sent.
LEMMA TableSent ==
    ASSUME NEW s, NEW t, NEW live, NEW c \in Call, Flight(s.flight), TableInv(s, live),
           c.key # "list", c.stage = "sent",
           t.page = s.page, t.rows = s.rows, t.flight = Plus(s.flight, c),
           s.mishaps \subseteq t.mishaps
    PROVE  TableInv(t, live)
<1>1. DOMAIN t.flight = DOMAIN s.flight \cup {c}
  BY DomainPlus
<1>2. Deleted(s) => Deleted(t)
  BY <1>1 DEF Deleted
<1> QED
  BY <1>1, <1>2 DEF TableInv

LEMMA ConfirmDeleteInv ==
    ASSUME IInv, ConfirmDelete
    PROVE  IInv'
<1> DEFINE id == b.slot["delete"].current
           entity == b.page.entity
           r == ResetAction(b, "delete")
           u == Send(r, "delete", entity, id)
           t == [u EXCEPT !.modal = FALSE]
           c == Sent("delete", entity, id)
<1>1. /\ Browser(b) /\ FlightInv(b) /\ PageInv(b) /\ TableInv(b, Live)
  BY IInvIs DEF Good
<1>2. /\ doc' = doc /\ b.modal /\ ~b.slot["delete"].isLoading /\ b' = t
  BY DEF ConfirmDelete, Dialog
<1>3. /\ id \in Choice /\ entity \in Entities
  BY <1>1, KeysAre, SlotFields, PageEntity DEF Browser
<1>4. b.page.name = "list"
  BY <1>1, <1>2 DEF PageInv, ModalInv
<1> HIDE DEF id, entity
<1>5. /\ c \in Call /\ c.key = "delete" /\ c.rows = {} /\ c.stage = "sent"
  BY <1>3, SentIs, KeysAre
<1>6. /\ Browser(r) /\ SamePage(b, r) /\ SameItems(b, r) /\ SameCalls(b, r)
      /\ SameSlots(b, r, "delete") /\ r.slot["delete"] = InitialSlot
  BY <1>1, ResetActionIs, KeysAre
<1> HIDE DEF r, c
<1>7. /\ Browser(u) /\ SamePage(r, u) /\ SameItems(r, u) /\ SameSlots(r, u, "delete")
      /\ u.slot["delete"].isLoading
      /\ u.slot["delete"].isSuccess = r.slot["delete"].isSuccess
  BY <1>3, <1>6, SendIs, KeysAre
<1>8. u.flight = Plus(r.flight, c)
  BY <1>3, <1>6, SendFlight, KeysAre DEF c
<1>9. u.mishaps = r.mishaps
  BY <1>3, <1>6, SendMishaps, KeysAre
<1> HIDE DEF u
<1>10. /\ Browser(t) /\ SameItems(u, t) /\ SameCalls(u, t) /\ t.slot = u.slot
       /\ t.page = u.page /\ ~t.modal
  BY <1>7, ClosedIs
<1> HIDE DEF t
<1>11. /\ t.page = b.page /\ t.flight = Plus(b.flight, c) /\ t.mishaps = b.mishaps
       /\ t.rows = b.rows /\ t.current = b.current
  BY <1>6, <1>7, <1>8, <1>9, <1>10 DEF SamePage, SameItems, SameCalls
<1>12. \A k \in Keys : k # "delete" => t.slot[k] = b.slot[k]
  BY <1>6, <1>7, <1>10 DEF SameSlots
<1>13. t.slot["delete"].isLoading /\ ~t.slot["delete"].isSuccess
  BY <1>6, <1>7, <1>10, InitialSlotIs
<1>14. \A k \in Saves : k \in Keys /\ k # "delete"
  BY KeysAre DEF Saves
<1>15. Flight(b.flight)
  BY <1>1 DEF Browser
<1>16. FlightInv(t)
  <2>1. "delete" \notin b.mishaps => \A d \in DOMAIN b.flight : d.key # "delete"
    BY <1>1, <1>2 DEF FlightInv, DeletionInv
  <2>2. \A k \in Saves : SameFlag(b, t, k)
    BY <1>12, <1>14 DEF SameFlag
  <2> QED
    BY <1>1, <1>4, <1>5, <1>11, <1>13, <1>15, <2>1, <2>2, SendDeleteFlight
<1>17. SameShown(b, t)
  BY <1>11, <1>12, <1>14, KeysAre DEF SameShown
<1>18. PageInv(t)
  <2>1. ModalInv(t)
    BY <1>10 DEF ModalInv
  <2> QED
    BY <1>1, <1>11, <1>17, <2>1, PageKept
<1>19. TableInv(t, Live)
  BY <1>1, <1>5, <1>11, <1>15, TableSent
<1> QED
  BY <1>2, <1>10, <1>16, <1>18, <1>19, Unserved DEF Good

LEMMA CancelDeleteInv ==
    ASSUME IInv, CancelDelete
    PROVE  IInv'
<1> DEFINE t == [b EXCEPT !.modal = FALSE]
<1>1. /\ Browser(b) /\ FlightInv(b) /\ PageInv(b) /\ TableInv(b, Live)
  BY IInvIs DEF Good
<1>2. doc' = doc /\ b' = t
  BY DEF CancelDelete, Dialog
<1>3. /\ Browser(t) /\ SameItems(b, t) /\ SameCalls(b, t) /\ t.slot = b.slot
      /\ t.page = b.page /\ ~t.modal
  BY <1>1, ClosedIs
<1> HIDE DEF t
<1>4. FlightInv(t)
  BY <1>1, <1>3, FlightSame DEF SameCalls, SameFlags
<1>5. SameShown(b, t) /\ ModalInv(t)
  BY <1>3 DEF SameShown, ModalInv, SameItems
<1>6. PageInv(t)
  BY <1>1, <1>3, <1>5, PageKept DEF SameCalls
<1>7. TableInv(t, Live)
  BY <1>1, <1>3 DEF TableInv, Deleted, SameItems, SameCalls
<1> QED
  BY <1>2, <1>3, <1>4, <1>6, <1>7, Unserved DEF Good

\* A save was sent by its page.
LEMMA SaveSentGood ==
    ASSUME NEW s, NEW t, NEW k \in Saves, NEW c \in Call, Good(s), ~s.modal, Browser(t),
           c.key = k, c.rows = {}, c.stage = "sent",
           SamePage(s, t), SameItems(s, t), SameSlots(s, t, k),
           t.slot[k].current = s.slot[k].current, t.slot[k].isLoading,
           t.slot[k].isSuccess = s.slot[k].isSuccess,
           t.flight = Plus(s.flight, c), s.mishaps \subseteq t.mishaps,
           s.page.name = Sender(k),
           k = "update" => \/ c.id = s.page.id
                           \/ s.page.entity = "payment" /\ "read" \in s.mishaps,
           "save" \notin t.mishaps => \A d \in DOMAIN s.flight : d.key \notin Saves
    PROVE  Good(t) /\ t.page.name # "list"
<1>1. Browser(s) /\ FlightInv(s) /\ PageInv(s)
  BY DEF Good
<1>2. Flight(s.flight)
  BY <1>1 DEF Browser
<1>3. t.page = s.page
  BY DEF SamePage
<1>4. k \in Keys /\ k # "delete" /\ k # "read"
  BY KeysAre DEF Saves
<1>5. SameFlag(s, t, "delete")
  BY <1>4, KeysAre DEF SameFlag, SameSlots
<1>6. FlightInv(t)
  BY <1>1, <1>2, <1>3, <1>5, SendSaveFlight
<1>7. SameShown(s, t)
  <2>1. \A j \in Saves : j \in Keys
    BY KeysAre
  <2>2. \A j \in Saves : /\ t.slot[j].current = s.slot[j].current
                         /\ t.slot[j].isSuccess = s.slot[j].isSuccess
    BY <2>1 DEF SameSlots
  <2>3. t.slot["read"] = s.slot["read"]
    BY <1>4, KeysAre DEF SameSlots
  <2> QED
    BY <1>3, <2>2, <2>3 DEF SameShown, SameItems
<1>8. ModalInv(t)
  BY DEF ModalInv, SamePage
<1>9. PageInv(t)
  BY <1>1, <1>7, <1>8, PageKept
<1> QED
  BY <1>3, <1>6, <1>9 DEF Good, Sender, Saves

\* A page that waits for its saves has none in flight when it sends one.
LEMMA NoneWaits ==
    ASSUME NEW s, NEW k \in Saves, SaveInv(s), s.page.name = Sender(k), ~s.slot[k].isLoading
    PROVE  "save" \notin s.mishaps => \A d \in DOMAIN s.flight : d.key \notin Saves
BY DEF SaveInv, Sender, Saves

\* Pages that do not wait note it: a form, and the fields of a new invoice.
LEMMA NotedSaveInv ==
    ASSUME IInv, SaveInvoice \/ SaveNew
    PROVE  IInv'
<1>1. /\ Good(b) /\ Browser(b) /\ FlightInv(b)
  BY IInvIs DEF Good
<1>2. None \in Choice /\ "invoice" \in Entities /\ b.page.id \in Choice
  BY <1>1, PageEntity DEF Choice, Entities
<1> DEFINE m == Abandoned(b) \cap {"save"}
<1>3. PICK k \in Saves, id \in Choice :
         /\ b' = [Send(b, k, "invoice", id) EXCEPT !.mishaps = @ \cup m]
         /\ doc' = doc /\ ~b.modal
         /\ b.page.name = Sender(k)
         /\ k = "update" => id = b.page.id
  <2>1. CASE SaveInvoice
    <3>1. "update" \in Saves /\ SaveId(b) = b.page.id
      BY <2>1, SavesAre DEF SaveInvoice, SaveId
    <3> QED
      BY <1>2, <2>1, <3>1 DEF SaveInvoice, Click, Sender
  <2>2. CASE SaveNew
    BY <1>2, <2>2, SavesAre DEF SaveNew, Click, Sender
  <2> QED
    BY <2>1, <2>2
<1>4. m \in SUBSET Mishaps
  BY DEF Mishaps
<1>5. \A d \in DOMAIN b.flight : d.key \in Saves => "save" \in m
  BY <1>1, AbandonedIs
<1> DEFINE c == Sent(k, "invoice", id)
           u == Send(b, k, "invoice", id)
           t == [u EXCEPT !.mishaps = @ \cup m]
<1>6. k \in Keys /\ k # "list"
  BY KeysAre DEF Saves
<1>7. /\ c \in Call /\ c.key = k /\ c.id = id /\ c.rows = {} /\ c.stage = "sent"
  BY <1>2, <1>6, SentIs
<1>8. u.flight = Plus(b.flight, c)
  BY <1>1, <1>2, <1>6, SendFlight
<1> HIDE DEF c
<1>9. /\ Browser(u) /\ SamePage(b, u) /\ SameItems(b, u) /\ SameSlots(b, u, k)
      /\ u.slot[k].current = b.slot[k].current
      /\ u.slot[k].isLoading /\ u.slot[k].isSuccess = b.slot[k].isSuccess
  BY <1>1, <1>2, <1>6, SendIs
<1>10. u.mishaps = b.mishaps
  BY <1>1, <1>2, <1>6, SendMishaps
<1> HIDE DEF u, m
<1>11. /\ Browser(t) /\ SamePage(u, t) /\ SameItems(u, t) /\ t.slot = u.slot
       /\ t.flight = u.flight /\ u.mishaps \subseteq t.mishaps /\ m \subseteq t.mishaps
  BY <1>4, <1>9, NotedIs
<1>12. b' = t
  BY <1>3 DEF u
<1> HIDE DEF t
<1>13. /\ SamePage(b, t) /\ SameItems(b, t) /\ SameSlots(b, t, k)
  BY <1>9, <1>11 DEF SamePage, SameItems, SameSlots
<1>14. "save" \notin t.mishaps => \A d \in DOMAIN b.flight : d.key \notin Saves
  BY <1>5, <1>11
<1>15. Good(t) /\ t.page.name # "list"
  BY <1>1, <1>3, <1>7, <1>8, <1>9, <1>10, <1>11, <1>13, <1>14, SaveSentGood
<1> QED
  BY <1>3, <1>12, <1>15, TableElsewhere, Unserved

\* The others wait: the form of a payment, and the page to pay.
LEMMA WaitingSaveInv ==
    ASSUME IInv, SavePayment \/ Pay
    PROVE  IInv'
<1>1. /\ Good(b) /\ Browser(b) /\ FlightInv(b) /\ PageInv(b)
  BY IInvIs DEF Good
<1>2. "payment" \in Entities /\ "invoice" \in Entities
  BY DEF Entities
<1>3. PICK k \in Saves, id \in Choice, entity \in Entities :
         /\ b' = Send(b, k, entity, id)
         /\ doc' = doc /\ ~b.modal
         /\ b.page.name = Sender(k)
         /\ ~b.slot[k].isLoading
         /\ k = "update" => \/ id = b.page.id
                            \/ b.page.entity = "payment" /\ "read" \in b.mishaps
  <2>1. b.slot["read"].result \in Choice /\ b.slot["recordPayment"].current \in Choice
    BY <1>1, KeysAre, SlotFields DEF Browser
  <2>2. CASE SavePayment
    <3>1. SaveId(b) = b.slot["read"].result /\ b.page.entity = "payment" /\ FormOpen(b)
      BY <2>2 DEF SavePayment, SaveId
    <3>2. "read" \notin b.mishaps => SaveId(b) = b.page.id
      BY <1>1, <3>1 DEF PageInv, FormInv
    <3> QED
      BY <1>2, <2>1, <2>2, <3>1, <3>2, SavesAre DEF SavePayment, Click, Sender
  <2>3. CASE Pay
    BY <1>2, <2>1, <2>3, SavesAre DEF Pay, Click, Sender
  <2> QED
    BY <2>2, <2>3
<1> DEFINE c == Sent(k, entity, id)
           t == Send(b, k, entity, id)
<1>4. k \in Keys /\ k # "list"
  BY KeysAre DEF Saves
<1>5. /\ c \in Call /\ c.key = k /\ c.id = id /\ c.rows = {} /\ c.stage = "sent"
  BY <1>4, SentIs
<1>6. t.flight = Plus(b.flight, c)
  BY <1>1, <1>4, SendFlight
<1> HIDE DEF c
<1>7. /\ Browser(t) /\ SamePage(b, t) /\ SameItems(b, t) /\ SameSlots(b, t, k)
      /\ t.slot[k].current = b.slot[k].current
      /\ t.slot[k].isLoading /\ t.slot[k].isSuccess = b.slot[k].isSuccess
  BY <1>1, <1>4, SendIs
<1>8. t.mishaps = b.mishaps
  BY <1>1, <1>4, SendMishaps
<1>9. b' = t
  BY <1>3
<1> HIDE DEF t
<1>10. "save" \notin b.mishaps => \A d \in DOMAIN b.flight : d.key \notin Saves
  BY <1>1, <1>3, NoneWaits DEF FlightInv
<1>11. Good(t) /\ t.page.name # "list"
  BY <1>1, <1>3, <1>5, <1>6, <1>7, <1>8, <1>10, SaveSentGood
<1> QED
  BY <1>3, <1>9, <1>11, TableElsewhere, Unserved

-----------------------------------------------------------------------------
(***************************************************************************)
(* The server.                                                             *)
(***************************************************************************)

LEMMA CallFields ==
    ASSUME NEW c \in Call
    PROVE  /\ c.key \in Keys \cup {"recent"} /\ c.entity \in Entities /\ c.id \in Choice
           /\ c.rows \subseteq Docs /\ c.stage \in {"sent", "done", "refused"}
BY DEF Call

LEMMA ReplacedIs ==
    ASSUME NEW f, NEW c \in DOMAIN f, NEW d \in Call, Flight(f)
    PROVE  LET g == Plus(Minus(f, c), d)
           IN  /\ Flight(g)
               /\ d \in DOMAIN g
               /\ \A e \in DOMAIN g : e = d \/ e \in DOMAIN f
               /\ \A e \in DOMAIN f : e = c \/ e \in DOMAIN g
<1> DEFINE h == Minus(f, c)
           g == Plus(h, d)
<1>1. /\ Flight(h) /\ DOMAIN h \subseteq DOMAIN f
      /\ \A e \in DOMAIN f : e # c => e \in DOMAIN h
  BY MinusIs
<1> HIDE DEF h
<1>2. Flight(g) /\ DOMAIN g = DOMAIN h \cup {d}
  BY <1>1, PlusIs
<1> HIDE DEF g
<1>3. /\ d \in DOMAIN g
      /\ \A e \in DOMAIN g : e = d \/ e \in DOMAIN f
      /\ \A e \in DOMAIN f : e = c \/ e \in DOMAIN g
  BY <1>1, <1>2
<1> QED
  BY <1>2, <1>3 DEF g, h

\* A call is replaced by its answer: it keeps its key and entity, and its document.
LEMMA ReplacedFlight ==
    ASSUME NEW s, NEW t, NEW c \in DOMAIN s.flight, NEW d \in Call,
           Browser(s), FlightInv(s),
           d.key = c.key, d.entity = c.entity, d.id = c.id \/ c.key = "create",
           d.rows \subseteq Of(d.entity),
           d.key = "list" /\ d.stage = "refused" => "lost" \in t.mishaps,
           t.page = s.page, t.slot = s.slot, s.mishaps \subseteq t.mishaps,
           t.flight = Plus(Minus(s.flight, c), d)
    PROVE  FlightInv(t)
<1>1. Flight(s.flight)
  BY DEF Browser
<1>2. \A e \in DOMAIN t.flight : e = d \/ e \in DOMAIN s.flight
  BY <1>1, ReplacedIs
<1>3. \A keys : Sole(s.flight, keys) => Sole(t.flight, keys)
  BY <1>1, SoleReplaced
<1>4. RowsInv(t)
  BY <1>2 DEF FlightInv, RowsInv
<1>5. ListInv(t)
  BY <1>2, <1>3 DEF FlightInv, ListInv
<1>6. ReadInv(t)
  BY <1>2 DEF FlightInv, ReadInv
<1>7. DeletionInv(t)
  BY <1>2, <1>3 DEF FlightInv, DeletionInv
<1>8. SaveInv(t)
  <2> SUFFICES ASSUME "save" \notin t.mishaps PROVE SaveInv(t)
    BY DEF SaveInv
  <2>1. Sole(t.flight, Saves)
    BY <1>3 DEF FlightInv, SaveInv
  <2> DEFINE Fits(e) == /\ s.page.name = Sender(e.key) /\ s.slot[e.key].isLoading
                        /\ e.key = "update" => \/ e.id = s.page.id
                                               \/ s.page.entity = "payment" /\ "read" \in s.mishaps
  <2>2. \A e \in DOMAIN s.flight : e.key \in Saves => Fits(e)
    BY DEF FlightInv, SaveInv
  <2>3. d.key \in Saves => Fits(d)
    BY <2>2
  <2>4. \A e \in DOMAIN t.flight : e.key \in Saves => Fits(e)
    BY <1>2, <2>2, <2>3
  <2> QED
    BY <2>1, <2>4 DEF SaveInv
<1> QED
  BY <1>4, <1>5, <1>6, <1>7, <1>8 DEF FlightInv

LEMMA ReplacedBrowser ==
    ASSUME NEW s, NEW t, NEW c \in DOMAIN s.flight, NEW d \in Call, NEW m \in SUBSET Mishaps,
           Browser(s), s.mishaps \subseteq m,
           t = WithCalls(s, Plus(Minus(s.flight, c), d), m)
    PROVE  /\ Browser(t) /\ SamePage(s, t) /\ SameItems(s, t) /\ t.slot = s.slot
           /\ t.flight = Plus(Minus(s.flight, c), d) /\ t.mishaps = m
           /\ PageInv(s) => PageInv(t)
<1> DEFINE f == Plus(Minus(s.flight, c), d)
<1>1. Flight(f)
  BY ReplacedIs DEF Browser
<1> HIDE DEF f
<1>2. /\ Browser(t) /\ SamePage(s, t) /\ SameItems(s, t) /\ t.slot = s.slot
      /\ t.flight = f /\ t.mishaps = m
  BY <1>1, WithCallsIs DEF f
<1>3. SameShown(s, t)
  BY <1>2 DEF SameShown, SamePage, SameItems
<1>4. PageInv(s) => PageInv(t)
  <2>1. ModalInv(s) => ModalInv(t)
    BY <1>2 DEF ModalInv, SamePage
  <2> QED
    BY <1>2, <1>3, <2>1, PageKept DEF PageInv
<1> QED
  BY <1>2, <1>4 DEF f

\* The server answers a call.
LEMMA ServedInv ==
    ASSUME IInv, NEW c \in DOMAIN b.flight, NEW d \in Call,
           d.key = c.key, d.entity = c.entity, d.id = c.id \/ c.key = "create",
           c.stage = "sent", d.rows \subseteq Of(d.entity),
           d.key = "list" => d.stage # "refused" /\ d.rows \subseteq Live',
           Replace(c, d),
           doc' \in [Docs -> {"absent", "live", "removed"}],
           (d.key = "delete" /\ d.stage = "done") \/ Live \subseteq Live'
    PROVE  IInv'
<1>1. /\ Browser(b) /\ FlightInv(b) /\ PageInv(b) /\ TableInv(b, Live)
  BY IInvIs DEF Good
<1> DEFINE m == b.mishaps
<1>2. m \in SUBSET Mishaps /\ b.mishaps \subseteq m /\ Flight(b.flight)
  BY <1>1 DEF Browser
<1>3. b' = WithCalls(b, Plus(Minus(b.flight, c), d), m)
  BY <1>1 DEF Replace, WithCalls, Plus, Minus, Browser
<1> HIDE DEF m
<1>4. /\ Browser(b') /\ SamePage(b, b') /\ SameItems(b, b') /\ b'.slot = b.slot
      /\ b'.flight = Plus(Minus(b.flight, c), d) /\ b'.mishaps = m
      /\ PageInv(b')
  BY <1>1, <1>2, <1>3, ReplacedBrowser
<1>5. b'.page = b.page /\ b'.rows = b.rows
  BY <1>4 DEF SamePage, SameItems
<1>6. FlightInv(b')
  BY <1>1, <1>2, <1>4, <1>5, ReplacedFlight
<1>7. /\ d \in DOMAIN b'.flight
      /\ \A e \in DOMAIN b'.flight : e = d \/ e \in DOMAIN b.flight
      /\ \A e \in DOMAIN b.flight : e = c \/ e \in DOMAIN b'.flight
  BY <1>2, <1>4, ReplacedIs
<1>8. TableInv(b', Live')
  <2> SUFFICES ASSUME b'.page.name = "list", b'.mishaps \cap {"lost", "list", "delete"} = {},
                      ~Deleted(b')
               PROVE  /\ (\A e \in DOMAIN b'.flight : e.key # "list") => b'.rows \subseteq Live'
                      /\ \A e \in DOMAIN b'.flight :
                            e.key = "list" /\ e.stage = "done" => e.rows \subseteq Live'
    BY DEF TableInv
  <2>1. Live \subseteq Live'
    BY <1>7 DEF Deleted
  <2>2. ~Deleted(b)
    BY <1>7 DEF Deleted
  <2>3. b.mishaps \cap {"lost", "list", "delete"} = {}
    BY <1>2, <1>4
  <2>4. /\ (\A e \in DOMAIN b.flight : e.key # "list") => b.rows \subseteq Live
        /\ \A e \in DOMAIN b.flight : e.key = "list" /\ e.stage = "done" => e.rows \subseteq Live
    BY <1>1, <1>5, <2>2, <2>3 DEF TableInv
  <2>5. (\A e \in DOMAIN b'.flight : e.key # "list") => \A e \in DOMAIN b.flight : e.key # "list"
    BY <1>7
  <2> QED
    BY <1>5, <1>7, <2>1, <2>4, <2>5
<1> QED
  BY <1>4, <1>6, <1>8, IInvIs DEF Good

LEMMA CallChanged ==
    ASSUME NEW c \in Call, NEW stage \in {"sent", "done", "refused"}
    PROVE  LET d == [c EXCEPT !.stage = stage]
           IN  /\ d \in Call /\ d.key = c.key /\ d.entity = c.entity /\ d.id = c.id
               /\ d.rows = c.rows /\ d.stage = stage
BY DEF Call

LEMMA FlightCalls ==
    ASSUME IInv
    PROVE  /\ \A c \in DOMAIN b.flight : c \in Call /\ c.rows \subseteq Of(c.entity)
           /\ BagToSet(b.flight) = DOMAIN b.flight
BY IInvIs DEF Good, Browser, Flight, FlightInv, RowsInv, BagToSet

LEMMA LiveIs ==
    /\ Live \subseteq Docs
    /\ doc' = doc => Live' = Live
BY DEF Live

LEMMA ServeListInv ==
    ASSUME IInv, NEW c \in DOMAIN b.flight, ServeList(c)
    PROVE  IInv'
<1> DEFINE rows == Live \cap Of(c.entity)
           d == [c EXCEPT !.stage = "done", !.rows = rows]
<1>1. c \in Call
  BY FlightCalls
<1>2. rows \subseteq Docs /\ rows \subseteq Of(c.entity) /\ rows \subseteq Live
  BY DEF Live
<1>3. /\ c.stage = "sent" /\ Replace(c, d) /\ doc' = doc
  BY DEF ServeList
<1> HIDE DEF rows
<1>4. /\ d \in Call /\ d.key = c.key /\ d.entity = c.entity /\ d.id = c.id
      /\ d.rows = rows /\ d.stage = "done"
  BY <1>1, <1>2 DEF Call
<1>5. Live' = Live /\ doc' \in [Docs -> {"absent", "live", "removed"}]
  BY <1>3, LiveIs, IInvIs
<1> HIDE DEF d
<1> QED
  BY <1>2, <1>3, <1>4, <1>5, ServedInv

\* A read, an update or a payment leaves the documents as they are.
LEMMA ServeOtherInv ==
    ASSUME IInv, NEW c \in DOMAIN b.flight, ServeRead(c) \/ ServePay(c)
    PROVE  IInv'
<1>1. c \in Call /\ c.rows \subseteq Of(c.entity)
  BY FlightCalls
<1>2. PICK stage \in {"sent", "done", "refused"} :
         c.stage = "sent" /\ c.key # "list" /\ Replace(c, [c EXCEPT !.stage = stage])
  BY DEF ServeRead, ServePay, Answered
<1>3. doc' = doc
  BY DEF ServeRead, ServePay
<1> DEFINE d == [c EXCEPT !.stage = stage]
<1>4. /\ d \in Call /\ d.key = c.key /\ d.entity = c.entity /\ d.id = c.id
      /\ d.rows = c.rows
  BY <1>1, CallChanged
<1>5. Live' = Live /\ doc' \in [Docs -> {"absent", "live", "removed"}]
  BY <1>3, LiveIs, IInvIs
<1>6. Replace(c, d)
  BY <1>2
<1> HIDE DEF d
<1> QED
  BY <1>1, <1>2, <1>4, <1>5, <1>6, ServedInv

LEMMA ServeCreateInv ==
    ASSUME IInv, NEW c \in DOMAIN b.flight, NEW i \in Docs, ServeCreate(c, i)
    PROVE  IInv'
<1> DEFINE d == [c EXCEPT !.stage = "done", !.id = i]
<1>1. c \in Call /\ c.rows \subseteq Of(c.entity)
  BY FlightCalls
<1>2. /\ c.key = "create" /\ c.stage = "sent" /\ doc[i] = "absent"
      /\ doc' = [doc EXCEPT ![i] = "live"] /\ Replace(c, d)
  BY DEF ServeCreate
<1>3. i \in Choice
  BY DEF Choice
<1>4. /\ d \in Call /\ d.key = c.key /\ d.entity = c.entity /\ d.rows = c.rows
      /\ d.stage = "done"
  BY <1>1, <1>3 DEF Call
<1>5. doc \in [Docs -> {"absent", "live", "removed"}]
  BY IInvIs
<1>6. doc' \in [Docs -> {"absent", "live", "removed"}] /\ Live \subseteq Live'
  BY <1>2, <1>5 DEF Live
<1> HIDE DEF d
<1>7. d.key # "list"
  BY <1>2, <1>4
<1> QED
  BY <1>1, <1>2, <1>4, <1>6, <1>7, ServedInv

LEMMA ServeDeleteInv ==
    ASSUME IInv, NEW c \in DOMAIN b.flight, ServeDelete(c)
    PROVE  IInv'
<1> DEFINE found == c.id \in Live \cap Of(c.entity)
           stage == IF found THEN "done" ELSE "refused"
           d == [c EXCEPT !.stage = stage]
<1>1. c \in Call /\ c.rows \subseteq Of(c.entity)
  BY FlightCalls
<1>2. /\ c.key = "delete" /\ c.stage = "sent"
      /\ doc' = IF found THEN [doc EXCEPT ![c.id] = "removed"] ELSE doc
      /\ Replace(c, d)
  BY DEF ServeDelete, Answered
<1>3. stage \in {"sent", "done", "refused"}
  OBVIOUS
<1>4. found => stage = "done"
  OBVIOUS
<1>5. doc \in [Docs -> {"absent", "live", "removed"}]
  BY IInvIs
<1>6. doc' \in [Docs -> {"absent", "live", "removed"}]
  BY <1>2, <1>5
<1>7. ~found => Live \subseteq Live'
  BY <1>2, LiveIs
<1> HIDE DEF found, stage
<1>8. /\ d \in Call /\ d.key = c.key /\ d.entity = c.entity /\ d.id = c.id
      /\ d.rows = c.rows /\ d.stage = stage
  BY <1>1, <1>3, CallChanged
<1> HIDE DEF d
<1>9. d.key # "list"
  BY <1>2, <1>8
<1>10. (d.key = "delete" /\ d.stage = "done") \/ Live \subseteq Live'
  BY <1>2, <1>4, <1>7, <1>8
<1> QED
  BY <1>1, <1>2, <1>6, <1>8, <1>9, <1>10, ServedInv

LEMMA LoseInv ==
    ASSUME IInv, NEW c \in DOMAIN b.flight, Lose(c)
    PROVE  IInv'
<1> DEFINE none == {}
           d == [c EXCEPT !.stage = "refused", !.rows = none]
           m == b.mishaps \cup {"lost"}
<1>1. c \in Call
  BY FlightCalls
<1>2. /\ Browser(b) /\ FlightInv(b) /\ PageInv(b)
  BY IInvIs DEF Good
<1>3. b.mishaps \subseteq m /\ "lost" \in m /\ m \in SUBSET Mishaps
  BY <1>2 DEF Browser, Mishaps
<1>4. b' = WithCalls(b, Plus(Minus(b.flight, c), d), m) /\ doc' = doc
  BY DEF Lose, WithCalls, Plus, Minus
<1>5. none \subseteq Docs /\ none \subseteq Of(c.entity)
  OBVIOUS
<1> HIDE DEF none, m
<1>6. /\ d \in Call /\ d.key = c.key /\ d.entity = c.entity /\ d.id = c.id
      /\ d.rows = none
  BY <1>1, <1>5 DEF Call
<1> HIDE DEF d
<1>7. /\ Browser(b') /\ SamePage(b, b') /\ SameItems(b, b') /\ b'.slot = b.slot
      /\ b'.flight = Plus(Minus(b.flight, c), d) /\ b'.mishaps = m
      /\ PageInv(b')
  BY <1>2, <1>3, <1>4, <1>6, ReplacedBrowser
<1>8. b'.page = b.page
  BY <1>7 DEF SamePage
<1>9. FlightInv(b')
  BY <1>2, <1>3, <1>5, <1>6, <1>7, <1>8, ReplacedFlight
<1>10. TableInv(b', Live)
  BY <1>3, <1>7 DEF TableInv
<1> QED
  BY <1>4, <1>7, <1>9, <1>10, Unserved DEF Good

-----------------------------------------------------------------------------
(***************************************************************************)
(* Answers.                                                                *)
(***************************************************************************)

\* A call is taken: only the flags of its key may change.
LEMMA TakenFlight ==
    ASSUME NEW s, NEW t, NEW c \in DOMAIN s.flight, Browser(s), FlightInv(s),
           t.page = s.page, t.flight = Minus(s.flight, c), s.mishaps \subseteq t.mishaps,
           \A k \in Keys : k # c.key => SameFlag(s, t, k)
    PROVE  FlightInv(t)
<1>1. Flight(s.flight)
  BY DEF Browser
<1>2. DOMAIN t.flight \subseteq DOMAIN s.flight
  BY <1>1, MinusIs
<1>3. \A keys : Sole(s.flight, keys) =>
         /\ Sole(t.flight, keys)
         /\ c.key \in keys => \A d \in DOMAIN t.flight : d.key \notin keys
  BY <1>1, SoleMinus
<1>4. RowsInv(t) /\ ReadInv(t)
  BY <1>2 DEF FlightInv, RowsInv, ReadInv
<1>5. ListInv(t)
  BY <1>2, <1>3 DEF FlightInv, ListInv
<1>6. DeletionInv(t)
  <2> SUFFICES ASSUME "delete" \notin t.mishaps PROVE DeletionInv(t)
    BY DEF DeletionInv
  <2> DEFINE keys == {"delete"}
  <2>1. Sole(s.flight, keys)
    BY DEF FlightInv, DeletionInv
  <2>2. /\ Sole(t.flight, keys)
        /\ c.key \in keys => \A d \in DOMAIN t.flight : d.key \notin keys
    BY <1>3, <2>1
  <2>3. CASE c.key = "delete"
    BY <2>2, <2>3 DEF DeletionInv
  <2>4. CASE c.key # "delete"
    <3>1. SameFlag(s, t, "delete")
      BY <2>4, KeysAre
    <3> QED
      BY <1>2, <2>2, <3>1 DEF FlightInv, DeletionInv, SameFlag
  <2> QED
    BY <2>3, <2>4
<1>7. SaveInv(t)
  <2> SUFFICES ASSUME "save" \notin t.mishaps PROVE SaveInv(t)
    BY DEF SaveInv
  <2>1. Sole(s.flight, Saves)
    BY DEF FlightInv, SaveInv
  <2>2. /\ Sole(t.flight, Saves)
        /\ c.key \in Saves => \A d \in DOMAIN t.flight : d.key \notin Saves
    BY <1>3, <2>1
  <2>3. CASE c.key \in Saves
    BY <2>2, <2>3 DEF SaveInv
  <2>4. CASE c.key \notin Saves
    <3>1. \A k \in Saves : SameFlag(s, t, k)
      BY <2>4, KeysAre
    <3> QED
      BY <1>2, <2>2, <3>1 DEF FlightInv, SaveInv, SameFlag
  <2> QED
    BY <2>3, <2>4
<1> QED
  BY <1>4, <1>5, <1>6, <1>7 DEF FlightInv

\* The table does not change by the answer of another key, but for a deletion.
LEMMA TableTaken ==
    ASSUME NEW s, NEW t, NEW live, NEW c \in DOMAIN s.flight, Browser(s), TableInv(s, live),
           c.key # "list", ~(c.key = "delete" /\ c.stage = "done"),
           t.page = s.page, t.rows = s.rows, t.flight = Minus(s.flight, c),
           s.mishaps \subseteq t.mishaps
    PROVE  TableInv(t, live)
<1>1. Flight(s.flight)
  BY DEF Browser
<1>2. /\ DOMAIN t.flight \subseteq DOMAIN s.flight
      /\ \A d \in DOMAIN s.flight : d # c => d \in DOMAIN t.flight
  BY <1>1, MinusIs
<1>3. Deleted(s) => Deleted(t)
  BY <1>2 DEF Deleted
<1>4. (\A d \in DOMAIN t.flight : d.key # "list") => \A d \in DOMAIN s.flight : d.key # "list"
  BY <1>2
<1> QED
  BY <1>2, <1>3, <1>4 DEF TableInv

LEMMA RefreshedIs ==
    ASSUME NEW s, Browser(s)
    PROVE  LET t == Refreshed(s)
           IN  /\ Browser(t) /\ SamePage(s, t) /\ SameItems(s, t) /\ SameCalls(s, t)
               /\ SameSlots(s, t, "recordPayment")
               /\ SameFlag(s, t, "recordPayment")
               /\ IF s.page.name = "pay"
                  THEN t.slot["recordPayment"].current = s.current
                  ELSE t.slot["recordPayment"].current = s.slot["recordPayment"].current
<1>1. CASE s.page.name = "pay"
  <2> DEFINE t == CurrentAction(s, "recordPayment", s.current)
  <2>1. s.current \in Choice
    BY DEF Browser
  <2>2. /\ Browser(t) /\ SamePage(s, t) /\ SameItems(s, t) /\ SameCalls(s, t)
        /\ SameSlots(s, t, "recordPayment")
        /\ t.slot["recordPayment"].current = s.current
        /\ t.slot["recordPayment"].isLoading = s.slot["recordPayment"].isLoading
        /\ t.slot["recordPayment"].isSuccess = s.slot["recordPayment"].isSuccess
    BY <2>1, CurrentActionIs, KeysAre
  <2>3. Refreshed(s) = t
    BY <1>1 DEF Refreshed
  <2> HIDE DEF t
  <2> QED
    BY <1>1, <2>2, <2>3 DEF SameFlag
<1>2. CASE s.page.name # "pay"
  <2>1. Refreshed(s) = s
    BY <1>2 DEF Refreshed
  <2> QED
    BY <1>2, <2>1 DEF SamePage, SameItems, SameCalls, SameSlots, SameFlag
<1> QED
  BY <1>1, <1>2

LEMMA TakenBrowser ==
    ASSUME IInv, NEW c \in DOMAIN b.flight
    PROVE  LET t == Taken(c)
           IN  /\ Browser(t) /\ SamePage(b, t) /\ SameItems(b, t) /\ t.slot = b.slot
               /\ t.flight = Minus(b.flight, c) /\ t.mishaps = b.mishaps
<1>1. Browser(b)
  BY IInvIs DEF Good
<1> QED
  BY <1>1, TakenIs DEF Taken

\* A failure.
LEMMA FailedInv ==
    ASSUME IInv, NEW c \in DOMAIN b.flight, c.key \in Keys, c.stage = "refused",
           b' = RequestFailed(Taken(c), c.key), doc' = doc
    PROVE  IInv'
<1> DEFINE k == c.key
           s == Taken(c)
           t == RequestFailed(s, k)
<1>1. /\ Browser(b) /\ FlightInv(b) /\ PageInv(b) /\ TableInv(b, Live)
  BY IInvIs DEF Good
<1>2. /\ Browser(s) /\ SamePage(b, s) /\ SameItems(b, s) /\ s.slot = b.slot
      /\ s.flight = Minus(b.flight, c) /\ s.mishaps = b.mishaps
  BY TakenBrowser
<1>3. b' = t /\ k \in Keys
  OBVIOUS
<1> HIDE DEF s, k
<1>4. /\ Browser(t) /\ SamePage(s, t) /\ SameItems(s, t) /\ SameCalls(s, t)
      /\ SameSlots(s, t, k)
      /\ t.slot[k].result = s.slot[k].result /\ t.slot[k].current = s.slot[k].current
      /\ ~t.slot[k].isLoading /\ ~t.slot[k].isSuccess
  BY <1>2, <1>3, RequestFailedIs
<1> HIDE DEF t
<1>5. /\ t.page = b.page /\ t.modal = b.modal /\ t.asked = b.asked
      /\ t.current = b.current /\ t.rows = b.rows
      /\ t.flight = Minus(b.flight, c) /\ t.mishaps = b.mishaps
  BY <1>2, <1>4 DEF SamePage, SameItems, SameCalls
<1>6. \A j \in Keys : /\ t.slot[j].result = b.slot[j].result
                      /\ t.slot[j].current = b.slot[j].current
                      /\ t.slot[j].isSuccess => b.slot[j].isSuccess
                      /\ j # k => t.slot[j] = b.slot[j]
  BY <1>2, <1>4 DEF SameSlots
<1>7. FlightInv(t)
  <2>1. \A j \in Keys : j # c.key => SameFlag(b, t, j)
    BY <1>6 DEF SameFlag, k
  <2> QED
    BY <1>1, <1>5, <2>1, TakenFlight
<1>8. PageInv(t)
  <2>1. ReadDone(t) => ReadDone(b)
    BY <1>4, <1>6, KeysAre DEF ReadDone
  <2>2. LessShown(b, t)
    BY <1>5, <1>6, <2>1, KeysAre DEF LessShown
  <2>3. ModalInv(t)
    BY <1>1, <1>5, <1>6, KeysAre DEF PageInv, ModalInv
  <2> QED
    BY <1>1, <1>5, <2>2, <2>3, PageLess
<1>9. TableInv(t, Live)
  <2>1. CASE c.key = "list"
    <3>1. "lost" \in b.mishaps
      BY <1>1, <2>1 DEF FlightInv, RowsInv
    <3> QED
      BY <1>5, <3>1 DEF TableInv
  <2>2. CASE c.key # "list"
    BY <1>1, <1>5, <2>2, TableTaken
  <2> QED
    BY <2>1, <2>2
<1> QED
  BY <1>3, <1>4, <1>7, <1>8, <1>9, Unserved DEF Good

\* The failures of all keys of the store.
LEMMA AnswerFailedInv ==
    ASSUME IInv, NEW c \in DOMAIN b.flight, NEW k \in Keys, Arrives(c, k), c.stage # "done",
           b' = RequestFailed(Taken(c), k), doc' = doc
    PROVE  IInv' /\ b'.page = b.page
<1>1. c \in Call
  BY FlightCalls
<1>2. c.key = k /\ c.stage = "refused"
  BY <1>1, CallFields DEF Arrives
<1>3. IInv'
  BY <1>2, FailedInv
<1> DEFINE s == Taken(c)
<1>4. Browser(s) /\ SamePage(b, s)
  BY TakenBrowser
<1> HIDE DEF s
<1>5. SamePage(s, RequestFailed(s, k))
  BY <1>4, RequestFailedIs
<1>6. b' = RequestFailed(s, k)
  BY DEF s
<1>7. b'.page = b.page
  BY <1>4, <1>5, <1>6 DEF SamePage
<1> QED
  BY <1>3, <1>7

LEMMA RecentIs ==
    ASSUME NEW s, NEW r \in Recent, Browser(s)
    PROVE  LET t == [s EXCEPT !.recent = r]
           IN  /\ Browser(t) /\ SameItems(s, t) /\ SameCalls(s, t) /\ t.slot = s.slot
               /\ t.page = s.page /\ t.modal = s.modal /\ t.asked = s.asked
BY DEF Browser, SameItems, SameCalls

LEMMA AnswerRecentInv ==
    ASSUME IInv, NEW c \in DOMAIN b.flight, AnswerRecent(c)
    PROVE  IInv' /\ b'.page = b.page
<1> DEFINE s == Taken(c)
           no == FALSE
           r == [rows |-> c.rows, isLoading |-> no]
           t == [s EXCEPT !.recent = r]
           call == Sent("recent", "invoice", None)
<1>1. /\ Browser(b) /\ FlightInv(b) /\ PageInv(b) /\ TableInv(b, Live)
  BY IInvIs DEF Good
<1>2. /\ c.key = "recent" /\ doc' = doc
      /\ b' = t \/ b' = Fetch(t)
  BY DEF AnswerRecent, Arrives
<1>3. c \in Call /\ c.rows \subseteq Docs
  BY FlightCalls, CallFields
<1>4. r \in Recent
  BY <1>3 DEF Recent
<1>5. /\ Browser(s) /\ SamePage(b, s) /\ SameItems(b, s) /\ s.slot = b.slot
      /\ s.flight = Minus(b.flight, c) /\ s.mishaps = b.mishaps
  BY TakenBrowser
<1> HIDE DEF s, r
<1>6. /\ Browser(t) /\ SameItems(s, t) /\ SameCalls(s, t) /\ t.slot = s.slot
      /\ t.page = s.page /\ t.modal = s.modal /\ t.asked = s.asked
  BY <1>4, <1>5, RecentIs
<1> HIDE DEF t
<1>7. /\ t.page = b.page /\ t.modal = b.modal /\ t.asked = b.asked
      /\ t.current = b.current /\ t.rows = b.rows /\ t.slot = b.slot
      /\ t.flight = Minus(b.flight, c) /\ t.mishaps = b.mishaps
  BY <1>5, <1>6 DEF SamePage, SameItems, SameCalls
<1>8. FlightInv(t)
  BY <1>1, <1>7, TakenFlight DEF SameFlag
<1>9. TableInv(t, Live)
  BY <1>1, <1>2, <1>7, TableTaken
<1>10. PageInv(t)
  <2>1. SameShown(b, t) /\ ModalInv(t)
    BY <1>1, <1>7 DEF SameShown, PageInv, ModalInv
  <2> QED
    BY <1>1, <1>7, <2>1, PageKept
<1>11. CASE b' = t
  BY <1>2, <1>6, <1>7, <1>8, <1>9, <1>10, <1>11, Unserved DEF Good
<1>12. CASE b' = Fetch(t)
  <2> DEFINE u == Fetch(t)
  <2>1. /\ Browser(u) /\ SamePage(t, u) /\ SameItems(t, u) /\ u.slot = t.slot
        /\ u.flight = Plus(t.flight, call) /\ u.mishaps = t.mishaps
    BY <1>6, FetchIs
  <2>2. FlightInv(u)
    BY <1>6, <1>8, FetchFlight
  <2>3. call \in Call /\ call.key = "recent" /\ call.stage = "sent"
    BY SentIs DEF Entities, Choice
  <2>4. b' = u
    BY <1>12
  <2> HIDE DEF u, call
  <2>5. Flight(t.flight) /\ u.page = t.page /\ u.rows = t.rows
    BY <1>6, <2>1 DEF Browser, SamePage, SameItems
  <2>6. TableInv(u, Live)
    BY <1>9, <2>1, <2>3, <2>5, TableSent
  <2>7. SameShown(t, u) /\ (ModalInv(t) => ModalInv(u))
    BY <2>1 DEF SameShown, ModalInv, SamePage, SameItems
  <2>8. PageInv(u)
    BY <1>10, <2>1, <2>7, PageKept DEF PageInv
  <2> QED
    BY <1>2, <1>7, <2>1, <2>2, <2>4, <2>5, <2>6, <2>8, Unserved DEF Good
<1> QED
  BY <1>2, <1>11, <1>12

\* A success, but for what the pages do with it.
LEMMA SuccessIs ==
    ASSUME IInv, NEW c \in DOMAIN b.flight, NEW r \in Choice, c.key \in Keys
    PROVE  LET t == RequestSuccess(Taken(c), c.key, r)
           IN  /\ Browser(t) /\ SamePage(b, t) /\ SameItems(b, t) /\ SameSlots(b, t, c.key)
               /\ t.flight = Minus(b.flight, c) /\ t.mishaps = b.mishaps
               /\ t.slot[c.key].result = r /\ t.slot[c.key].current = None
               /\ ~t.slot[c.key].isLoading /\ t.slot[c.key].isSuccess
               /\ FlightInv(t)
<1> DEFINE k == c.key
           s == Taken(c)
           t == RequestSuccess(s, k, r)
<1>1. /\ Browser(b) /\ FlightInv(b)
  BY IInvIs DEF Good
<1>2. /\ Browser(s) /\ SamePage(b, s) /\ SameItems(b, s) /\ s.slot = b.slot
      /\ s.flight = Minus(b.flight, c) /\ s.mishaps = b.mishaps
  BY TakenBrowser
<1> HIDE DEF s, k
<1>3. k \in Keys
  BY DEF k
<1>4. /\ Browser(t) /\ SamePage(s, t) /\ SameItems(s, t) /\ SameCalls(s, t)
      /\ SameSlots(s, t, k)
      /\ t.slot[k].result = r /\ t.slot[k].current = None
      /\ ~t.slot[k].isLoading /\ t.slot[k].isSuccess
  BY <1>2, <1>3, RequestSuccessIs
<1> HIDE DEF t
<1>5. SamePage(b, t) /\ SameItems(b, t) /\ SameSlots(b, t, k)
  BY <1>2, <1>4 DEF SamePage, SameItems, SameSlots
<1>6. t.flight = Minus(b.flight, c) /\ t.mishaps = b.mishaps /\ t.page = b.page
  BY <1>2, <1>4, <1>5 DEF SameCalls, SamePage
<1>7. FlightInv(t)
  <2>1. \A j \in Keys : j # c.key => SameFlag(b, t, j)
    BY <1>5 DEF SameFlag, SameSlots, k
  <2> QED
    BY <1>1, <1>6, <2>1, TakenFlight
<1> QED
  BY <1>4, <1>5, <1>6, <1>7 DEF t, s, k

\* The same, when the page takes the document that was answered.
LEMMA ItemIs ==
    ASSUME IInv, NEW c \in DOMAIN b.flight, NEW r \in Choice, c.key \in Keys
    PROVE  LET t == CurrentItem(RequestSuccess(Taken(c), c.key, r), c.id)
           IN  /\ Browser(t) /\ SamePage(b, t) /\ SameSlots(b, t, c.key)
               /\ t.rows = b.rows /\ t.current = c.id
               /\ t.flight = Minus(b.flight, c) /\ t.mishaps = b.mishaps
               /\ t.slot[c.key].result = r /\ t.slot[c.key].current = None
               /\ ~t.slot[c.key].isLoading /\ t.slot[c.key].isSuccess
               /\ FlightInv(t)
<1> DEFINE s == RequestSuccess(Taken(c), c.key, r)
           t == CurrentItem(s, c.id)
<1>1. c.id \in Choice
  BY FlightCalls, CallFields
<1>2. /\ Browser(s) /\ SamePage(b, s) /\ SameItems(b, s) /\ SameSlots(b, s, c.key)
      /\ s.flight = Minus(b.flight, c) /\ s.mishaps = b.mishaps
      /\ s.slot[c.key].result = r /\ s.slot[c.key].current = None
      /\ ~s.slot[c.key].isLoading /\ s.slot[c.key].isSuccess
      /\ FlightInv(s)
  BY SuccessIs
<1> HIDE DEF s
<1>3. /\ Browser(t) /\ SamePage(s, t) /\ SameCalls(s, t) /\ t.slot = s.slot
      /\ t.rows = s.rows /\ t.current = c.id
  BY <1>1, <1>2, CurrentItemIs
<1> HIDE DEF t
<1>4. FlightInv(t)
  BY <1>2, <1>3, FlightSame DEF SamePage, SameCalls, SameFlags
<1> QED
  BY <1>2, <1>3, <1>4 DEF SamePage, SameCalls, SameItems, SameSlots, t, s

\* The same, when the page to pay prepares the payment anew.
LEMMA RefreshedItemIs ==
    ASSUME IInv, NEW c \in DOMAIN b.flight, NEW r \in Choice, c.key \in Keys
    PROVE  LET t == Refreshed(CurrentItem(RequestSuccess(Taken(c), c.key, r), c.id))
           IN  /\ Browser(t) /\ SamePage(b, t) /\ FlightInv(t)
               /\ t.rows = b.rows /\ t.current = c.id
               /\ t.flight = Minus(b.flight, c) /\ t.mishaps = b.mishaps
               /\ \A k \in Keys : k # c.key /\ k # "recordPayment" => t.slot[k] = b.slot[k]
               /\ c.key # "recordPayment" => SameFlag(b, t, "recordPayment")
               /\ t.page.name = "pay" => t.slot["recordPayment"].current = t.current
               /\ c.key # "recordPayment" => /\ t.slot[c.key].result = r
                                             /\ t.slot[c.key].isSuccess
                                             /\ ~t.slot[c.key].isLoading
<1> DEFINE s == CurrentItem(RequestSuccess(Taken(c), c.key, r), c.id)
           t == Refreshed(s)
<1>1. /\ Browser(s) /\ SamePage(b, s) /\ SameSlots(b, s, c.key)
      /\ s.rows = b.rows /\ s.current = c.id
      /\ s.flight = Minus(b.flight, c) /\ s.mishaps = b.mishaps
      /\ s.slot[c.key].result = r
      /\ ~s.slot[c.key].isLoading /\ s.slot[c.key].isSuccess
      /\ FlightInv(s)
  BY ItemIs
<1> HIDE DEF s
<1>2. /\ Browser(t) /\ SamePage(s, t) /\ SameItems(s, t) /\ SameCalls(s, t)
      /\ SameSlots(s, t, "recordPayment")
      /\ SameFlag(s, t, "recordPayment")
      /\ s.page.name = "pay" => t.slot["recordPayment"].current = s.current
  BY <1>1, RefreshedIs
<1> HIDE DEF t
<1>3. FlightInv(t)
  <2>1. SameFlags(s, t)
    BY <1>2 DEF SameFlags, SameSlots, SameFlag
  <2> QED
    BY <1>1, <1>2, <2>1, FlightSame DEF SamePage, SameCalls
<1>4. /\ SamePage(b, t) /\ t.rows = b.rows /\ t.current = c.id
      /\ t.flight = Minus(b.flight, c) /\ t.mishaps = b.mishaps
  BY <1>1, <1>2 DEF SamePage, SameItems, SameCalls
<1>5. \A k \in Keys : k # c.key /\ k # "recordPayment" => t.slot[k] = b.slot[k]
  BY <1>1, <1>2 DEF SameSlots
<1>6. c.key # "recordPayment" => SameFlag(b, t, "recordPayment")
  BY <1>1, <1>2, KeysAre DEF SameSlots, SameFlag
<1>7. t.page.name = "pay" => t.slot["recordPayment"].current = t.current
  BY <1>1, <1>2 DEF SamePage, SameItems
<1>8. c.key # "recordPayment" => t.slot[c.key] = s.slot[c.key]
  BY <1>2 DEF SameSlots
<1> QED
  BY <1>1, <1>2, <1>3, <1>4, <1>5, <1>6, <1>7, <1>8 DEF t, s

LEMMA AnswerDeleteInv ==
    ASSUME IInv, NEW c \in DOMAIN b.flight, AnswerDelete(c)
    PROVE  IInv' /\ b'.page = b.page
<1>1. /\ Browser(b) /\ FlightInv(b) /\ PageInv(b) /\ TableInv(b, Live)
  BY IInvIs DEF Good
<1>2. Arrives(c, "delete") /\ c.key = "delete" /\ doc' = doc /\ "delete" \in Keys
  BY KeysAre DEF AnswerDelete, Arrives
<1>3. CASE c.stage # "done"
  <2>1. b' = RequestFailed(Taken(c), "delete")
    BY <1>3 DEF AnswerDelete
  <2> QED
    BY <1>2, <1>3, <2>1, AnswerFailedInv
<1>4. CASE c.stage = "done"
  <2> DEFINE s == RequestSuccess(Taken(c), "delete", None)
             changed == ~b.slot["delete"].isSuccess \/ b.slot["delete"].current # None
             closed == [s EXCEPT !.modal = FALSE]
  <2>1. b' = IF b.page.name = "list" /\ changed THEN DeleteEffect(s) ELSE s
    BY <1>4 DEF AnswerDelete
  <2>2. None \in Choice
    BY DEF Choice
  <2>3. /\ Browser(s) /\ SamePage(b, s) /\ SameItems(b, s) /\ SameSlots(b, s, "delete")
        /\ s.flight = Minus(b.flight, c) /\ s.mishaps = b.mishaps
        /\ FlightInv(s)
    BY <1>2, <2>2, SuccessIs
  <2> HIDE DEF s
  <2>4. s.page = b.page /\ s.modal = b.modal
    BY <2>3 DEF SamePage
  <2>5. SameShown(b, s)
    <3>1. \A k \in Saves : k \in Keys /\ k # "delete"
      BY KeysAre DEF Saves
    <3> QED
      BY <2>3, <2>4, <3>1, KeysAre DEF SameShown, SameItems, SameSlots
  <2>6. CASE b.page.name = "list" /\ changed
    <3>1. /\ SameItems(s, closed) /\ SameCalls(s, closed) /\ closed.slot = s.slot
          /\ closed.page = s.page /\ ~closed.modal
      BY <2>3, ClosedIs
    <3> HIDE DEF closed
    <3>2. SameShown(b, closed) /\ ModalInv(closed) /\ b.mishaps \subseteq closed.mishaps
      BY <2>3, <2>5, <3>1 DEF SameShown, SameItems, SameCalls, ModalInv
    <3>3. PageInv(closed)
      BY <1>1, <3>2, PageKept
    <3>4. Good(DeleteEffect(s)) /\ TableInv(DeleteEffect(s), Live)
      BY <2>3, <2>4, <2>6, <3>3, DeleteEffectGood DEF closed
    <3>5. b' = DeleteEffect(s)
      BY <2>1, <2>6
    <3>6. DeleteEffect(s).page = s.page
      <4>1. Browser(closed) /\ closed.page.entity \in Entities
        <5>1. Browser(closed)
          BY <2>3, ClosedIs DEF closed
        <5> QED
          BY <5>1, PageEntity
      <4>2. DeleteEffect(s) = Send(closed, "list", closed.page.entity, None)
        BY <3>1 DEF DeleteEffect, closed
      <4>3. SamePage(closed, Send(closed, "list", closed.page.entity, None))
        BY <2>2, <4>1, SendIs, KeysAre
      <4> QED
        BY <3>1, <4>2, <4>3 DEF SamePage
    <3> QED
      BY <1>2, <2>4, <3>4, <3>5, <3>6, Unserved
  <2>7. CASE ~(b.page.name = "list" /\ changed)
    <3>1. b' = s
      BY <2>1, <2>7
    <3>2. ~s.modal
      <4>1. None \notin Docs
        OBVIOUS
      <4> QED
        BY <1>1, <2>4, <2>7, <4>1 DEF PageInv, ModalInv
    <3>3. PageInv(s)
      BY <1>1, <2>3, <2>5, <3>2, PageKept DEF ModalInv
    <3>4. TableInv(s, Live)
      <4>1. CASE b.page.name # "list"
        BY <2>4, <4>1, TableElsewhere
      <4>2. CASE b.page.name = "list"
        <5>1. b.slot["delete"].isSuccess
          BY <2>7, <4>2
        <5>2. "delete" \in b.mishaps
          BY <1>1, <1>2, <5>1 DEF FlightInv, DeletionInv
        <5> QED
          BY <2>3, <5>2 DEF TableInv
      <4> QED
        BY <4>1, <4>2
    <3> QED
      BY <1>2, <2>3, <2>4, <3>1, <3>3, <3>4, Unserved DEF Good
  <2> QED
    BY <2>6, <2>7
<1> QED
  BY <1>3, <1>4

\* The answer to a creation leaves the page to create, and no other.
LEMMA AnswerCreateInv ==
    ASSUME IInv, NEW c \in DOMAIN b.flight, AnswerCreate(c)
    PROVE  IInv' /\ (b'.page = b.page \/ (c.stage = "done" /\ b.page.name = "create"))
<1>1. /\ Browser(b) /\ FlightInv(b) /\ PageInv(b) /\ TableInv(b, Live)
  BY IInvIs DEF Good
<1>2. Arrives(c, "create") /\ c.key = "create" /\ doc' = doc /\ "create" \in Keys
  BY KeysAre DEF AnswerCreate, Arrives
<1>3. CASE c.stage # "done"
  <2>1. b' = RequestFailed(Taken(c), "create")
    BY <1>3 DEF AnswerCreate
  <2>2. IInv' /\ b'.page = b.page
    BY <1>2, <1>3, <2>1, AnswerFailedInv
  <2> QED
    BY <2>2
<1>4. CASE c.stage = "done"
  <2> DEFINE s == Refreshed(CurrentItem(RequestSuccess(Taken(c), "create", c.id), c.id))
  <2>1. b' = IF b.page.name = "create" /\ ~b.slot["create"].isSuccess THEN Created(s) ELSE s
    BY <1>4 DEF AnswerCreate
  <2>2. c.id \in Choice
    BY FlightCalls, CallFields
  <2>3. /\ Browser(s) /\ SamePage(b, s) /\ FlightInv(s)
        /\ s.rows = b.rows /\ s.flight = Minus(b.flight, c) /\ s.mishaps = b.mishaps
        /\ \A k \in Keys : k # "create" /\ k # "recordPayment" => s.slot[k] = b.slot[k]
        /\ SameFlag(b, s, "recordPayment")
        /\ s.page.name = "pay" => s.slot["recordPayment"].current = s.current
    BY <1>2, <2>2, RefreshedItemIs
  <2> HIDE DEF s
  <2>4. /\ s.page = b.page /\ s.modal = b.modal /\ s.asked = b.asked
        /\ s.slot["update"] = b.slot["update"] /\ s.slot["read"] = b.slot["read"]
        /\ s.slot["delete"] = b.slot["delete"]
    BY <2>3, KeysAre DEF SamePage
  <2>5. UpdatedInv(s)
    BY <1>1, <2>3, <2>4 DEF PageInv, UpdatedInv
  <2>6. CASE b.page.name = "create" /\ ~b.slot["create"].isSuccess
    <3>1. Good(Created(s)) /\ Created(s).page.name = "read"
      BY <2>3, <2>5, CreatedGood DEF FlightInv
    <3> QED
      BY <1>2, <1>4, <2>1, <2>6, <3>1, TableElsewhere, Unserved
  <2>7. CASE ~(b.page.name = "create" /\ ~b.slot["create"].isSuccess)
    <3>1. b' = s
      BY <2>1, <2>7
    <3>2. "save" \in s.mishaps
      BY <1>1, <1>2, <2>3, <2>7, SavesAre
         DEF PageInv, CreatedInv, FlightInv, SaveInv, Sender
    <3>3. PayInv(s)
      BY <1>1, <2>3, <2>4 DEF PageInv, PayInv, SameFlag
    <3>4. ModalInv(s) /\ FormInv(s) /\ ListedInv(s)
      BY <1>1, <2>3, <2>4 DEF PageInv, ModalInv, FormInv, FormOpen, ReadDone, ListedInv
    <3>5. ShownInv(s) /\ CreatedInv(s)
      BY <3>2 DEF ShownInv, CreatedInv
    <3>6. TableInv(s, Live)
      BY <1>1, <1>2, <2>3, <2>4, TableTaken
    <3>7. Good(s)
      BY <2>3, <2>5, <3>3, <3>4, <3>5 DEF Good, PageInv
    <3>8. IInv'
      BY <1>2, <3>1, <3>6, <3>7, Unserved
    <3> QED
      BY <2>4, <3>1, <3>8
  <2> QED
    BY <2>6, <2>7
<1> QED
  BY <1>3, <1>4

\* The answer to a payment leaves the page to pay, and no other.
LEMMA AnswerPayInv ==
    ASSUME IInv, NEW c \in DOMAIN b.flight, AnswerPay(c)
    PROVE  IInv' /\ (b'.page = b.page \/ b.page.name = "pay")
<1>1. /\ Browser(b) /\ FlightInv(b) /\ PageInv(b) /\ TableInv(b, Live)
  BY IInvIs DEF Good
<1>2. /\ Arrives(c, "recordPayment") /\ c.key = "recordPayment" /\ doc' = doc
      /\ "recordPayment" \in Keys
  BY KeysAre DEF AnswerPay, Arrives
<1>3. CASE c.stage # "done"
  <2>1. b' = RequestFailed(Taken(c), "recordPayment")
    BY <1>3 DEF AnswerPay
  <2>2. IInv' /\ b'.page = b.page
    BY <1>2, <1>3, <2>1, AnswerFailedInv
  <2> QED
    BY <2>2
<1>4. CASE c.stage = "done"
  <2> DEFINE s == CurrentItem(RequestSuccess(Taken(c), "recordPayment", None), c.id)
             r == Refreshed(s)
  <2>1. b' = IF b.page.name = "pay" /\ ~b.slot["recordPayment"].isSuccess
             THEN PaymentRecorded(r) ELSE r
    BY <1>4 DEF AnswerPay
  <2>2. None \in Choice
    BY DEF Choice
  <2>3. /\ Browser(r) /\ SamePage(b, r) /\ FlightInv(r)
        /\ r.rows = b.rows /\ r.flight = Minus(b.flight, c) /\ r.mishaps = b.mishaps
        /\ \A k \in Keys : k # "recordPayment" => r.slot[k] = b.slot[k]
    BY <1>2, <2>2, RefreshedItemIs
  <2> HIDE DEF r
  <2>4. CASE b.page.name = "pay" /\ ~b.slot["recordPayment"].isSuccess
    <3>1. Good(PaymentRecorded(r)) /\ TableInv(PaymentRecorded(r), Live)
      BY <2>3, PaymentRecordedGood DEF FlightInv
    <3> QED
      BY <1>2, <2>1, <2>4, <3>1, Unserved
  <2>5. CASE ~(b.page.name = "pay" /\ ~b.slot["recordPayment"].isSuccess)
    <3>1. b' = r /\ b.page.name # "pay"
      BY <1>1, <2>1, <2>5 DEF PageInv, PayInv
    <3>2. "save" \in r.mishaps
      BY <1>1, <1>2, <2>3, <3>1, SavesAre DEF FlightInv, SaveInv, Sender
    <3>3. /\ r.page = b.page /\ r.modal = b.modal /\ r.asked = b.asked
          /\ r.slot["update"] = b.slot["update"] /\ r.slot["read"] = b.slot["read"]
          /\ r.slot["create"] = b.slot["create"] /\ r.slot["delete"] = b.slot["delete"]
      BY <2>3, KeysAre DEF SamePage
    <3>4. PayInv(r)
      BY <3>1, <3>3 DEF PayInv
    <3>5. ModalInv(r) /\ FormInv(r) /\ ListedInv(r)
      BY <1>1, <2>3, <3>3 DEF PageInv, ModalInv, FormInv, FormOpen, ReadDone, ListedInv
    <3>6. ShownInv(r) /\ CreatedInv(r) /\ UpdatedInv(r)
      BY <3>2 DEF ShownInv, CreatedInv, UpdatedInv
    <3>7. TableInv(r, Live)
      BY <1>1, <1>2, <2>3, <3>3, TableTaken
    <3> QED
      BY <1>2, <2>3, <3>1, <3>3, <3>4, <3>5, <3>6, <3>7, Unserved DEF Good, PageInv
  <2> QED
    BY <2>4, <2>5
<1> QED
  BY <1>3, <1>4

\* The answer to a save leaves the form of its document.
LEMMA AnswerUpdateInv ==
    ASSUME IInv, NEW c \in DOMAIN b.flight, AnswerUpdate(c)
    PROVE  IInv' /\ (b'.page = b.page \/ (c.stage = "done" /\ b.page.name = "update"))
<1>1. /\ Browser(b) /\ FlightInv(b) /\ PageInv(b) /\ TableInv(b, Live)
  BY IInvIs DEF Good
<1>2. Arrives(c, "update") /\ c.key = "update" /\ doc' = doc /\ "update" \in Keys
  BY KeysAre DEF AnswerUpdate, Arrives
<1>3. CASE c.stage # "done"
  <2>1. b' = RequestFailed(Taken(c), "update")
    BY <1>3 DEF AnswerUpdate
  <2>2. IInv' /\ b'.page = b.page
    BY <1>2, <1>3, <2>1, AnswerFailedInv
  <2> QED
    BY <2>2
<1>4. CASE c.stage = "done"
  <2> DEFINE s == Refreshed(CurrentItem(RequestSuccess(Taken(c), "update", None), c.id))
             read == b.slot["read"].result
             m == {"save"}
             t == [s EXCEPT !.mishaps = @ \cup m]
  <2>1. b' = IF FormOpen(b) /\ ~b.slot["update"].isSuccess
             THEN IF b.page.entity = "invoice" THEN Saved(s) ELSE SavedPayment(s, read)
             ELSE t
    BY <1>4 DEF AnswerUpdate
  <2>2. None \in Choice /\ read \in Choice
    BY <1>1, KeysAre, SlotFields DEF Choice, Browser
  <2>3. /\ Browser(s) /\ SamePage(b, s) /\ FlightInv(s)
        /\ s.rows = b.rows /\ s.current = c.id
        /\ s.flight = Minus(b.flight, c) /\ s.mishaps = b.mishaps
        /\ \A k \in Keys : k # "update" /\ k # "recordPayment" => s.slot[k] = b.slot[k]
        /\ SameFlag(b, s, "recordPayment")
        /\ s.page.name = "pay" => s.slot["recordPayment"].current = s.current
    BY <1>2, <2>2, RefreshedItemIs
  <2>4. m \in SUBSET Mishaps /\ "save" \in m
    BY DEF Mishaps
  <2> HIDE DEF s, m
  <2>5. /\ s.page = b.page /\ s.modal = b.modal /\ s.asked = b.asked
        /\ s.slot["create"] = b.slot["create"] /\ s.slot["read"] = b.slot["read"]
        /\ s.slot["delete"] = b.slot["delete"]
    BY <2>3, KeysAre DEF SamePage
  <2>6. CASE FormOpen(b) /\ ~b.slot["update"].isSuccess
    <3>1. RowsInv(s) /\ CreatedInv(s)
      BY <1>1, <2>3, <2>5 DEF FlightInv, PageInv, CreatedInv
    <3>2. s.current = read \/ Excused(s)
      BY <1>1, <1>2, <2>3, <2>6, SavesAre
         DEF PageInv, FormInv, FlightInv, SaveInv, Excused
    <3>3. Good(Saved(s)) /\ Saved(s).page.name = "read"
      BY <2>3, <3>1, SavedGood
    <3>4. Good(SavedPayment(s, read)) /\ SavedPayment(s, read).page.name = "read"
      BY <2>2, <2>3, <3>1, <3>2, SavedPaymentGood
    <3>5. b' \in {Saved(s), SavedPayment(s, read)} /\ b.page.name = "update"
      BY <2>1, <2>6 DEF FormOpen
    <3> QED
      BY <1>2, <1>4, <3>3, <3>4, <3>5, TableElsewhere, Unserved
  <2>7. CASE ~(FormOpen(b) /\ ~b.slot["update"].isSuccess)
    <3>1. b' = t /\ ~FormOpen(b)
      BY <1>1, <2>1, <2>7 DEF PageInv, FormInv, FormOpen
    <3>2. /\ Browser(t) /\ SamePage(s, t) /\ SameItems(s, t) /\ t.slot = s.slot
          /\ t.flight = s.flight /\ s.mishaps \subseteq t.mishaps /\ m \subseteq t.mishaps
      BY <2>3, <2>4, NotedIs
    <3> HIDE DEF t
    <3>3. /\ t.page = b.page /\ t.modal = b.modal /\ t.asked = b.asked
          /\ t.rows = b.rows /\ t.current = s.current /\ "save" \in t.mishaps
      BY <2>3, <2>4, <2>5, <3>2 DEF SamePage, SameItems
    <3>4. FlightInv(t)
      BY <2>3, <3>2, FlightSame DEF SamePage, SameFlags
    <3>5. PayInv(t)
      BY <1>1, <2>3, <2>5, <3>2, <3>3 DEF PageInv, PayInv, SameFlag
    <3>6. ModalInv(t) /\ FormInv(t) /\ ListedInv(t)
      BY <1>1, <2>3, <2>5, <3>1, <3>2, <3>3
         DEF PageInv, ModalInv, FormInv, FormOpen, ReadDone, ListedInv
    <3>7. ShownInv(t) /\ CreatedInv(t) /\ UpdatedInv(t)
      BY <3>3 DEF ShownInv, CreatedInv, UpdatedInv
    <3>8. TableInv(t, Live)
      BY <1>1, <1>2, <2>3, <3>2, <3>3, TableTaken
    <3>9. Good(t)
      BY <3>2, <3>4, <3>5, <3>6, <3>7 DEF Good, PageInv
    <3>10. IInv'
      BY <1>2, <3>1, <3>8, <3>9, Unserved
    <3> QED
      BY <3>1, <3>3, <3>10
  <2> QED
    BY <2>6, <2>7
<1> QED
  BY <1>3, <1>4

\* The answer to a read: the document is the current item.
LEMMA ReadIs ==
    ASSUME IInv, NEW c \in DOMAIN b.flight, c.key = "read"
    PROVE  LET t == RequestSuccess(CurrentItem(Taken(c), c.id), "read", c.id)
           IN  /\ Browser(t) /\ SamePage(b, t) /\ SameSlots(b, t, "read")
               /\ t.rows = b.rows /\ t.current = c.id
               /\ t.flight = Minus(b.flight, c) /\ t.mishaps = b.mishaps
               /\ t.slot["read"].result = c.id
               /\ ~t.slot["read"].isLoading /\ t.slot["read"].isSuccess
               /\ FlightInv(t)
<1> DEFINE s == Taken(c)
           r == CurrentItem(s, c.id)
           t == RequestSuccess(r, "read", c.id)
<1>1. c.id \in Choice /\ Browser(b) /\ FlightInv(b) /\ "read" \in Keys
  BY FlightCalls, CallFields, IInvIs, KeysAre DEF Good
<1>2. /\ Browser(s) /\ SamePage(b, s) /\ SameItems(b, s) /\ s.slot = b.slot
      /\ s.flight = Minus(b.flight, c) /\ s.mishaps = b.mishaps
  BY TakenBrowser
<1> HIDE DEF s
<1>3. /\ Browser(r) /\ SamePage(s, r) /\ SameCalls(s, r) /\ r.slot = s.slot
      /\ r.rows = s.rows /\ r.current = c.id
  BY <1>1, <1>2, CurrentItemIs
<1> HIDE DEF r
<1>4. /\ Browser(t) /\ SamePage(r, t) /\ SameItems(r, t) /\ SameCalls(r, t)
      /\ SameSlots(r, t, "read")
      /\ t.slot["read"].result = c.id
      /\ ~t.slot["read"].isLoading /\ t.slot["read"].isSuccess
  BY <1>1, <1>3, RequestSuccessIs
<1> HIDE DEF t
<1>5. SamePage(b, t) /\ SameSlots(b, t, "read")
  BY <1>2, <1>3, <1>4 DEF SamePage, SameSlots
<1>6. /\ t.rows = b.rows /\ t.current = c.id
      /\ t.flight = Minus(b.flight, c) /\ t.mishaps = b.mishaps
  BY <1>2, <1>3, <1>4 DEF SameItems, SameCalls
<1>7. FlightInv(t)
  <2>1. \A j \in Keys : j # c.key => SameFlag(b, t, j)
    BY <1>5 DEF SameFlag, SameSlots
  <2> QED
    BY <1>1, <1>5, <1>6, <2>1, TakenFlight DEF SamePage
<1> QED
  BY <1>4, <1>5, <1>6, <1>7 DEF t, r, s

\* What the pages make of it.
Given(s, id) ==
    IF s.page.name = "update" THEN CurrentAction(s, "update", id) ELSE Refreshed(s)

LEMMA GivenIs ==
    ASSUME NEW s, NEW id \in Choice, Browser(s), FlightInv(s)
    PROVE  LET t == Given(s, id)
           IN  /\ Browser(t) /\ SamePage(s, t) /\ SameItems(s, t) /\ SameCalls(s, t)
               /\ \A k \in {"read", "create", "delete"} : t.slot[k] = s.slot[k]
               /\ SameFlag(s, t, "update") /\ SameFlag(s, t, "recordPayment")
               /\ s.page.name = "update" => t.slot["update"].current = id
               /\ s.page.name = "pay" => t.slot["recordPayment"].current = s.current
               /\ FlightInv(t)
<1> DEFINE t == Given(s, id)
<1>1. /\ Browser(t) /\ SamePage(s, t) /\ SameItems(s, t) /\ SameCalls(s, t)
      /\ SameFlags(s, t)
      /\ \A k \in {"read", "create", "delete"} : t.slot[k] = s.slot[k]
      /\ s.page.name = "update" => t.slot["update"].current = id
      /\ s.page.name = "pay" => t.slot["recordPayment"].current = s.current
  <2>1. CASE s.page.name = "update"
    <3> DEFINE u == CurrentAction(s, "update", id)
    <3>1. /\ Browser(u) /\ SamePage(s, u) /\ SameItems(s, u) /\ SameCalls(s, u)
          /\ SameSlots(s, u, "update")
          /\ u.slot["update"].current = id
          /\ u.slot["update"].isLoading = s.slot["update"].isLoading
          /\ u.slot["update"].isSuccess = s.slot["update"].isSuccess
      BY CurrentActionIs, KeysAre
    <3>2. t = u
      BY <2>1 DEF Given
    <3> HIDE DEF u, t
    <3>3. SameFlags(s, u)
      BY <3>1 DEF SameFlags, SameSlots
    <3> QED
      BY <2>1, <3>1, <3>2, <3>3, KeysAre DEF SameSlots
  <2>2. CASE s.page.name # "update"
    <3> DEFINE u == Refreshed(s)
    <3>1. /\ Browser(u) /\ SamePage(s, u) /\ SameItems(s, u) /\ SameCalls(s, u)
          /\ SameSlots(s, u, "recordPayment")
          /\ SameFlag(s, u, "recordPayment")
          /\ s.page.name = "pay" => u.slot["recordPayment"].current = s.current
      BY RefreshedIs
    <3>2. t = u
      BY <2>2 DEF Given
    <3> HIDE DEF u, t
    <3>3. SameFlags(s, u)
      BY <3>1 DEF SameFlags, SameSlots, SameFlag
    <3> QED
      BY <2>2, <3>1, <3>2, <3>3, KeysAre DEF SameSlots
  <2> QED
    BY <2>1, <2>2
<1> HIDE DEF t
<1>2. FlightInv(t)
  BY <1>1, FlightSame DEF SamePage, SameCalls
<1>3. SameFlag(s, t, "update") /\ SameFlag(s, t, "recordPayment")
  BY <1>1, KeysAre DEF SameFlags, SameFlag
<1> QED
  BY <1>1, <1>2, <1>3 DEF t

\* The answer to a read leaves a form only on the success of an earlier save.
LEMMA AnswerReadInv ==
    ASSUME IInv, NEW c \in DOMAIN b.flight, AnswerRead(c)
    PROVE  /\ IInv'
           /\ \/ b'.page = b.page
              \/ b.page.name = "update" /\ b.slot["update"].isSuccess
<1>1. /\ Browser(b) /\ FlightInv(b) /\ PageInv(b) /\ TableInv(b, Live)
  BY IInvIs DEF Good
<1>2. Arrives(c, "read") /\ c.key = "read" /\ doc' = doc /\ "read" \in Keys
  BY KeysAre DEF AnswerRead, Arrives
<1>3. CASE c.stage # "done"
  <2>1. b' = RequestFailed(Taken(c), "read")
    BY <1>3 DEF AnswerRead
  <2>2. IInv' /\ b'.page = b.page
    BY <1>2, <1>3, <2>1, AnswerFailedInv
  <2> QED
    BY <2>2
<1>4. CASE c.stage = "done"
  <2> DEFINE s == RequestSuccess(CurrentItem(Taken(c), c.id), "read", c.id)
             t == Given(s, c.id)
             closed == b.page.name = "update" /\ b.slot["update"].isSuccess /\ ~ReadDone(b)
  <2>1. b' = IF closed
             THEN IF b.page.entity = "invoice" THEN Saved(t) ELSE SavedPayment(t, c.id)
             ELSE t
    BY <1>4 DEF AnswerRead, Given
  <2>2. c.id \in Choice
    BY FlightCalls, CallFields
  <2>3. /\ Browser(s) /\ SamePage(b, s) /\ SameSlots(b, s, "read")
        /\ s.rows = b.rows /\ s.current = c.id
        /\ s.flight = Minus(b.flight, c) /\ s.mishaps = b.mishaps
        /\ s.slot["read"].result = c.id
        /\ ~s.slot["read"].isLoading /\ s.slot["read"].isSuccess
        /\ FlightInv(s)
    BY <1>2, ReadIs
  <2> HIDE DEF s
  <2>4. /\ Browser(t) /\ SamePage(s, t) /\ SameItems(s, t) /\ SameCalls(s, t)
        /\ \A k \in {"read", "create", "delete"} : t.slot[k] = s.slot[k]
        /\ SameFlag(s, t, "update") /\ SameFlag(s, t, "recordPayment")
        /\ s.page.name = "update" => t.slot["update"].current = c.id
        /\ s.page.name = "pay" => t.slot["recordPayment"].current = s.current
        /\ FlightInv(t)
    BY <2>2, <2>3, GivenIs
  <2> HIDE DEF t
  <2>5. /\ t.page = b.page /\ t.modal = b.modal /\ t.asked = b.asked
        /\ t.rows = b.rows /\ t.current = c.id
        /\ t.flight = Minus(b.flight, c) /\ t.mishaps = b.mishaps
    BY <2>3, <2>4 DEF SamePage, SameItems, SameCalls
  <2>6. /\ t.slot["read"].result = c.id
        /\ t.slot["create"] = b.slot["create"] /\ t.slot["delete"] = b.slot["delete"]
        /\ SameFlag(b, t, "update") /\ SameFlag(b, t, "recordPayment")
    BY <2>3, <2>4, KeysAre DEF SameSlots, SameFlag
  <2>7. /\ b.page.name = "update" => t.slot["update"].current = c.id
        /\ b.page.name = "pay" => t.slot["recordPayment"].current = t.current
    BY <2>3, <2>4 DEF SamePage, SameItems
  <2>8. CreatedInv(t) /\ UpdatedInv(t)
    BY <1>1, <2>5, <2>6 DEF PageInv, CreatedInv, UpdatedInv, SameFlag
  <2>9. CASE closed
    <3>1. Good(Saved(t)) /\ Saved(t).page.name = "read"
      BY <2>4, <2>8, SavedGood DEF FlightInv
    <3>2. Good(SavedPayment(t, c.id)) /\ SavedPayment(t, c.id).page.name = "read"
      BY <2>2, <2>4, <2>5, <2>8, SavedPaymentGood DEF FlightInv
    <3>3. b' \in {Saved(t), SavedPayment(t, c.id)}
      BY <2>1, <2>9
    <3>4. IInv'
      BY <1>2, <3>1, <3>2, <3>3, TableElsewhere, Unserved
    <3> QED
      BY <2>9, <3>4
  <2>10. CASE ~closed
    <3>1. b' = t
      BY <2>1, <2>10
    <3>2. "read" \notin b.mishaps => c.id = b.page.id
      BY <1>1, <1>2 DEF FlightInv, ReadInv
    <3>3. PayInv(t)
      BY <1>1, <2>5, <2>6, <2>7 DEF PageInv, PayInv, SameFlag
    <3>4. FormInv(t)
      <4>1. b.page.name = "update" => ~t.slot["update"].isSuccess
        BY <1>1, <2>6, <2>10 DEF PageInv, FormInv, SameFlag
      <4> QED
        BY <2>5, <2>6, <2>7, <3>2, <4>1 DEF FormInv, FormOpen
    <3>5. ModalInv(t) /\ ListedInv(t)
      BY <1>1, <2>5, <2>6 DEF PageInv, ModalInv, ListedInv
    <3>6. ShownInv(t)
      BY <2>5, <3>2 DEF ShownInv
    <3>7. Good(t)
      BY <2>4, <2>8, <3>3, <3>4, <3>5, <3>6 DEF Good, PageInv
    <3>8. TableInv(t, Live)
      BY <1>1, <1>2, <2>5, TableTaken
    <3>9. IInv'
      BY <1>2, <3>1, <3>7, <3>8, Unserved
    <3> QED
      BY <2>5, <3>1, <3>9
  <2> QED
    BY <2>9, <2>10
<1> QED
  BY <1>3, <1>4

LEMMA FilledIs ==
    ASSUME NEW s, NEW rows \in SUBSET Docs, Browser(s)
    PROVE  LET t == [s EXCEPT !.rows = rows]
           IN  /\ Browser(t) /\ SamePage(s, t) /\ SameCalls(s, t) /\ t.slot = s.slot
               /\ t.current = s.current /\ t.rows = rows
BY DEF Browser, SamePage, SameCalls

\* The answer to a list fills the table.
LEMMA ListIs ==
    ASSUME IInv, NEW c \in DOMAIN b.flight, c.key = "list"
    PROVE  LET t == [RequestSuccess(Taken(c), "list", None) EXCEPT !.rows = c.rows]
           IN  /\ Browser(t) /\ SamePage(b, t) /\ SameSlots(b, t, "list")
               /\ t.current = b.current /\ t.rows = c.rows
               /\ t.flight = Minus(b.flight, c) /\ t.mishaps = b.mishaps
               /\ FlightInv(t)
<1> DEFINE s == RequestSuccess(Taken(c), "list", None)
           rows == c.rows
           t == [s EXCEPT !.rows = rows]
<1>1. None \in Choice /\ "list" \in Keys /\ rows \in SUBSET Docs
  BY FlightCalls, CallFields, KeysAre DEF Choice
<1>2. /\ Browser(s) /\ SamePage(b, s) /\ SameItems(b, s) /\ SameSlots(b, s, "list")
      /\ s.flight = Minus(b.flight, c) /\ s.mishaps = b.mishaps
      /\ FlightInv(s)
  BY <1>1, SuccessIs
<1> HIDE DEF s, rows
<1>3. /\ Browser(t) /\ SamePage(s, t) /\ SameCalls(s, t) /\ t.slot = s.slot
      /\ t.current = s.current /\ t.rows = rows
  BY <1>1, <1>2, FilledIs
<1> HIDE DEF t
<1>4. FlightInv(t)
  BY <1>2, <1>3, FlightSame DEF SamePage, SameCalls, SameFlags
<1> QED
  BY <1>2, <1>3, <1>4 DEF SamePage, SameCalls, SameItems, SameSlots, t, s, rows

\* A page that shows a row of the table takes it again.
LEMMA RelistedIs ==
    ASSUME NEW s, NEW old, Browser(s), FlightInv(s)
    PROVE  LET t == Relisted(s, old)
           IN  /\ Browser(t) /\ SamePage(s, t) /\ t.rows = s.rows /\ SameSlots(s, t, "read")
               /\ t.slot["read"].result = s.slot["read"].result
               /\ ReadDone(t) => ReadDone(s)
               /\ t.current = s.current \/ t.current = s.page.id
               /\ t.mishaps = s.mishaps
               /\ s.page.name = "list" => t.flight = s.flight
               /\ FlightInv(t)
<1> DEFINE t == TakeRow(s, s.page.entity, s.page.id)
<1>1. CASE Relisted(s, old) = s
  BY <1>1 DEF SamePage, SameSlots
<1>2. CASE Relisted(s, old) # s
  <2>1. Relisted(s, old) = t /\ s.page.name # "list"
    BY <1>2 DEF Relisted
  <2>2. s.page.entity \in Entities /\ s.page.id \in Choice
    BY PageEntity
  <2>3. /\ Browser(t) /\ SamePage(s, t) /\ t.rows = s.rows /\ SameSlots(s, t, "read")
        /\ t.slot["read"].result = s.slot["read"].result
        /\ t.slot["read"].isSuccess = s.slot["read"].isSuccess
        /\ t.slot["read"].isLoading \/ t.slot["read"].isLoading = s.slot["read"].isLoading
        /\ t.current = s.page.id \/ t.current = s.current
        /\ t.mishaps = s.mishaps
        /\ FlightInv(t)
    BY <2>2, TakeRowIs
  <2> HIDE DEF t
  <2>4. ReadDone(t) => ReadDone(s)
    BY <2>3 DEF ReadDone
  <2> QED
    BY <2>1, <2>3, <2>4
<1> QED
  BY <1>1, <1>2

\* The answer to a list stays on its page.
LEMMA AnswerListInv ==
    ASSUME IInv, NEW c \in DOMAIN b.flight, AnswerList(c)
    PROVE  IInv' /\ b'.page = b.page
<1>1. /\ Browser(b) /\ FlightInv(b) /\ PageInv(b) /\ TableInv(b, Live)
  BY IInvIs DEF Good
<1>2. Arrives(c, "list") /\ c.key = "list" /\ doc' = doc /\ "list" \in Keys
  BY KeysAre DEF AnswerList, Arrives
<1>3. CASE c.stage # "done"
  <2>1. b' = RequestFailed(Taken(c), "list")
    BY <1>3 DEF AnswerList
  <2> QED
    BY <1>2, <1>3, <2>1, AnswerFailedInv
<1>4. CASE c.stage = "done"
  <2> DEFINE s == [RequestSuccess(Taken(c), "list", None) EXCEPT !.rows = c.rows]
             r == Relisted(s, b.rows)
             t == Refreshed(r)
  <2>1. b' = t
    BY <1>4 DEF AnswerList
  <2>2. /\ Browser(s) /\ SamePage(b, s) /\ SameSlots(b, s, "list")
        /\ s.current = b.current /\ s.rows = c.rows
        /\ s.flight = Minus(b.flight, c) /\ s.mishaps = b.mishaps
        /\ FlightInv(s)
    BY <1>2, ListIs
  <2> HIDE DEF s
  <2>3. /\ Browser(r) /\ SamePage(s, r) /\ r.rows = s.rows /\ SameSlots(s, r, "read")
        /\ r.slot["read"].result = s.slot["read"].result
        /\ ReadDone(r) => ReadDone(s)
        /\ r.current = s.current \/ r.current = s.page.id
        /\ r.mishaps = s.mishaps
        /\ s.page.name = "list" => r.flight = s.flight
        /\ FlightInv(r)
    BY <2>2, RelistedIs
  <2> HIDE DEF r
  <2>4. /\ Browser(t) /\ SamePage(r, t) /\ SameItems(r, t) /\ SameCalls(r, t)
        /\ SameSlots(r, t, "recordPayment")
        /\ SameFlag(r, t, "recordPayment")
        /\ r.page.name = "pay" => t.slot["recordPayment"].current = r.current
    BY <2>3, RefreshedIs
  <2> HIDE DEF t
  <2>5. /\ t.page = b.page /\ t.modal = b.modal /\ t.asked = b.asked
        /\ t.rows = c.rows /\ t.mishaps = b.mishaps
        /\ t.current = b.current \/ t.current = b.page.id
        /\ b.page.name = "list" => t.flight = Minus(b.flight, c)
    BY <2>2, <2>3, <2>4 DEF SamePage, SameItems, SameCalls
  <2>6. /\ \A k \in {"create", "update", "delete"} : t.slot[k] = b.slot[k]
        /\ t.slot["read"].result = b.slot["read"].result
        /\ t.slot["recordPayment"].isSuccess = b.slot["recordPayment"].isSuccess
    BY <2>2, <2>3, <2>4, KeysAre DEF SameSlots, SameFlag
  <2>7. b.page.name = "pay" => t.slot["recordPayment"].current = t.current
    BY <2>2, <2>3, <2>4 DEF SamePage, SameItems
  <2>8. ReadDone(t) => ReadDone(b)
    BY <2>2, <2>3, <2>4, KeysAre DEF SameSlots, ReadDone
  <2>9. FlightInv(t)
    <3>1. SameFlags(r, t)
      BY <2>4 DEF SameFlags, SameSlots, SameFlag
    <3> QED
      BY <2>3, <2>4, <3>1, FlightSame DEF SamePage, SameCalls
  <2>10. PayInv(t) /\ ModalInv(t)
    BY <1>1, <2>5, <2>6, <2>7 DEF PageInv, PayInv, ModalInv
  <2>11. FormInv(t)
    BY <1>1, <2>5, <2>6, <2>8 DEF PageInv, FormInv, FormOpen
  <2>12. "list" \notin b.mishaps =>
            /\ c.rows \subseteq Of(b.page.entity)
            /\ \A d \in DOMAIN Minus(b.flight, c) : d.key # "list"
    <3>1. "list" \notin b.mishaps =>
             Sole(b.flight, {"list"}) /\ c.entity = b.page.entity
      BY <1>1, <1>2 DEF FlightInv, ListInv
    <3>2. c.rows \subseteq Of(c.entity)
      BY FlightCalls
    <3>3. Sole(b.flight, {"list"}) => \A d \in DOMAIN Minus(b.flight, c) : d.key # "list"
      BY <1>1, <1>2, SoleMinus DEF Browser
    <3> QED
      BY <3>1, <3>2, <3>3
  <2>13. ListedInv(t)
    BY <2>5, <2>12 DEF ListedInv
  <2>14. ShownInv(t)
    <3>1. PageOpen(t) => PageOpen(b) \/ t.current = b.page.id
      BY <2>5, <2>8 DEF PageOpen, InvoiceOpen, PaymentOpen, PayOpen
    <3> QED
      BY <1>1, <2>5, <3>1 DEF PageInv, ShownInv
  <2>15. CreatedInv(t) /\ UpdatedInv(t)
    BY <1>1, <2>5, <2>6 DEF PageInv, CreatedInv, UpdatedInv
  <2>16. TableInv(t, Live)
    <3>1. CASE b.page.name # "list" \/ "list" \in b.mishaps
      BY <2>5, <3>1 DEF TableInv
    <3>2. CASE b.page.name = "list" /\ "list" \notin b.mishaps
      <4>1. \A d \in DOMAIN b.flight : d # c => d \in DOMAIN t.flight
        BY <1>1, <2>5, <3>2, MinusIs DEF Browser
      <4>2. Deleted(b) => Deleted(t)
        BY <1>2, <4>1 DEF Deleted
      <4>3. \A d \in DOMAIN t.flight : d.key # "list"
        BY <2>5, <2>12, <3>2
      <4> QED
        BY <1>1, <1>2, <1>4, <2>5, <4>2, <4>3 DEF TableInv
    <3> QED
      BY <3>1, <3>2
  <2>17. Good(t)
    BY <2>4, <2>9, <2>10, <2>11, <2>13, <2>14, <2>15 DEF Good, PageInv
  <2>18. IInv'
    BY <1>2, <2>1, <2>16, <2>17, Unserved
  <2> QED
    BY <2>1, <2>5, <2>18
<1> QED
  BY <1>3, <1>4

-----------------------------------------------------------------------------
(***************************************************************************)
(* The theorems.                                                           *)
(***************************************************************************)

LEMMA InitInv == Init => IInv
<1> SUFFICES ASSUME Init PROVE IInv
  OBVIOUS
<1> DEFINE s == [page |-> [name |-> "list", entity |-> "invoice", id |-> None],
                 current |-> None, rows |-> {}, slot |-> [k \in Keys |-> InitialSlot],
                 recent |-> NoRecent, modal |-> FALSE, asked |-> None,
                 flight |-> EmptyBag, mishaps |-> {}]
<1>1. Flight(EmptyBag) /\ DOMAIN EmptyBag = {}
  BY DEF Flight, EmptyBag, SetToBag
<1>2. s.page \in Page /\ s.slot \in [Keys -> Slot] /\ None \in Choice
  BY DEF Page, Entities, Choice, Slot, InitialSlot
<1>3. Browser(s)
  BY <1>1, <1>2, NoRecentIs DEF Browser
<1>4. RowsInv(s)
  BY <1>1 DEF RowsInv
<1>5. "invoice" \in Entities /\ b = OpenList(s, "invoice")
  BY DEF Init, Entities
<1> HIDE DEF s
<1>6. Good(b) /\ TableInv(b, Live)
  BY <1>3, <1>4, <1>5, OpenListGood
<1>7. doc \in [Docs -> {"absent", "live", "removed"}]
  BY DEF Init
<1> QED
  BY <1>6, <1>7, IInvIs

LEMMA UserInv ==
    ASSUME IInv, User
    PROVE  IInv'
<1>1. CASE \E entity \in Entities : GoToList(entity)
  BY <1>1, GoToListInv
<1>2. CASE UseTable
  <2>1. CASE LoadTable
    BY <2>1, LoadTableInv
  <2>2. CASE NewInvoice
    BY <2>2, NewInvoiceInv
  <2>3. CASE \E d \in Docs : ShowRow(d) \/ EditRow(d) \/ PayRow(d) \/ DeleteRow(d)
    BY <2>3, ShowInv, EditInv, PayRowInv, DeleteRowInv
  <2> QED
    BY <1>2, <2>1, <2>2, <2>3 DEF UseTable
<1>3. CASE ConfirmDelete
  BY <1>3, ConfirmDeleteInv
<1>4. CASE CancelDelete
  BY <1>4, CancelDeleteInv
<1>5. CASE GoToDashboard
  BY <1>5, GoToDashboardInv
<1>6. CASE \E d \in Docs : ShowRecent(d) \/ EditRecent(d)
  BY <1>6, ShowInv, EditInv
<1>7. CASE EditShown
  BY <1>7, EditInv
<1>8. CASE SaveInvoice \/ SaveNew
  BY <1>8, NotedSaveInv
<1>9. CASE SavePayment \/ Pay
  BY <1>9, WaitingSaveInv
<1>10. CASE ShowInvoice
  BY <1>10, ShowInvoiceInv
<1> QED
  BY <1>1, <1>2, <1>3, <1>4, <1>5, <1>6, <1>7, <1>8, <1>9, <1>10 DEF User

LEMMA CallInv ==
    ASSUME IInv, NEW c \in DOMAIN b.flight, Serve(c) \/ Answer(c) \/ Lose(c)
    PROVE  IInv'
<1>1. CASE Serve(c)
  BY <1>1, ServeListInv, ServeOtherInv, ServeCreateInv, ServeDeleteInv DEF Serve
<1>2. CASE Answer(c)
  BY <1>2, AnswerListInv, AnswerReadInv, AnswerUpdateInv, AnswerCreateInv, AnswerPayInv,
     AnswerDeleteInv, AnswerRecentInv DEF Answer
<1>3. CASE Lose(c)
  BY <1>3, LoseInv
<1> QED
  BY <1>1, <1>2, <1>3

LEMMA NextInv == IInv /\ [Next]_vars => IInv'
<1> SUFFICES ASSUME IInv, [Next]_vars PROVE IInv'
  OBVIOUS
<1>1. CASE User
  BY <1>1, UserInv
<1>2. CASE \E c \in BagToSet(b.flight) : Serve(c) \/ Answer(c) \/ Lose(c)
  BY <1>2, FlightCalls, CallInv
<1>3. CASE UNCHANGED vars
  <2>1. b' = b /\ doc' = doc
    BY <1>3 DEF vars
  <2>2. Good(b) /\ TableInv(b, Live)
    BY IInvIs
  <2> QED
    BY <2>1, <2>2, Unserved
<1> QED
  BY <1>1, <1>2, <1>3 DEF Next

\* Whatever the user does while calls are in flight, and whatever is answered,
\* lost or late: what the theorems below rest on.
THEOREM Invariant == Spec => []IInv
BY InitInv, NextInv, PTL DEF Spec

\* The store, the page and the calls in flight keep their types.
THEOREM TypeCorrect == Spec => []TypeOK
<1>1. IInv => TypeOK
  <2> SUFFICES ASSUME IInv PROVE TypeOK
    OBVIOUS
  <2>1. Browser(b) /\ doc \in [Docs -> {"absent", "live", "removed"}]
    BY IInvIs DEF Good
  <2>2. \A c \in BagToSet(b.flight) : c \in Call
    BY FlightCalls
  <2> QED
    BY <2>1, <2>2 DEF TypeOK, Browser
<1> QED
  BY <1>1, Invariant, PTL

\* The form of an edit page is saved under the id of the path: it is filled
\* with that document, unless an earlier read was left behind.
THEOREM EditsItsDocumentAlways == Spec => []EditsItsDocument
<1>1. IInv => EditsItsDocument
  <2> SUFFICES ASSUME IInv, FormOpen(b), "read" \notin b.mishaps PROVE Form(b) = b.page.id
    BY DEF EditsItsDocument
  <2>1. FormInv(b)
    BY IInvIs DEF Good, PageInv
  <2> QED
    BY <2>1 DEF FormInv, Form
<1> QED
  BY <1>1, Invariant, PTL

\* A read page and the page to pay show the document of their path, unless
\* the answer to an earlier read or save replaced the current item.
THEOREM ShowsItsDocumentAlways == Spec => []ShowsItsDocument
<1>1. IInv => ShowsItsDocument
  <2>1. IInv => ShownInv(b)
    BY IInvIs DEF Good, PageInv
  <2> QED
    BY <2>1 DEF ShownInv, ShowsItsDocument, Shown
<1> QED
  BY <1>1, Invariant, PTL

\* The payment that is sent is for the invoice that is shown, and the dialog
\* deletes the document it names, without any exception.
THEOREM ActsOnWhatIsShownAlways == Spec => []ActsOnWhatIsShown
<1>1. IInv => ActsOnWhatIsShown
  <2>1. IInv => PayInv(b) /\ ModalInv(b)
    BY IInvIs DEF Good, PageInv
  <2> QED
    BY <2>1 DEF PayInv, ModalInv, ActsOnWhatIsShown, PayOpen, Shown
<1> QED
  BY <1>1, Invariant, PTL

\* A table shows rows of its own entity, unless the list of another table
\* was left behind.
THEOREM RowsOfItsEntityAlways == Spec => []RowsOfItsEntity
<1>1. IInv => RowsOfItsEntity
  <2>1. IInv => ListedInv(b)
    BY IInvIs DEF Good, PageInv
  <2> QED
    BY <2>1 DEF ListedInv, RowsOfItsEntity
<1> QED
  BY <1>1, Invariant, PTL

\* When all calls are answered, what was removed has left the table.
THEOREM RemovedLeaveTheTableAlways == Spec => []RemovedLeaveTheTable
<1>1. IInv => RemovedLeaveTheTable
  <2>1. IInv => TableInv(b, Live)
    BY IInvIs
  <2>2. DOMAIN EmptyBag = {}
    BY DEF EmptyBag, SetToBag
  <2> QED
    BY <2>1, <2>2 DEF TableInv, Deleted, RemovedLeaveTheTable
<1> QED
  BY <1>1, Invariant, PTL

\* A form that was asked for opens, and the answer that closes it is the one
\* to a save of its document, unless a save was left behind before.
THEOREM ClosedBySaveAlways == Spec => ClosedBySave
<1>1. IInv /\ [Next]_vars =>
         [\/ b.mishaps \cap {"save", "payment"} # {}
          \/ /\ NewInvoice => b'.page.name = "create"
             /\ (\E d \in Docs : EditRow(d) \/ EditRecent(d)) \/ EditShown
                   => b'.page.name = "update"
             /\ \A c \in BagToSet(b.flight) :
                   Answer(c) /\ (Leaves("update") \/ Leaves("create")) => OwnSave(c)]_vars
  <2> SUFFICES ASSUME IInv, b.mishaps \cap {"save", "payment"} = {}
               PROVE  /\ NewInvoice => b'.page.name = "create"
                      /\ (\E d \in Docs : EditRow(d) \/ EditRecent(d)) \/ EditShown
                            => b'.page.name = "update"
                      /\ \A c \in BagToSet(b.flight) :
                            Answer(c) /\ (Leaves("update") \/ Leaves("create")) => OwnSave(c)
    OBVIOUS
  <2>1. FlightInv(b) /\ CreatedInv(b) /\ UpdatedInv(b)
    BY IInvIs DEF Good, PageInv
  <2>2. ~b.slot["create"].isSuccess /\ ~b.slot["update"].isSuccess
    BY <2>1 DEF CreatedInv, UpdatedInv
  <2>3. NewInvoice => b'.page.name = "create"
    BY <2>2, NewInvoiceInv
  <2>4. (\E d \in Docs : EditRow(d) \/ EditRecent(d)) \/ EditShown => b'.page.name = "update"
    BY <2>2, EditInv
  <2>5. ASSUME NEW c \in DOMAIN b.flight, Answer(c), Leaves("update") \/ Leaves("create")
        PROVE  OwnSave(c)
    <3>1. b'.page # b.page /\ b.page.name \in {"update", "create"}
      BY <2>5 DEF Leaves
    <3>2. ~(AnswerList(c) \/ AnswerDelete(c) \/ AnswerRecent(c))
      BY <3>1, AnswerListInv, AnswerDeleteInv, AnswerRecentInv
    <3>3. ~AnswerRead(c)
      BY <2>2, <3>1, AnswerReadInv
    <3>4. ~AnswerPay(c)
      BY <3>1, AnswerPayInv
    <3>5. CASE AnswerUpdate(c)
      <4>1. c.stage = "done" /\ b.page.name = "update"
        BY <3>1, <3>5, AnswerUpdateInv
      <4>2. c.key = "update" /\ c.key \in Saves
        BY <3>5, SavesAre DEF AnswerUpdate, Arrives
      <4>3. c.id = b.page.id \/ (b.page.entity = "payment" /\ "read" \in b.mishaps)
        BY <2>1, <4>2 DEF FlightInv, SaveInv
      <4> QED
        BY <4>1, <4>2, <4>3 DEF OwnSave
    <3>6. CASE AnswerCreate(c)
      <4>1. c.stage = "done" /\ b.page.name = "create"
        BY <3>1, <3>6, AnswerCreateInv
      <4>2. c.key = "create"
        BY <3>6 DEF AnswerCreate, Arrives
      <4> QED
        BY <4>1, <4>2 DEF OwnSave
    <3> QED
      BY <2>5, <3>2, <3>3, <3>4, <3>5, <3>6 DEF Answer
  <2>6. BagToSet(b.flight) = DOMAIN b.flight
    BY FlightCalls
  <2> QED
    BY <2>3, <2>4, <2>5, <2>6
<1> QED
  BY <1>1, Invariant, PTL DEF Spec, ClosedBySave
=============================================================================
