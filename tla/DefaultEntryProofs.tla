------------------------ MODULE DefaultEntryProofs -------------------------
(***************************************************************************)
(* Theorems about DefaultEntry, for every number of entries, of requests   *)
(* in flight and of requests in all, with and without failures.            *)
(***************************************************************************)
EXTENDS DefaultEntry, FiniteSetTheorems, TLAPS

USE DefaultEntryAssumption

-----------------------------------------------------------------------------
(***************************************************************************)
(* Type correctness.                                                       *)
(***************************************************************************)

LEMMA NoRequestType == NoRequest \in Request
BY DEF NoRequest, Request, Entries, Field

LEMMA GivenType ==
    ASSUME NEW field \in Field, NEW default \in BOOLEAN
    PROVE  Given(field, default) \in BOOLEAN
BY DEF Given, Field

LEMMA AcceptType ==
    ASSUME TypeOK, NEW h \in Slots, NEW r \in Request, Accept(h, r)
    PROVE  request' \in [Slots -> Request] /\ accepted' \in Nat /\ mishaps' \subseteq Mishaps
BY DEF Accept, TypeOK, Mishaps

LEMMA ProceedType ==
    ASSUME TypeOK, NEW h \in Slots, NEW r \in Request, Proceed(h, r)
    PROVE  request' \in [Slots -> Request] /\ accepted' \in Nat /\ mishaps' \subseteq Mishaps
<1>1. \A q \in Request :
        [q EXCEPT !.others = q.others \cup (Defaults' \ Defaults)] \in Request
  BY DEF Request, Defaults
<1> QED
  BY <1>1 DEF Proceed, TypeOK

\* A step of a request: its fields keep their types.
LEMMA StepType ==
    ASSUME NEW r \in Request, NEW at \in {"idle"} \cup CreateSteps \cup UpdateSteps,
           NEW chosen \in BOOLEAN
    PROVE  /\ [r EXCEPT !.at = at] \in Request
           /\ [r EXCEPT !.at = at, !.chosen = chosen] \in Request
           /\ [r EXCEPT !.at = at, !.others = {}] \in Request
BY DEF Request

LEMMA InitType == Init => TypeOK
BY NoRequestType DEF Init, TypeOK, EntryDoc, Absent, Entries, Mishaps

LEMMA NextType == TypeOK /\ [Next]_vars => TypeOK'
<1> SUFFICES ASSUME TypeOK, [Next]_vars PROVE TypeOK'
  OBVIOUS
<1>1. ASSUME NEW h \in Slots, NEW body \in Bodies, ReceiveCreate(h, body)
      PROVE  TypeOK'
  <2> DEFINE r == [NoRequest EXCEPT !.at = IF body.isDefault = TRUE THEN "clear" ELSE "count",
                                    !.body = body]
  <2>1. r \in Request
    BY NoRequestType DEF Request, Bodies, CreateSteps
  <2> QED
    BY <1>1, <2>1, AcceptType DEF ReceiveCreate, TypeOK
<1>2. ASSUME NEW h \in Slots, Clear(h) PROVE TypeOK'
  <2>1. entry' \in [Entries -> EntryDoc]
    BY <1>2 DEF Clear, TypeOK, EntryDoc
  <2> QED
    BY <1>2, <2>1, ProceedType, StepType DEF Clear, TypeOK, CreateSteps
<1>3. ASSUME NEW h \in Slots, CountDefaults(h) PROVE TypeOK'
  BY <1>3, ProceedType, StepType DEF CountDefaults, TypeOK, CreateSteps
<1>4. ASSUME NEW h \in Slots, NEW e \in Entries, Insert(h, e) PROVE TypeOK'
  <2> DEFINE r == request[h]
  <2>1. r \in Request /\ Given(r.body.enabled, TRUE) \in BOOLEAN
    BY GivenType DEF TypeOK, Request
  <2>2. entry' \in [Entries -> EntryDoc]
    BY <1>4, <2>1 DEF Insert, TypeOK, EntryDoc, Request
  <2> QED
    BY <1>4, <2>2, ProceedType, NoRequestType DEF Insert, TypeOK
<1>5. ASSUME NEW h \in Slots, NEW e \in Entries, NEW body \in Bodies, ReadEntry(h, e, body)
      PROVE  TypeOK'
  <2> DEFINE both == Given(body.isDefault, entry[e].isDefault)
                       /\ Given(body.enabled, entry[e].enabled)
             r == [NoRequest EXCEPT !.at = IF both THEN "demote" ELSE "promote",
                                    !.id = e, !.body = body, !.chosen = both]
  <2>1. both \in BOOLEAN
    OBVIOUS
  <2> HIDE DEF both
  <2>2. r \in Request
    BY <2>1, NoRequestType DEF Request, Bodies, UpdateSteps
  <2> QED
    BY <1>5, <2>2, AcceptType DEF ReadEntry, TypeOK, both
<1>6. ASSUME NEW h \in Slots, Promote(h) PROVE TypeOK'
  <2>1. entry' \in [Entries -> EntryDoc]
    BY <1>6 DEF Promote, TypeOK, EntryDoc, Replacements, Enabled
  <2> QED
    BY <1>6, <2>1, ProceedType, StepType DEF Promote, TypeOK, UpdateSteps
<1>7. ASSUME NEW h \in Slots, Demote(h) PROVE TypeOK'
  <2>1. entry' \in [Entries -> EntryDoc]
    BY <1>7 DEF Demote, OnlyDefault, TypeOK, EntryDoc
  <2> QED
    BY <1>7, <2>1, ProceedType, StepType DEF Demote, TypeOK, UpdateSteps
<1>8. ASSUME NEW h \in Slots, CountAll(h) PROVE TypeOK'
  BY <1>8, ProceedType, StepType, NoRequestType DEF CountAll, TypeOK, UpdateSteps
<1>9. ASSUME NEW h \in Slots, WriteEntry(h) PROVE TypeOK'
  <2> DEFINE r == request[h]
  <2>1. /\ r.id \in Entries
        /\ Given(r.body.enabled, entry[r.id].enabled) \in BOOLEAN
        /\ Given(r.body.isDefault, entry[r.id].isDefault) \in BOOLEAN
    BY GivenType DEF TypeOK, Request, EntryDoc
  <2>2. entry' \in [Entries -> EntryDoc]
    BY <1>9, <2>1 DEF WriteEntry, TypeOK, EntryDoc
  <2> QED
    BY <1>9, <2>2, ProceedType, NoRequestType DEF WriteEntry, TypeOK
<1>10. ASSUME NEW h \in Slots, Fail(h) PROVE TypeOK'
  BY <1>10, NoRequestType DEF Fail, TypeOK, Mishaps
<1>11. CASE UNCHANGED vars
  BY <1>11 DEF vars, TypeOK
<1> QED
  BY <1>1, <1>2, <1>3, <1>4, <1>5, <1>6, <1>7, <1>8, <1>9, <1>10, <1>11 DEF Next

\* Every variable keeps its type.
\* (models/appModels/Taxes.js and PaymentMode.js, the fields of an entry)
THEOREM TypeCorrect == Spec => []TypeOK
BY InitType, NextType, PTL DEF Spec

-----------------------------------------------------------------------------
(***************************************************************************)
(* The inductive invariant.                                                *)
(***************************************************************************)

\* Entries are never deleted, and those that do not exist have no flags.
EntryInv ==
    /\ entry[1].exists
    /\ \A e \in Entries : ~entry[e].exists => ~entry[e].enabled /\ ~entry[e].isDefault

Several == \E e \in Entries : e # 1 /\ entry[e].exists

\* What the record of a request means.  An update that is past its check either
\* keeps its entry the default or has seen another entry.
RequestAt(h) ==
    LET r == request[h]
    IN  /\ r.at = "clear" => r.body.isDefault = TRUE
        /\ r.at \in UpdateSteps =>
             /\ entry[r.id].exists
             /\ r.chosen => r.body.isDefault # FALSE /\ r.body.enabled # FALSE
        /\ r.at = "demote" => r.chosen
        /\ r.at = "promote" => ~r.chosen
        /\ r.at = "write" => r.chosen \/ Several

RequestInv == \A h \in Slots : RequestAt(h)

\* While there is a single entry, it is the default.
OnlyInv ==
    \/ Several
    \/ entry[1].isDefault
    \/ \E h \in Slots : HasCleared(h)
    \/ "cleared" \in mishaps

\* Of the flags that a request must find cleared, others have set those that are set.
OthersAt(h) ==
    LET r == request[h]
    IN  /\ r.at = "count" /\ r.body.isDefault = TRUE => Defaults \subseteq r.others
        /\ r.at = "insert" =>
             /\ r.chosen => Defaults \subseteq r.others
             /\ r.body.isDefault = TRUE => r.chosen \/ r.others # {}
        /\ r.at \in {"countAll", "write"} /\ r.chosen => Defaults \subseteq {r.id} \cup r.others

OthersInv == \A h \in Slots : OthersAt(h)

\* A request that is alone finds the flags as its own steps have left them.
AloneAt(h) ==
    LET r == request[h]
    IN  /\ \A g \in Slots \ {h} : request[g].at = "idle"
        /\ r.at = "count" /\ r.body.isDefault = TRUE => Defaults = {}
        /\ r.at = "insert" => (r.chosen <=> Defaults = {})
        /\ r.at \in UpdateSteps /\ r.chosen => r.body.isDefault = TRUE \/ entry[r.id].isDefault
        /\ r.at \in {"countAll", "write"} /\ ~r.chosen =>
             Enabled \subseteq {r.id} \/ Defaults \ {r.id} # {}

\* Two entries that are enabled are not without a default.
OneIsDefault == \A e, f \in Enabled : e # f => Defaults # {}

\* A request that is about to set the default.
Owes(h) ==
    \/ HasCleared(h)
    \/ request[h].at \in {"countAll", "write"} /\ request[h].chosen

\* As long as nothing has gone wrong, every request is alone, and the default is
\* missing only where a request owes it.
OrderlyInv ==
    mishaps = {} =>
        /\ \A h \in InFlight : AloneAt(h)
        /\ OneIsDefault \/ \E h \in Slots : Owes(h)

IInv == EntryInv /\ RequestInv /\ OnlyInv /\ OthersInv /\ OrderlyInv

-----------------------------------------------------------------------------
(***************************************************************************)
(* The steps.                                                              *)
(***************************************************************************)

\* A request has made a step and is r now.
Moved(h, r) ==
    /\ request'[h] = r
    /\ \A g \in Slots \ {h} :
         /\ request'[g].at = request[g].at /\ request'[g].id = request[g].id
         /\ request'[g].body = request[g].body /\ request'[g].chosen = request[g].chosen
         /\ g \in InFlight =>
              request[g].others \cup (Defaults' \ Defaults) \subseteq request'[g].others

LEMMA Proceeded ==
    ASSUME TypeOK, NEW h \in Slots, NEW r, Proceed(h, r)
    PROVE  Moved(h, r) /\ mishaps' = mishaps
<1>1. request'[h] = r /\ mishaps' = mishaps
  BY DEF Proceed
<1>2. ASSUME NEW g \in Slots \ {h}, NEW q \in Request, q = request[g],
             request'[g] = IF g \in InFlight
                           THEN [q EXCEPT !.others = @ \cup (Defaults' \ Defaults)] ELSE q
      PROVE  /\ request'[g].at = q.at /\ request'[g].id = q.id
             /\ request'[g].body = q.body /\ request'[g].chosen = q.chosen
             /\ g \in InFlight => request'[g].others = q.others \cup (Defaults' \ Defaults)
  BY <1>2 DEF Request
<1> QED
  BY <1>1, <1>2 DEF Proceed, Moved, TypeOK

LEMMA InitInv == Init => IInv
<1> SUFFICES ASSUME Init PROVE IInv
  OBVIOUS
<1>1. /\ 1 \in Entries /\ entry[1].exists /\ entry[1].isDefault
      /\ \A e \in Entries : e # 1 => ~entry[e].enabled /\ ~entry[e].isDefault
  BY DEF Init, Entries, Absent
<1>2. \A h \in Slots : request[h].at = "idle"
  BY DEF Init, NoRequest
<1>3. EntryInv /\ OnlyInv
  BY <1>1 DEF EntryInv, OnlyInv
<1>4. RequestInv /\ OthersInv
  BY <1>2 DEF RequestInv, RequestAt, OthersInv, OthersAt, UpdateSteps
<1>5. OneIsDefault
  BY <1>1 DEF OneIsDefault, Enabled
<1> QED
  BY <1>2, <1>3, <1>4, <1>5 DEF IInv, OrderlyInv, InFlight

\* A request is accepted: nothing is written.
LEMMA AcceptInv ==
    ASSUME TypeOK, IInv, NEW h \in Slots, NEW r \in Request, Accept(h, r), UNCHANGED entry,
           r.at \in {"clear", "count", "demote", "promote"},
           r.at \in {"clear", "count"} => (r.at = "clear" <=> r.body.isDefault = TRUE),
           r.at \in {"demote", "promote"} =>
              /\ entry[r.id].exists
              /\ r.at = "demote" <=> r.chosen
              /\ r.chosen => /\ r.body.isDefault # FALSE /\ r.body.enabled # FALSE
                             /\ r.body.isDefault = TRUE \/ entry[r.id].isDefault
    PROVE  IInv'
<1>1. /\ request[h].at = "idle" /\ request'[h] = r
      /\ \A g \in Slots \ {h} : request'[g] = request[g]
      /\ mishaps' = {} => mishaps = {} /\ InFlight = {}
      /\ "cleared" \in mishaps' <=> "cleared" \in mishaps
  BY DEF Accept, TypeOK
<1>2. EntryInv' /\ (Several <=> Several') /\ Defaults' = Defaults /\ Enabled' = Enabled
  BY DEF IInv, EntryInv, Several, Defaults, Enabled
<1>3. RequestInv' /\ OthersInv'
  <2> SUFFICES ASSUME NEW g \in Slots PROVE RequestAt(g)' /\ OthersAt(g)'
    BY DEF RequestInv, OthersInv
  <2>1. CASE g = h
    <3>1. ~(r.at \in {"insert", "countAll", "write"})
      OBVIOUS
    <3> QED
      BY <1>1, <1>2, <2>1, <3>1 DEF RequestAt, OthersAt, UpdateSteps
  <2>2. CASE g # h
    <3>1. RequestAt(g) /\ OthersAt(g)
      BY DEF IInv, RequestInv, OthersInv
    <3> QED
      BY <1>1, <1>2, <2>2, <3>1 DEF RequestAt, OthersAt
  <2> QED
    BY <2>1, <2>2
<1>4. OnlyInv'
  BY <1>1, <1>2 DEF IInv, OnlyInv, HasCleared
<1>5. OrderlyInv'
  <2> SUFFICES ASSUME mishaps' = {} PROVE OrderlyInv'
    BY DEF OrderlyInv
  <2>1. mishaps = {} /\ InFlight = {}
    BY <1>1
  <2>2. OneIsDefault
    BY <2>1 DEF IInv, OrderlyInv, InFlight, Owes, HasCleared
  <2>3. OneIsDefault'
    BY <1>2, <2>2 DEF OneIsDefault
  <2>4. \A g \in Slots \ {h} : request'[g].at = "idle"
    BY <1>1, <2>1 DEF InFlight
  <2>5. AloneAt(h)'
    <3>1. ~(r.at \in {"insert", "countAll", "write"})
      OBVIOUS
    <3> QED
      BY <1>1, <2>4, <3>1 DEF AloneAt, UpdateSteps
  <2> QED
    BY <2>3, <2>4, <2>5 DEF OrderlyInv, InFlight
<1> QED
  BY <1>2, <1>3, <1>4, <1>5 DEF IInv

\* What has to be shown of a step of a request: the rest follows, as the others note
\* what it has made default, and none is in flight while nothing has gone wrong.
LEMMA StepKeeps ==
    ASSUME TypeOK, IInv, NEW h \in Slots, NEW r, Moved(h, r), h \in InFlight,
           \A e \in Entries : entry[e].exists => entry'[e].exists,
           mishaps \subseteq mishaps',
           EntryInv', OnlyInv', RequestAt(h)', OthersAt(h)',
           mishaps' = {} /\ AloneAt(h) =>
              /\ r.at = "idle" \/ AloneAt(h)'
              /\ OneIsDefault \/ Owes(h) => OneIsDefault' \/ Owes(h)'
    PROVE  IInv'
<1>1. RequestInv' /\ OthersInv'
  <2> SUFFICES ASSUME NEW g \in Slots, g # h PROVE RequestAt(g)' /\ OthersAt(g)'
    BY DEF RequestInv, OthersInv
  <2>1. RequestAt(g) /\ OthersAt(g) /\ request[g].id \in Entries
    BY DEF IInv, RequestInv, OthersInv, TypeOK, Request
  <2>2. Several => Several'
    BY DEF Several
  <2>3. RequestAt(g)'
    BY <2>1, <2>2 DEF Moved, RequestAt
  <2>4. CASE g \notin InFlight
    <3>1. request'[g].at = "idle"
      BY <2>4 DEF Moved, InFlight
    <3> QED
      BY <2>3, <3>1 DEF OthersAt
  <2>5. CASE g \in InFlight
    <3>1. request[g].others \cup (Defaults' \ Defaults) \subseteq request'[g].others
      BY <2>5 DEF Moved
    <3> QED
      BY <2>1, <2>3, <3>1 DEF Moved, OthersAt
  <2> QED
    BY <2>3, <2>4, <2>5
<1>2. OrderlyInv'
  <2> SUFFICES ASSUME mishaps' = {} PROVE OrderlyInv'
    BY DEF OrderlyInv
  <2>1. mishaps = {} /\ AloneAt(h)
    BY DEF IInv, OrderlyInv
  <2>2. \A g \in Slots \ {h} : request[g].at = "idle" /\ ~Owes(g)
    BY <2>1 DEF AloneAt, Owes, HasCleared
  <2>3. OneIsDefault \/ Owes(h)
    BY <2>1, <2>2 DEF IInv, OrderlyInv
  <2>4. \A g \in InFlight' : g = h /\ AloneAt(h)'
    BY <2>1, <2>2 DEF Moved, InFlight
  <2> QED
    BY <2>1, <2>3, <2>4 DEF OrderlyInv
<1> QED
  BY <1>1, <1>2 DEF IInv

LEMMA ClearInv ==
    ASSUME TypeOK, IInv, NEW h \in Slots, Clear(h)
    PROVE  IInv'
<1> DEFINE r == [request[h] EXCEPT !.at = "count", !.others = {}]
<1>1. /\ request[h] \in Request /\ h \in InFlight /\ request[h].body.isDefault = TRUE
  BY DEF TypeOK, Clear, IInv, RequestInv, RequestAt, InFlight
<1>2. r.at = "count" /\ r.body = request[h].body
  BY <1>1 DEF Request
<1> HIDE DEF r
<1>3. Moved(h, r) /\ request'[h] = r /\ mishaps' = mishaps
  BY Proceeded DEF Clear, r, Moved
<1>4. \A e \in Entries : /\ entry'[e].exists = entry[e].exists
                         /\ entry'[e].enabled = entry[e].enabled
                         /\ ~entry'[e].isDefault
  BY DEF Clear, TypeOK, EntryDoc
<1>5. EntryInv'
  BY <1>4 DEF IInv, EntryInv, Entries
<1>6. HasCleared(h)' /\ Defaults' = {}
  BY <1>1, <1>2, <1>3, <1>4 DEF HasCleared, Defaults
<1>7. OnlyInv' /\ Owes(h)'
  BY <1>6 DEF OnlyInv, Owes
<1>8. RequestAt(h)' /\ OthersAt(h)'
  BY <1>2, <1>3, <1>6 DEF RequestAt, OthersAt, UpdateSteps
<1>9. AloneAt(h) => AloneAt(h)'
  BY <1>2, <1>3, <1>6 DEF AloneAt, UpdateSteps, Moved
<1> QED
  BY <1>1, <1>3, <1>4, <1>5, <1>7, <1>8, <1>9, StepKeeps

LEMMA CountDefaultsInv ==
    ASSUME TypeOK, IInv, NEW h \in Slots, CountDefaults(h)
    PROVE  IInv'
<1> DEFINE r == [request[h] EXCEPT !.at = "insert", !.chosen = (Defaults = {})]
<1>1. request[h] \in Request /\ request[h].at = "count" /\ h \in InFlight
  BY DEF TypeOK, CountDefaults, InFlight
<1>2. /\ r.at = "insert" /\ r.body = request[h].body
      /\ r.chosen = (Defaults = {}) /\ r.others = request[h].others
  BY <1>1 DEF Request
<1> HIDE DEF r
<1>3. Moved(h, r) /\ request'[h] = r /\ mishaps' = mishaps /\ entry' = entry
  BY Proceeded DEF CountDefaults, r, Moved
<1>4. EntryInv' /\ Defaults' = Defaults /\ (OneIsDefault => OneIsDefault')
  BY <1>3 DEF IInv, EntryInv, Defaults, OneIsDefault, Enabled
<1>5. \A g \in Slots : HasCleared(g) => HasCleared(g)'
  BY <1>1, <1>2, <1>3 DEF HasCleared, Moved
<1>6. OnlyInv'
  BY <1>3, <1>5 DEF IInv, OnlyInv, Several
<1>7. RequestAt(h)'
  BY <1>2, <1>3 DEF RequestAt, UpdateSteps
<1>8. OthersAt(h)'
  <2>1. OthersAt(h)
    BY DEF IInv, OthersInv
  <2> QED
    BY <1>1, <1>2, <1>3, <1>4, <2>1 DEF OthersAt
<1>9. AloneAt(h) => AloneAt(h)'
  BY <1>2, <1>3, <1>4 DEF AloneAt, UpdateSteps, Moved
<1>10. Owes(h) => Owes(h)'
  BY <1>1, <1>5 DEF Owes
<1> QED
  BY <1>3, <1>1, <1>4, <1>6, <1>7, <1>8, <1>9, <1>10, StepKeeps

\* A request that ends: nothing is to be shown of it any more.
LEMMA Ended ==
    ASSUME NEW h \in Slots, Moved(h, NoRequest)
    PROVE  NoRequest.at = "idle" /\ request'[h].at = "idle" /\ RequestAt(h)' /\ OthersAt(h)'
BY DEF Moved, NoRequest, RequestAt, OthersAt, UpdateSteps

LEMMA InsertInv ==
    ASSUME TypeOK, IInv, NEW h \in Slots, NEW e \in Entries, Insert(h, e)
    PROVE  IInv'
<1>1. request[h].at = "insert" /\ h \in InFlight /\ ~entry[e].exists /\ e # 1
  BY DEF Insert, IInv, EntryInv, InFlight
<1>2. Moved(h, NoRequest) /\ mishaps' = mishaps
  BY Proceeded DEF Insert
<1>3. /\ entry'[e].exists /\ entry'[e].isDefault = request[h].chosen
      /\ \A f \in Entries \ {e} : entry'[f] = entry[f]
  BY DEF Insert, TypeOK, EntryDoc
<1>4. EntryInv'
  BY <1>1, <1>3 DEF IInv, EntryInv, Entries
<1>5. OnlyInv'
  BY <1>1, <1>3 DEF OnlyInv, Several
<1>6. AloneAt(h) => OneIsDefault'
  <2> SUFFICES ASSUME AloneAt(h) PROVE Defaults' # {}
    BY DEF OneIsDefault
  <2>1. CASE request[h].chosen
    BY <1>3, <2>1 DEF Defaults
  <2>2. CASE ~request[h].chosen
    <3>1. PICK f \in Entries : entry[f].isDefault
      BY <1>1, <2>2 DEF AloneAt, Defaults
    <3>2. f # e
      BY <1>1, <3>1 DEF IInv, EntryInv
    <3> QED
      BY <1>3, <3>1, <3>2 DEF Defaults
  <2> QED
    BY <2>1, <2>2
<1>7. \A f \in Entries : entry[f].exists => entry'[f].exists
  BY <1>1, <1>3
<1> QED
  BY <1>1, <1>2, <1>4, <1>5, <1>6, <1>7, Ended, StepKeeps

\* A step of an update leaves a creation that has cleared the defaults as it is.
LEMMA ClearedStays ==
    ASSUME NEW h \in Slots, request[h].at \in UpdateSteps, NEW r, Moved(h, r)
    PROVE  \A g \in Slots : HasCleared(g) => HasCleared(g)'
BY DEF HasCleared, UpdateSteps, Moved

LEMMA PromoteInv ==
    ASSUME TypeOK, IInv, NEW h \in Slots, Promote(h)
    PROVE  IInv'
<1> DEFINE r == [request[h] EXCEPT !.at = "countAll"]
           id == request[h].id
<1>1. /\ request[h] \in Request /\ request[h].at = "promote" /\ ~request[h].chosen
      /\ id \in Entries /\ entry[id].exists /\ h \in InFlight
  BY DEF TypeOK, Promote, IInv, RequestInv, RequestAt, UpdateSteps, Request, InFlight
<1>2. /\ r.at = "countAll" /\ r.body = request[h].body /\ r.id = id
      /\ r.chosen = request[h].chosen
  BY <1>1 DEF Request
<1> HIDE DEF r
<1>3. Moved(h, r) /\ request'[h] = r /\ mishaps' = mishaps
  BY Proceeded DEF Promote, r, Moved
<1>4. /\ \A e \in Entries : /\ entry'[e].exists = entry[e].exists
                            /\ entry'[e].enabled = entry[e].enabled
                            /\ entry[e].isDefault => entry'[e].isDefault
                            /\ ~entry[e].enabled /\ ~entry[e].isDefault => ~entry'[e].isDefault
      /\ \/ Enabled \subseteq {id}
         \/ \E e \in Entries \ {id} : entry'[e].isDefault
  <2>1. CASE Replacements(id) = {}
    BY <2>1 DEF Promote, Replacements
  <2>2. CASE Replacements(id) # {}
    <3>1. PICK e \in Replacements(id) : entry' = [entry EXCEPT ![e].isDefault = TRUE]
      BY <2>2 DEF Promote
    <3>2. e \in Entries /\ e # id /\ entry[e].enabled
      BY DEF Replacements, Enabled
    <3> QED
      BY <3>1, <3>2 DEF TypeOK, EntryDoc
  <2> QED
    BY <2>1, <2>2
<1>5. EntryInv'
  BY <1>4 DEF IInv, EntryInv, Entries
<1>6. Enabled' = Enabled /\ Defaults \subseteq Defaults'
  BY <1>4 DEF Enabled, Defaults
<1>7. OnlyInv'
  BY <1>1, <1>3, <1>4, ClearedStays DEF IInv, OnlyInv, Several, Entries, UpdateSteps
<1>8. RequestAt(h)' /\ OthersAt(h)'
  BY <1>1, <1>2, <1>3, <1>4 DEF RequestAt, OthersAt
<1>9. AloneAt(h) => AloneAt(h)'
  <2>1. Enabled' \subseteq {id} \/ Defaults' \ {id} # {}
    BY <1>4, <1>6 DEF Defaults
  <2> QED
    BY <1>1, <1>2, <1>3, <2>1 DEF AloneAt, Moved
<1>10. OneIsDefault \/ Owes(h) => OneIsDefault'
  BY <1>1, <1>6 DEF OneIsDefault, Owes, HasCleared
<1> QED
  BY <1>1, <1>2, <1>3, <1>4, <1>5, <1>7, <1>8, <1>9, <1>10, StepKeeps

LEMMA DemoteInv ==
    ASSUME TypeOK, IInv, NEW h \in Slots, Demote(h)
    PROVE  IInv'
<1> DEFINE r == [request[h] EXCEPT !.at = "countAll", !.others = {}]
           id == request[h].id
<1>1. /\ request[h] \in Request /\ request[h].at = "demote" /\ request[h].chosen
      /\ id \in Entries /\ entry[id].exists /\ h \in InFlight
  BY DEF TypeOK, Demote, IInv, RequestInv, RequestAt, UpdateSteps, Request, InFlight
<1>2. RequestAt(h)
  BY DEF IInv, RequestInv
<1>3. /\ r.at = "countAll" /\ r.body = request[h].body /\ r.id = id
      /\ r.chosen = request[h].chosen
  BY <1>1 DEF Request
<1> HIDE DEF r
<1>4. Moved(h, r) /\ request'[h] = r /\ mishaps' = mishaps
  BY Proceeded DEF Demote, r, Moved
<1>5. /\ entry'[id] = entry[id]
      /\ \A e \in Entries : /\ entry'[e].exists = entry[e].exists
                            /\ entry'[e].enabled = entry[e].enabled
                            /\ entry'[e].isDefault => entry[e].isDefault /\ e = id
  BY <1>1 DEF Demote, OnlyDefault, TypeOK, EntryDoc
<1>6. EntryInv'
  BY <1>5 DEF IInv, EntryInv, Entries
<1>7. OnlyInv'
  <2>1. CASE Several
    BY <1>5, <2>1 DEF OnlyInv, Several
  <2>2. CASE ~Several
    <3>1. id = 1
      BY <1>1, <2>2 DEF Several
    <3> QED
      BY <1>1, <1>4, <1>5, <2>2, <3>1, ClearedStays DEF IInv, OnlyInv, UpdateSteps
  <2> QED
    BY <2>1, <2>2
<1>8. RequestAt(h)' /\ OthersAt(h)'
  <2>1. Defaults' \subseteq {id}
    BY <1>5 DEF Defaults
  <2> QED
    BY <1>1, <1>2, <1>3, <1>4, <1>5, <2>1 DEF RequestAt, OthersAt, UpdateSteps
<1>9. AloneAt(h) => AloneAt(h)'
  <2> SUFFICES ASSUME AloneAt(h) PROVE AloneAt(h)'
    OBVIOUS
  <2>1. \A g \in Slots \ {h} : request'[g].at = "idle"
    BY <1>4 DEF AloneAt, Moved
  <2>2. r.body.isDefault = TRUE \/ entry[id].isDefault
    BY <1>1, <1>3 DEF AloneAt, UpdateSteps
  <2>3. r.chosen /\ r.at = "countAll"
    BY <1>1, <1>3
  <2> QED
    BY <1>3, <1>4, <1>5, <2>1, <2>2, <2>3 DEF AloneAt
<1>10. Owes(h)'
  BY <1>1, <1>3, <1>4 DEF Owes
<1>11. \A e \in Entries : entry[e].exists => entry'[e].exists
  BY <1>5
<1> QED
  BY <1>1, <1>3, <1>4, <1>6, <1>7, <1>8, <1>9, <1>10, <1>11, StepKeeps

\* The first entry exists, so counting more than one means that another exists.
LEMMA CountSeveral ==
    ASSUME TypeOK, EntryInv
    PROVE  /\ 1 \in Existing /\ IsFiniteSet(Existing) /\ IsFiniteSet(Enabled)
           /\ Cardinality(Existing) \in Nat
           /\ Cardinality(Existing) > 1 <=> Several
<1>1. IsFiniteSet(Entries)
  BY FS_Interval DEF Entries
<1>2. 1 \in Existing /\ IsFiniteSet(Existing) /\ IsFiniteSet(Enabled)
  BY <1>1, FS_Subset DEF EntryInv, Existing, Enabled, Entries
<1>3. Cardinality(Existing) \in Nat /\ IsFiniteSet({1}) /\ Cardinality({1}) = 1
  BY <1>2, FS_CardinalityType, FS_Singleton
<1>4. ASSUME Several PROVE Cardinality(Existing) > 1
  <2>1. {1} \subseteq Existing /\ {1} # Existing
    BY <1>2, <1>4 DEF Several, Existing
  <2> QED
    BY <1>2, <1>3, <2>1, FS_Subset
<1>5. ASSUME ~Several PROVE Cardinality(Existing) = 1
  <2>1. Existing = {1}
    BY <1>2, <1>5 DEF Several, Existing
  <2> QED
    BY <1>3, <2>1
<1> QED
  BY <1>2, <1>3, <1>4, <1>5

LEMMA CountAllInv ==
    ASSUME TypeOK, IInv, NEW h \in Slots, CountAll(h)
    PROVE  IInv'
<1> DEFINE r == [request[h] EXCEPT !.at = "write"]
<1>1. /\ request[h] \in Request /\ request[h].at = "countAll" /\ h \in InFlight
      /\ entry' = entry /\ mishaps' = mishaps
  BY DEF TypeOK, CountAll, Proceed, InFlight
<1>2. EntryInv' /\ Defaults' = Defaults /\ Enabled' = Enabled /\ (Several' <=> Several)
  BY <1>1 DEF IInv, EntryInv, Defaults, Enabled, Several
<1>3. OneIsDefault => OneIsDefault'
  BY <1>2 DEF OneIsDefault
<1>4. CASE Refuses(request[h])
  <2>1. Moved(h, NoRequest)
    BY <1>4, Proceeded DEF CountAll
  <2>2. ~request[h].chosen
    BY <1>4 DEF Refuses
  <2>3. OnlyInv'
    BY <1>1, <1>2, <2>1, ClearedStays DEF IInv, OnlyInv, UpdateSteps
  <2>4. OneIsDefault \/ Owes(h) => OneIsDefault'
    BY <1>1, <1>3, <2>2 DEF Owes, HasCleared
  <2> QED
    BY <1>1, <1>2, <2>1, <2>3, <2>4, Ended, StepKeeps
<1>5. CASE ~Refuses(request[h])
  <2>2. /\ r.at = "write" /\ r.body = request[h].body /\ r.id = request[h].id
        /\ r.others = request[h].others /\ r.chosen = request[h].chosen
    BY <1>1 DEF Request
  <2> HIDE DEF r
  <2>1. Moved(h, r) /\ request'[h] = r
    BY <1>5, Proceeded DEF CountAll, r, Moved
  <2>3. r.chosen \/ Several
    BY <1>5, <2>2, CountSeveral DEF Refuses, IInv
  <2>4. OnlyInv'
    BY <1>1, <1>2, <2>1, ClearedStays DEF IInv, OnlyInv, UpdateSteps
  <2>5. RequestAt(h) /\ OthersAt(h)
    BY DEF IInv, RequestInv, OthersInv
  <2>6. RequestAt(h)' /\ OthersAt(h)'
    BY <1>1, <1>2, <2>1, <2>2, <2>3, <2>5 DEF RequestAt, OthersAt, UpdateSteps
  <2>7. AloneAt(h) => AloneAt(h)'
    BY <1>1, <1>2, <2>1, <2>2 DEF AloneAt, UpdateSteps, Moved
  <2>8. Owes(h) => Owes(h)'
    BY <1>1, <2>1, <2>2 DEF Owes, HasCleared
  <2> QED
    BY <1>1, <1>2, <1>3, <2>1, <2>2, <2>4, <2>6, <2>7, <2>8, StepKeeps
<1> QED
  BY <1>4, <1>5

\* What an update writes.
LEMMA Written ==
    ASSUME TypeOK, NEW h \in Slots, WriteEntry(h)
    PROVE  /\ request[h].id \in Entries
           /\ entry'[request[h].id].exists = entry[request[h].id].exists
           /\ entry'[request[h].id].enabled
                = Given(request[h].body.enabled, entry[request[h].id].enabled)
           /\ entry'[request[h].id].isDefault
                = Given(request[h].body.isDefault, entry[request[h].id].isDefault)
           /\ \A e \in Entries \ {request[h].id} : entry'[e] = entry[e]
<1> DEFINE id == request[h].id
<1>1. id \in Entries /\ entry[id] \in EntryDoc
  BY DEF TypeOK, Request
<1> QED
  BY <1>1 DEF WriteEntry, TypeOK, EntryDoc

\* A field that was given TRUE, or left out where it is TRUE, is TRUE.
LEMMA GivenTrue ==
    ASSUME NEW field \in Field, field # FALSE, NEW default \in BOOLEAN, field = TRUE \/ default
    PROVE  Given(field, default)
BY DEF Given, Field

LEMMA WriteEntryInv ==
    ASSUME TypeOK, IInv, NEW h \in Slots, WriteEntry(h)
    PROVE  IInv'
<1> DEFINE id == request[h].id
           body == request[h].body
<1>1. /\ request[h].at = "write" /\ h \in InFlight /\ id \in Entries
      /\ entry[id] \in EntryDoc /\ body.isDefault \in Field /\ body.enabled \in Field
      /\ entry[id].isDefault \in BOOLEAN /\ entry[id].enabled \in BOOLEAN
  BY DEF TypeOK, WriteEntry, Request, EntryDoc, InFlight
<1>2. /\ entry[id].exists
      /\ request[h].chosen => body.isDefault # FALSE /\ body.enabled # FALSE
      /\ request[h].chosen \/ Several
  BY <1>1 DEF IInv, RequestInv, RequestAt, UpdateSteps
<1>3. Moved(h, NoRequest) /\ mishaps' = mishaps
  BY Proceeded DEF WriteEntry
<1>4. \A e \in Entries : entry'[e].exists = entry[e].exists
  BY Written
<1>5. EntryInv'
  BY <1>2, <1>4, Written DEF IInv, EntryInv, Entries
<1>6. OnlyInv'
  <2>1. CASE Several
    BY <1>4, <2>1 DEF OnlyInv, Several
  <2>2. CASE ~Several
    <3>1. id = 1
      BY <1>1, <1>2, <2>2 DEF Several
    <3>2. entry[1].isDefault => entry'[1].isDefault
      BY <1>1, <1>2, <2>2, <3>1, Written, GivenTrue
    <3> QED
      BY <1>1, <1>3, <2>2, <3>2, ClearedStays DEF IInv, OnlyInv, UpdateSteps
  <2> QED
    BY <2>1, <2>2
<1>7. AloneAt(h) /\ (OneIsDefault \/ Owes(h)) => OneIsDefault'
  <2> SUFFICES ASSUME AloneAt(h) PROVE OneIsDefault'
    OBVIOUS
  <2>1. CASE request[h].chosen
    <3>1. body.isDefault = TRUE \/ entry[id].isDefault
      BY <1>1, <2>1 DEF AloneAt, UpdateSteps
    <3>2. entry'[id].isDefault
      BY <1>1, <1>2, <2>1, <3>1, Written, GivenTrue
    <3> QED
      BY <1>1, <3>2 DEF OneIsDefault, Defaults
  <2>2. CASE ~request[h].chosen /\ Enabled \subseteq {id}
    <3>1. Enabled' \subseteq {id}
      BY <2>2, Written DEF Enabled
    <3> QED
      BY <3>1 DEF OneIsDefault
  <2>3. CASE ~request[h].chosen /\ Defaults \ {id} # {}
    <3>1. Defaults' # {}
      BY <2>3, Written DEF Defaults
    <3> QED
      BY <3>1 DEF OneIsDefault
  <2> QED
    BY <1>1, <2>1, <2>2, <2>3 DEF AloneAt
<1> QED
  BY <1>1, <1>3, <1>4, <1>5, <1>6, <1>7, Ended, StepKeeps

LEMMA FailInv ==
    ASSUME TypeOK, IInv, NEW h \in Slots, Fail(h)
    PROVE  IInv'
<1>1. /\ h \in InFlight /\ Moved(h, NoRequest)
      /\ entry' = entry /\ mishaps \subseteq mishaps' /\ mishaps' # {}
      /\ HasCleared(h) => "cleared" \in mishaps'
  BY DEF Fail, InFlight, Moved, TypeOK, Defaults
<1>2. EntryInv'
  BY <1>1 DEF IInv, EntryInv
<1>3. OnlyInv'
  <2>1. \A g \in Slots \ {h} : HasCleared(g) => HasCleared(g)'
    BY <1>1 DEF HasCleared, Moved
  <2> QED
    BY <1>1, <2>1 DEF IInv, OnlyInv, Several
<1> QED
  BY <1>1, <1>2, <1>3, Ended, StepKeeps

-----------------------------------------------------------------------------

LEMMA ReceiveCreateInv ==
    ASSUME TypeOK, IInv, NEW h \in Slots, NEW body \in Bodies, ReceiveCreate(h, body)
    PROVE  IInv'
<1> DEFINE r == [NoRequest EXCEPT !.at = IF body.isDefault = TRUE THEN "clear" ELSE "count",
                                  !.body = body]
<1>1. r \in Request /\ r.body = body /\ r.at = IF body.isDefault = TRUE THEN "clear" ELSE "count"
  BY NoRequestType DEF Request, Bodies, CreateSteps, NoRequest
<1>2. Accept(h, r) /\ UNCHANGED entry
  BY DEF ReceiveCreate
<1> HIDE DEF r
<1> QED
  BY <1>1, <1>2, AcceptInv

LEMMA ReadEntryInv ==
    ASSUME TypeOK, IInv, NEW h \in Slots, NEW e \in Entries, NEW body \in Bodies,
           ReadEntry(h, e, body)
    PROVE  IInv'
<1> DEFINE both == Given(body.isDefault, entry[e].isDefault)
                     /\ Given(body.enabled, entry[e].enabled)
           r == [NoRequest EXCEPT !.at = IF both THEN "demote" ELSE "promote",
                                  !.id = e, !.body = body, !.chosen = both]
<1>1. Accept(h, r) /\ UNCHANGED entry /\ entry[e].exists
  BY DEF ReadEntry
<1>2. both \in BOOLEAN
  OBVIOUS
<1>3. /\ body.isDefault \in Field /\ body.enabled \in Field
      /\ entry[e].isDefault \in BOOLEAN /\ entry[e].enabled \in BOOLEAN
  BY DEF Bodies, TypeOK, EntryDoc
<1>4. both => /\ body.isDefault # FALSE /\ body.enabled # FALSE
              /\ body.isDefault = TRUE \/ entry[e].isDefault
  BY <1>3 DEF Given, Field
<1> HIDE DEF both
<1>5. /\ r \in Request /\ r.body = body /\ r.id = e /\ r.chosen = both
      /\ r.at = IF both THEN "demote" ELSE "promote"
  BY <1>2, NoRequestType DEF Request, Bodies, UpdateSteps, NoRequest
<1> HIDE DEF r
<1> QED
  BY <1>1, <1>2, <1>4, <1>5, AcceptInv

LEMMA NextInv == TypeOK /\ IInv /\ [Next]_vars => IInv'
<1> SUFFICES ASSUME TypeOK, IInv, [Next]_vars PROVE IInv'
  OBVIOUS
<1>1. CASE UNCHANGED vars
  <2> USE <1>1 DEF vars
  <2>1. /\ Defaults' = Defaults /\ Enabled' = Enabled /\ (Several' <=> Several)
        /\ \A h \in Slots : HasCleared(h)' <=> HasCleared(h)
    BY DEF Defaults, Enabled, Several, HasCleared
  <2>2. EntryInv' /\ OnlyInv'
    BY <2>1 DEF IInv, EntryInv, OnlyInv
  <2>3. RequestInv'
    BY <2>1 DEF IInv, RequestInv, RequestAt
  <2>4. OthersInv'
    BY <2>1 DEF IInv, OthersInv, OthersAt
  <2>5. OrderlyInv'
    BY <2>1 DEF IInv, OrderlyInv, AloneAt, InFlight, OneIsDefault, Owes
  <2> QED
    BY <2>2, <2>3, <2>4, <2>5 DEF IInv
<1>2. CASE Next
  <2> SUFFICES ASSUME NEW h \in Slots,
                      \/ \E body \in Bodies : ReceiveCreate(h, body)
                      \/ Clear(h) \/ CountDefaults(h) \/ \E e \in Entries : Insert(h, e)
                      \/ \E e \in Entries, body \in Bodies : ReadEntry(h, e, body)
                      \/ Promote(h) \/ Demote(h) \/ CountAll(h) \/ WriteEntry(h) \/ Fail(h)
               PROVE  IInv'
    BY <1>2 DEF Next
  <2> QED
    BY ReceiveCreateInv, ClearInv, CountDefaultsInv, InsertInv, ReadEntryInv, PromoteInv,
       DemoteInv, CountAllInv, WriteEntryInv, FailInv
<1> QED
  BY <1>1, <1>2

LEMMA Invariance == Spec => [](TypeOK /\ IInv)
BY InitType, NextType, InitInv, NextInv, PTL DEF Spec

-----------------------------------------------------------------------------
(***************************************************************************)
(* The theorems.                                                           *)
(***************************************************************************)

\* While there is a single entry it is the default, or a creation has cleared the
\* flag and not inserted its own entry, or was cut off in between: the second
\* handler's check that another entry exists stays true until it writes, because
\* entries are never deleted.
\* (taxesController/index.js:62 against the writes at 12 and 70)
THEOREM OnlyEntryCorrect == Spec => []OnlyEntryIsDefault
<1>1. TypeOK /\ IInv => OnlyEntryIsDefault
  <2> SUFFICES ASSUME TypeOK, IInv PROVE OnlyEntryIsDefault
    OBVIOUS
  <2>1. 1 \in Existing /\ (Cardinality(Existing) > 1 <=> Several)
    BY CountSeveral DEF IInv
  <2>2. 1 \in Entries
    BY <2>1 DEF Existing
  <2> QED
    BY <2>1, <2>2 DEF IInv, OnlyInv, OnlyEntryIsDefault, Defaults
<1> QED
  BY <1>1, Invariance, PTL

\* Requests served one at a time, without failure, leave no two enabled entries
\* without a default between them.
\* (taxesController/index.js:15-24 and 50-52)
THEOREM DefaultKept == Spec => []DefaultAmongSeveral
<1>1. TypeOK /\ IInv => DefaultAmongSeveral
  <2> SUFFICES ASSUME TypeOK, IInv, mishaps = {}, InFlight = {}, Cardinality(Enabled) > 1
               PROVE  Defaults # {}
    BY DEF DefaultAmongSeveral
  <2>1. OneIsDefault
    BY DEF IInv, OrderlyInv, InFlight, Owes, HasCleared
  <2>2. IsFiniteSet(Enabled)
    BY CountSeveral DEF IInv
  <2>3. PICK e \in Enabled : TRUE
    BY FS_EmptySet
  <2>4. Enabled # {e}
    <3>1. Cardinality({e}) = 1
      BY FS_Singleton
    <3> QED
      BY <3>1
  <2>5. PICK f \in Enabled : f # e
    BY <2>3, <2>4
  <2> QED
    BY <2>1, <2>3, <2>5 DEF OneIsDefault
<1> QED
  BY <1>1, Invariance, PTL

\* A request that asks for the default leaves no entry default but its own and those
\* that others have made default since it cleared the flags, however many requests
\* overlap and fail; and it gets the default, but for a creation before whose count
\* another request took it.
\* (taxesController/index.js:11-24 and 54-72)
THEOREM DefaultGranted == Spec => DefaultAsRequested
<1> DEFINE A(h) ==
      LET r == request[h]
      IN  /\ WriteEntry(h) /\ r.chosen =>
               /\ Defaults' \subseteq {r.id} \cup r.others
               /\ r.body.isDefault = TRUE => r.id \in Defaults'
          /\ \A e \in Entries : Insert(h, e) =>
               /\ e \in Defaults' => Defaults' \subseteq {e} \cup r.others
               /\ r.body.isDefault = TRUE => e \in Defaults' \/ r.others # {}
<1>1. ASSUME TypeOK, IInv, NEW h \in Slots PROVE A(h)
  <2> DEFINE r == request[h]
  <2>1. OthersAt(h)
    BY <1>1 DEF IInv, OthersInv
  <2>2. ASSUME WriteEntry(h), r.chosen
        PROVE  /\ Defaults' \subseteq {r.id} \cup r.others
               /\ r.body.isDefault = TRUE => r.id \in Defaults'
    <3>1. r.at = "write" /\ r.id \in Entries
      BY <1>1, <2>2 DEF TypeOK, WriteEntry, Request
    <3>2. Defaults \subseteq {r.id} \cup r.others
      BY <2>1, <2>2, <3>1 DEF OthersAt
    <3>3. Defaults' \subseteq {r.id} \cup Defaults
      BY <1>1, <2>2, Written DEF Defaults
    <3>4. r.body.isDefault = TRUE => entry'[r.id].isDefault
      BY <1>1, <2>2, Written, GivenTrue DEF Given, Field
    <3> QED
      BY <3>1, <3>2, <3>3, <3>4 DEF Defaults
  <2>3. ASSUME NEW e \in Entries, Insert(h, e)
        PROVE  /\ e \in Defaults' => Defaults' \subseteq {e} \cup r.others
               /\ r.body.isDefault = TRUE => e \in Defaults' \/ r.others # {}
    <3>1. r.at = "insert" /\ r.chosen \in BOOLEAN
      BY <1>1, <2>3 DEF Insert, TypeOK, Request
    <3>2. /\ entry'[e].isDefault = r.chosen
          /\ \A f \in Entries \ {e} : entry'[f] = entry[f]
      BY <1>1, <2>3 DEF Insert, TypeOK, EntryDoc
    <3>3. /\ r.chosen => Defaults \subseteq r.others
          /\ r.body.isDefault = TRUE => r.chosen \/ r.others # {}
      BY <2>1, <3>1 DEF OthersAt
    <3> QED
      BY <3>1, <3>2, <3>3 DEF Defaults
  <2> QED
    BY <2>2, <2>3
<1>2. TypeOK /\ IInv => [\A h \in Slots : A(h)]_vars
  BY <1>1
<1> QED
  BY <1>2, Invariance, PTL DEF DefaultAsRequested
=============================================================================
