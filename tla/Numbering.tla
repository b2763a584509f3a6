----------------------------- MODULE Numbering -----------------------------
(***************************************************************************)
(* The numbers of invoices and quotes.  The server keeps one counter per   *)
(* kind among its settings; a browser proposes in the form of a new        *)
(* document one more than its copy of the counter; the server stores the   *)
(* number the form sends, whatever it is, and increases the counter by a   *)
(* call it does not wait for.  The settings page writes its copies of all  *)
(* the counters back together with the one the user has changed.           *)
(*                                                                         *)
(* Pages are reloaded, calls overlap and fail, and the app leaves the      *)
(* screen and comes back as the answers to settings calls arrive.          *)
(***************************************************************************)
EXTENDS Naturals

CONSTANTS
    Browsers,
    Kinds,       \* the kinds of documents that have a counter
    Ids,         \* the documents there may ever be
    Slots,       \* bound: the settings calls there may be at one time
    Typed,       \* the numbers a user types
    MaxClicks,   \* bound: so often users open a page, type or save settings
    MaxFailures, \* bound: so many calls fail
    None         \* no browser, no kind

ASSUME NumberingAssumption ==
    /\ None \notin Browsers \cup Kinds
    /\ Typed \subseteq Nat
    /\ MaxClicks \in Nat /\ MaxFailures \in Nat

VARIABLES
    setting,    \* the counters on the server
    doc,        \* the documents and the requests that create them
    web,        \* the browsers
    call,       \* the settings calls in flight
    rewound,    \* history: the kinds whose counter a save has lowered
    spent       \* the clicks of users and the failures of calls

vars == <<setting, doc, web, call, rewound, spent>>

\* The counters, and how often each has changed.
Copy == [last : [Kinds -> Nat], version : [Kinds -> Nat]]

\* Kind and number as the form sends them; version is that of the counter in
\* the copy they were proposed from, typed tells that the user changed them.
Form == [kind : Kinds \cup {None}, number : Nat, version : Nat, typed : BOOLEAN]

\* sent, saved, named: the steps of the handler that creates the document.
\* counted, uncounted: the increment was done or lost.  refused: not stored.
\* at: the version of the counter that was the first to count the document.
Doc == [stage : {"none", "sent", "saved", "named", "counted", "uncounted", "refused"},
        form : Form, at : Nat]

\* page: the route; form: what the form of a new document holds.
\* overlapped, failed: history of the settings calls since the page was loaded.
Web == [copy : Copy, isLoading : BOOLEAN, isSuccess : BOOLEAN,
        page : {"closed", "other", "new", "settings"}, form : Form,
        overlapped : BOOLEAN, failed : BOOLEAN]

\* A call lists the settings, or saves the counters in todo as in copy, of
\* which the user has changed that of key.
Call == [by : Browsers \cup {None}, stage : {"free", "list", "listed", "save", "failed"},
         copy : Copy, todo : SUBSET Kinds, key : Kinds \cup {None}]

TypeOK ==
    /\ setting \in Copy
    /\ doc \in [Ids -> Doc]
    /\ web \in [Browsers -> Web]
    /\ call \in [Slots -> Call]
    /\ rewound \subseteq Kinds
    /\ spent \in [clicks : Nat, failures : Nat]

-----------------------------------------------------------------------------

NoCopy == [last |-> [k \in Kinds |-> 0], version |-> [k \in Kinds |-> 0]]
NoForm == [kind |-> None, number |-> 0, version |-> 0, typed |-> FALSE]
NoCall == [by |-> None, stage |-> "free", copy |-> NoCopy, todo |-> {}, key |-> None]
Closed == [copy |-> NoCopy, isLoading |-> FALSE, isSuccess |-> FALSE, page |-> "closed",
           form |-> NoForm, overlapped |-> FALSE, failed |-> FALSE]

\* The counters as the setup leaves them; no browser has loaded the page.
Init ==
    /\ setting = NoCopy
    /\ doc = [d \in Ids |-> [stage |-> "none", form |-> NoForm, at |-> 0]]
    /\ web = [w \in Browsers |-> Closed]
    /\ call = [s \in Slots |-> NoCall]
    /\ rewound = {}
    /\ spent = [clicks |-> 0, failures |-> 0]

-----------------------------------------------------------------------------
(***************************************************************************)
(* The store of the settings.                                              *)
(***************************************************************************)

InFlight(w) == {s \in Slots : call[s].by = w}

RequestLoading(r, w, s) ==
    [r EXCEPT !.isLoading = TRUE, !.overlapped = @ \/ InFlight(w) \ {s} # {}]

\* Mutant: a failure does not end the loading.
FailedLoading(r) == [r EXCEPT !.isSuccess = FALSE, !.failed = TRUE]

\* The app is shown only while isSuccess: the form is unmounted with it.
RequestFailed(r) ==
    [r EXCEPT !.isLoading = FALSE, !.isSuccess = FALSE, !.failed = TRUE,
              !.form = [NoForm EXCEPT !.kind = r.form.kind]]

\* Mutant: the flags and the copy alone are left.
RequestSuccessBare(r, copy) == [copy |-> copy, isLoading |-> FALSE, isSuccess |-> TRUE]

\* Mutant: the values that are in the store win over those of the answer.
RequestSuccessMerged(r, copy) ==
    [r EXCEPT !.copy = [copy EXCEPT !.last = IF r.isSuccess THEN r.copy.last ELSE @],
              !.isLoading = FALSE, !.isSuccess = TRUE]

RequestSuccess(r, copy) ==
    [r EXCEPT !.copy = copy, !.isLoading = FALSE, !.isSuccess = TRUE]

\* What the form of a new document holds when it is mounted.
Proposal(copy, k) ==
    [kind |-> k, number |-> copy.last[k] + 1, version |-> copy.version[k], typed |-> FALSE]

ListCall(w) == [NoCall EXCEPT !.by = w, !.stage = "list"]

Spend(what, max) ==
    /\ spent[what] < max
    /\ spent' = [spent EXCEPT ![what] = @ + 1]

Shown(w) == web[w].isSuccess
FreeDocs == {d \in Ids : doc[d].stage = "none"}

-----------------------------------------------------------------------------
(***************************************************************************)
(* The user.                                                               *)
(***************************************************************************)

\* Loading the page, or loading it again.  The calls of the page that was
\* there before are served, and answered to nobody.
OpenApp(w, s) ==
    /\ call[s].stage = "free" \/ (call[s].by = w /\ call[s].stage # "save")
    /\ web' = [web EXCEPT ![w] =
         [Closed EXCEPT !.isLoading = TRUE,
                        !.page = IF web[w].page = "closed" THEN "other" ELSE web[w].page,
                        !.form.kind = web[w].form.kind]]
    /\ call' = [t \in Slots |->
         IF t = s THEN ListCall(w)
         ELSE IF call[t].by # w THEN call[t]
         ELSE IF call[t].stage = "save" THEN [call[t] EXCEPT !.by = None]
         ELSE NoCall]
    /\ Spend("clicks", MaxClicks)
    /\ UNCHANGED <<setting, doc, rewound>>

\* The form takes its proposal from the copy there is, and has the settings
\* listed again, which does not change the proposal.
OpenForm(w, k, s) ==
    /\ Shown(w) /\ web[w].page # "new" /\ call[s].stage = "free"
    /\ web' = [web EXCEPT ![w] =
         RequestLoading([@ EXCEPT !.page = "new", !.form = Proposal(web[w].copy, k)], w, s)]
    /\ call' = [call EXCEPT ![s] = ListCall(w)]
    /\ Spend("clicks", MaxClicks)
    /\ UNCHANGED <<setting, doc, rewound>>

TypeNumber(w, n) ==
    /\ Shown(w) /\ web[w].page = "new" /\ n > 0
    /\ web' = [web EXCEPT ![w].form.number = n, ![w].form.typed = TRUE]
    /\ Spend("clicks", MaxClicks)
    /\ UNCHANGED <<setting, doc, call, rewound>>

\* The button in the header stays active while a save is in flight.
Save(w, d) ==
    /\ Shown(w) /\ web[w].page = "new" /\ d \in FreeDocs
    /\ doc' = [doc EXCEPT ![d].stage = "sent", ![d].form = web[w].form]
    /\ UNCHANGED <<setting, web, call, rewound, spent>>

\* The user leaves the form, or the answer to a save does.
LeavePage(w) ==
    /\ Shown(w) /\ web[w].page \in {"new", "settings"}
    /\ web' = [web EXCEPT ![w].page = "other", ![w].form = NoForm]
    /\ UNCHANGED <<setting, doc, call, rewound, spent>>

OpenSettings(w) ==
    /\ Shown(w) /\ web[w].page = "other"
    /\ web' = [web EXCEPT ![w].page = "settings"]
    /\ Spend("clicks", MaxClicks)
    /\ UNCHANGED <<setting, doc, call, rewound>>

\* The form of the finance settings sends all its fields.
SaveCounters(w, s, k, n) ==
    /\ Shown(w) /\ web[w].page = "settings" /\ call[s].stage = "free"
    /\ web' = [web EXCEPT ![w] = RequestLoading(@, w, s)]
    /\ call' = [call EXCEPT ![s] =
         [by |-> w, stage |-> "save", copy |-> [web[w].copy EXCEPT !.last[k] = n],
          todo |-> Kinds, key |-> k]]
    /\ Spend("clicks", MaxClicks)
    /\ UNCHANGED <<setting, doc, rewound>>

\* The form of another category, or the upload of the logo.
SaveOthers(w, s) ==
    /\ Shown(w) /\ web[w].page = "settings" /\ call[s].stage = "free"
    /\ web' = [web EXCEPT ![w] = RequestLoading(@, w, s)]
    /\ call' = [call EXCEPT ![s] = [NoCall EXCEPT !.by = w, !.stage = "save"]]
    /\ Spend("clicks", MaxClicks)
    /\ UNCHANGED <<setting, doc, rewound>>

-----------------------------------------------------------------------------
(***************************************************************************)
(* The server.                                                             *)
(***************************************************************************)

\* A change of one counter.
Changed(k, n) ==
    [setting EXCEPT !.last[k] = n, !.version[k] = @ + (IF n = setting.last[k] THEN 0 ELSE 1)]

ServeList(s) ==
    /\ call[s].stage = "list"
    /\ call' = [call EXCEPT ![s].stage = "listed", ![s].copy = setting]
    /\ UNCHANGED <<setting, doc, web, rewound, spent>>

\* Mutant: the save writes the counter of the key to all.
WrittenAll(s, k) ==
    IF call[s].key = None THEN setting.last[k] ELSE call[s].copy.last[call[s].key]

Written(s, k) == call[s].copy.last[k]

\* One update of the bulk write; the counters are written in any order.
ServeKey(s, k) ==
    /\ call[s].stage = "save" /\ k \in call[s].todo
    /\ setting' = Changed(k, Written(s, k))
    /\ rewound' = IF Written(s, k) < setting.last[k] THEN rewound \cup {k} ELSE rewound
    /\ call' = [call EXCEPT ![s].todo = @ \ {k}]
    /\ UNCHANGED <<doc, web, spent>>

\* The database fails, also between two updates of a bulk write, or the call
\* or its answer is lost.
FailCall(s) ==
    /\ call[s].stage \in {"list", "listed", "save"}
    /\ call' = [call EXCEPT ![s].stage = "failed"]
    /\ Spend("failures", MaxFailures)
    /\ UNCHANGED <<setting, doc, web, rewound>>

SaveDoc(d) ==
    /\ doc[d].stage = "sent"
    /\ doc' = [doc EXCEPT ![d].stage = "saved"]
    /\ UNCHANGED <<setting, web, call, rewound, spent>>

NamePdf(d) ==
    /\ doc[d].stage = "saved"
    /\ doc' = [doc EXCEPT ![d].stage = "named"]
    /\ UNCHANGED <<setting, web, call, rewound, spent>>

\* The increment, while the answer is already on its way.
IncreaseBySettingKey(d) ==
    /\ doc[d].stage = "named"
    /\ LET k == doc[d].form.kind
       IN  /\ setting' = Changed(k, setting.last[k] + 1)
           /\ doc' = [doc EXCEPT ![d].stage = "counted", ![d].at = setting.version[k] + 1]
    /\ UNCHANGED <<web, call, rewound, spent>>

\* The document is refused; or it is stored, and what follows fails.
FailDoc(d) ==
    /\ doc[d].stage \in {"sent", "saved", "named"}
    /\ doc' = [doc EXCEPT ![d].stage = IF @ = "sent" THEN "refused" ELSE "uncounted"]
    /\ Spend("failures", MaxFailures)
    /\ UNCHANGED <<setting, web, call, rewound>>

-----------------------------------------------------------------------------
(***************************************************************************)
(* The answers.                                                            *)
(***************************************************************************)

\* Mutant: what was sent is taken for the settings.
AfterSaveSent(s, w) == [ListCall(w) EXCEPT !.stage = "listed", !.copy = call[s].copy]

\* The settings are listed again after a save.
AfterSave(s, w) == ListCall(w)

AnswerSave(s) ==
    /\ call[s].stage = "save" /\ call[s].todo = {}
    /\ LET w == call[s].by
       IN  IF w = None
           THEN /\ call' = [call EXCEPT ![s] = NoCall]
                /\ UNCHANGED web
           ELSE /\ call' = [call EXCEPT ![s] = AfterSave(s, w)]
                /\ web' = [web EXCEPT ![w] = RequestLoading(@, w, s)]
    /\ UNCHANGED <<setting, doc, rewound, spent>>

\* The copy is replaced.  When the app was not shown, its page is mounted
\* anew; the form of a new document then proposes anew and lists again.
AnswerList(s) ==
    /\ call[s].stage = "listed"
    /\ LET w == call[s].by
           r == RequestSuccess(web[w], call[s].copy)
           k == web[w].form.kind
           again == ~ Shown(w) /\ web[w].page = "new"
       IN  IF again
           THEN /\ web' = [web EXCEPT ![w] =
                     RequestLoading([r EXCEPT !.form = Proposal(r.copy, k)], w, s)]
                /\ call' = [call EXCEPT ![s] = ListCall(w)]
           ELSE /\ web' = [web EXCEPT ![w] = r]
                /\ call' = [call EXCEPT ![s] = NoCall]
    /\ UNCHANGED <<setting, doc, rewound, spent>>

AnswerFailed(s) ==
    /\ call[s].stage = "failed"
    /\ call' = [call EXCEPT ![s] = NoCall]
    /\ IF call[s].by = None THEN UNCHANGED web
       ELSE web' = [web EXCEPT ![call[s].by] = RequestFailed(@)]
    /\ UNCHANGED <<setting, doc, rewound, spent>>

-----------------------------------------------------------------------------

User ==
    \E w \in Browsers :
        \/ \E s \in Slots :
              \/ OpenApp(w, s)
              \/ \E k \in Kinds : OpenForm(w, k, s)
              \/ \E k \in Kinds, n \in Typed : SaveCounters(w, s, k, n)
              \/ SaveOthers(w, s)
        \/ \E n \in Typed : TypeNumber(w, n)
        \/ \E d \in Ids : Save(w, d)
        \/ LeavePage(w)
        \/ OpenSettings(w)

Settings ==
    \E s \in Slots :
        \/ ServeList(s)
        \/ \E k \in Kinds : ServeKey(s, k)
        \/ FailCall(s)
        \/ AnswerSave(s)
        \/ AnswerList(s)
        \/ AnswerFailed(s)

Creation ==
    \E d \in Ids : SaveDoc(d) \/ NamePdf(d) \/ IncreaseBySettingKey(d) \/ FailDoc(d)

Next == User \/ Settings \/ Creation

Spec == Init /\ [][Next]_vars

-----------------------------------------------------------------------------
(***************************************************************************)
(* Properties.                                                             *)
(***************************************************************************)

\* A document that carries the number its form proposed.
Untouched(d) == doc[d].stage \notin {"none", "refused"} /\ ~ doc[d].form.typed

\* Two documents that kept the numbers they were proposed share a number only
\* if the later form took its proposal from a copy that did not count the
\* earlier document: because the copy was old, the increment had not been done
\* when the copy was read, or was lost.  Unless a save of the settings has
\* lowered the counter: then numbers that were used are proposed again.
FreshProposalIsNew ==
    \A d, e \in Ids :
        /\ Untouched(d) /\ Untouched(e)
        /\ d # e /\ doc[d].form.kind = doc[e].form.kind
        /\ doc[d].form.kind \notin rewound
        /\ doc[d].stage = "counted" /\ doc[d].at <= doc[e].form.version
        => doc[d].form.number < doc[e].form.number

\* Every loader ends: while the store of the settings is loading a settings
\* call of the browser is in flight, and the app is kept from the screen by
\* a call in flight or by one that failed.  (After a failure it stays away
\* until the page is loaded again, or another call happens to succeed.)
LoadersHaveACause ==
    \A w \in Browsers : web[w].page # "closed" =>
        /\ web[w].isLoading => InFlight(w) # {}
        /\ ~ Shown(w) => InFlight(w) # {} \/ web[w].failed

\* The copy of a browser is never replaced by an older one, unless settings
\* calls of that browser have overlapped: their answers may be reordered.
CopyNeverOlder ==
    [][\A w \in Browsers : ~ web'[w].overlapped /\ web'[w].isSuccess =>
          \A k \in Kinds : web'[w].copy.version[k] >= web[w].copy.version[k]]_vars

\* Saving the settings changes a counter that the user did not change only if
\* that counter had changed since the browser copied it: the save then undoes
\* that change.
SaveKeepsTheRest ==
    [][\A s \in Slots : \A k \in call[s].todo \ call'[s].todo :
          setting'.last[k] # setting.last[k] =>
              call[s].key = k \/ call[s].copy.version[k] < setting.version[k]]_vars
=============================================================================
