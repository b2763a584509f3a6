-------------------------- MODULE NumberingProofs --------------------------
(***************************************************************************)
(* Theorems about Numbering, for any number of browsers, kinds, documents, *)
(* settings calls, clicks and failures, and for any numbers that are typed.*)
(***************************************************************************)
EXTENDS Numbering, TLAPS

USE NumberingAssumption

-----------------------------------------------------------------------------
(***************************************************************************)
(* Invariants.                                                             *)
(***************************************************************************)

\* A form that is open, and a document, are of a kind that has a counter.
KindInv ==
    /\ \A w \in Browsers : web[w].page = "new" => web[w].form.kind \in Kinds
    /\ \A d \in Ids : doc[d].stage # "none" => doc[d].form.kind \in Kinds

\* A list is made for a browser, and changes no counter; a slot that is free is
\* of none.
CallInv ==
    \A s \in Slots :
        /\ call[s].stage \in {"list", "listed"} => call[s].by \in Browsers /\ call[s].key = None
        /\ call[s].stage = "free" => call[s].by = None

TypeInv == TypeOK /\ KindInv /\ CallInv

\* The copy c of the counter of k is of some earlier time: it has the version of
\* the counter only if it has its value too.
OldCopy(c, k) ==
    /\ c.version[k] <= setting.version[k]
    /\ c.version[k] = setting.version[k] => c.last[k] = setting.last[k]

\* A proposal is no newer than the counter.
OldForm(f) == f.kind \in Kinds => f.version <= setting.version[f.kind]

\* All copies are of earlier times, but for the counter a save is to change.
CopyInv ==
    /\ \A k \in Kinds :
          /\ OldCopy(NoCopy, k)
          /\ \A w \in Browsers : OldCopy(web[w].copy, k)
          /\ \A s \in Slots : call[s].key # k => OldCopy(call[s].copy, k)
    /\ \A w \in Browsers : OldForm(web[w].form)
    /\ \A d \in Ids : OldForm(doc[d].form)

\* A browser that has had one settings call at a time has one now, and will
\* find in it a copy no older than the one it has.
OverlapInv ==
    \A w \in Browsers : ~web[w].overlapped =>
        /\ \A s, t \in InFlight(w) : s = t
        /\ \A s \in InFlight(w) : call[s].stage = "listed" =>
              \A k \in Kinds : web[w].copy.version[k] <= call[s].copy.version[k]

\* The document d of kind k was counted with the number that was proposed.
Counted(d, k) == doc[d].stage = "counted" /\ ~doc[d].form.typed /\ doc[d].form.kind = k

\* The copy c of the counter of k counts the documents that it is new enough for.
CountingCopy(c, k) ==
    /\ c.last[k] <= setting.last[k]
    /\ \A d \in Ids :
          Counted(d, k) /\ doc[d].at <= c.version[k] => doc[d].form.number <= c.last[k]

\* The proposal f is beyond the documents that it is new enough for.
FreshForm(f) ==
    f.kind \in Kinds \ rewound /\ ~f.typed =>
        /\ f.number <= setting.last[f.kind] + 1
        /\ \A d \in Ids :
              Counted(d, f.kind) /\ doc[d].at <= f.version => doc[d].form.number < f.number

\* A counter that no save has lowered counts the documents, in all its copies.
CountInv ==
    /\ \A k \in Kinds \ rewound :
          /\ \A d \in Ids : Counted(d, k) => doc[d].form.number <= setting.last[k]
          /\ \A w \in Browsers : CountingCopy(web[w].copy, k)
          /\ \A s \in Slots : call[s].key # k => CountingCopy(call[s].copy, k)
    /\ \A w \in Browsers : FreshForm(web[w].form)
    /\ \A d \in Ids : FreshForm(doc[d].form)
    /\ \A d \in Ids : doc[d].stage = "counted" => doc[d].at > 0

IInv ==
    /\ TypeInv
    /\ CopyInv
    /\ OverlapInv
    /\ LoadersHaveACause
    /\ CountInv

-----------------------------------------------------------------------------
(***************************************************************************)
(* Values.                                                                 *)
(***************************************************************************)

LEMMA CopyFields ==
    ASSUME NEW c \in Copy, NEW k \in Kinds
    PROVE  c.last[k] \in Nat /\ c.version[k] \in Nat
BY DEF Copy

LEMMA NoCopyStep ==
    /\ NoCopy \in Copy
    /\ \A k \in Kinds : NoCopy.last[k] = 0 /\ NoCopy.version[k] = 0
BY DEF NoCopy, Copy

LEMMA NoFormStep ==
    ASSUME NEW k \in Kinds \cup {None}
    PROVE  LET f == [NoForm EXCEPT !.kind = k]
           IN  /\ f \in Form /\ f.kind = k /\ f.version = 0 /\ f.number = 0
               /\ NoForm \in Form /\ NoForm.kind = None
BY DEF NoForm, Form

LEMMA ProposalStep ==
    ASSUME NEW c \in Copy, NEW k \in Kinds
    PROVE  LET f == Proposal(c, k)
           IN  /\ f \in Form /\ f.kind = k
               /\ f.number = c.last[k] + 1 /\ f.version = c.version[k]
BY CopyFields DEF Proposal, Form

LEMMA WebFields ==
    ASSUME NEW r \in Web
    PROVE  /\ r.copy \in Copy /\ r.form \in Form /\ r.isLoading \in BOOLEAN
           /\ r.isSuccess \in BOOLEAN /\ r.overlapped \in BOOLEAN /\ r.failed \in BOOLEAN
           /\ r.page \in {"closed", "other", "new", "settings"}
           /\ r.form.kind \in Kinds \cup {None}
BY DEF Web, Form

\* What is left alone of a browser whose settings are being loaded.
Loaded(q, r) ==
    /\ q.copy = r.copy /\ (q.isSuccess <=> r.isSuccess) /\ (q.failed <=> r.failed)
    /\ q.page = r.page /\ q.form = r.form

LEMMA LoadingStep ==
    ASSUME NEW r \in Web, NEW w, NEW s
    PROVE  LET q == RequestLoading(r, w, s)
           IN  /\ q \in Web /\ Loaded(q, r) /\ q.isLoading
               /\ q.overlapped <=> r.overlapped \/ InFlight(w) \ {s} # {}
<1> DEFINE b == r.overlapped \/ InFlight(w) \ {s} # {}
<1>1. b \in BOOLEAN /\ RequestLoading(r, w, s) = [r EXCEPT !.isLoading = TRUE, !.overlapped = b]
  BY WebFields DEF RequestLoading
<1>2. b <=> (r.overlapped \/ InFlight(w) \ {s} # {})
  OBVIOUS
<1> HIDE DEF b
<1>3. LET q == [r EXCEPT !.isLoading = TRUE, !.overlapped = b]
      IN  q \in Web /\ Loaded(q, r) /\ q.isLoading /\ q.overlapped = b
  BY <1>1 DEF Web, Loaded
<1> QED
  BY <1>1, <1>2, <1>3

LEMMA FailedStep ==
    ASSUME NEW r \in Web
    PROVE  LET q == RequestFailed(r)
           IN  /\ q \in Web /\ ~q.isLoading /\ q.failed /\ q.copy = r.copy /\ q.page = r.page
               /\ (q.overlapped <=> r.overlapped)
               /\ q.form.kind = r.form.kind /\ q.form.version = 0 /\ q.form.number = 0
<1> DEFINE f == [NoForm EXCEPT !.kind = r.form.kind]
<1>1. f \in Form /\ f.kind = r.form.kind /\ f.version = 0 /\ f.number = 0
  BY WebFields, NoFormStep
<1>2. RequestFailed(r) = [r EXCEPT !.isLoading = FALSE, !.isSuccess = FALSE, !.failed = TRUE,
                                   !.form = f]
  BY DEF RequestFailed
<1> HIDE DEF f
<1>3. LET q == RequestFailed(r)
      IN  /\ q \in Web /\ ~q.isLoading /\ q.failed /\ q.copy = r.copy /\ q.page = r.page
          /\ q.overlapped = r.overlapped /\ q.form = f
  BY <1>1, <1>2 DEF Web
<1> QED
  BY <1>1, <1>3

LEMMA SuccessStep ==
    ASSUME NEW r \in Web, NEW c \in Copy
    PROVE  LET q == RequestSuccess(r, c)
           IN  /\ q \in Web /\ ~q.isLoading /\ q.isSuccess /\ q.copy = c /\ q.page = r.page
               /\ q.form = r.form /\ (q.overlapped <=> r.overlapped) /\ (q.failed <=> r.failed)
BY DEF RequestSuccess, Web

LEMMA FormStep ==
    ASSUME NEW r \in Web, NEW f \in Form, NEW p \in {"other", "new", "settings"}
    PROVE  LET q == [r EXCEPT !.page = p, !.form = f]
           IN  /\ q \in Web /\ q.copy = r.copy /\ q.page = p /\ q.form = f
               /\ (q.overlapped <=> r.overlapped) /\ (q.failed <=> r.failed)
               /\ (q.isLoading <=> r.isLoading) /\ (q.isSuccess <=> r.isSuccess)
BY DEF Web

LEMMA TypedStep ==
    ASSUME NEW r \in Web, NEW n \in Nat
    PROVE  LET q == [r EXCEPT !.form.number = n, !.form.typed = TRUE]
           IN  /\ q \in Web /\ q.copy = r.copy /\ q.page = r.page
               /\ (q.overlapped <=> r.overlapped) /\ (q.failed <=> r.failed)
               /\ (q.isLoading <=> r.isLoading) /\ (q.isSuccess <=> r.isSuccess)
               /\ q.form.typed /\ q.form.kind = r.form.kind /\ q.form.version = r.form.version
<1> DEFINE f == [r.form EXCEPT !.number = n, !.typed = TRUE]
           q == [r EXCEPT !.form.number = n, !.form.typed = TRUE]
<1>1. r.form \in Form
  BY WebFields
<1>2. f \in Form /\ f.typed /\ f.kind = r.form.kind /\ f.version = r.form.version
  BY <1>1 DEF Form
<1>3. q = [r EXCEPT !.form = f]
  BY DEF Web
<1> HIDE DEF f, q
<1>4. q \in Web /\ q.form = f
  BY <1>2, <1>3 DEF Web
<1>5. /\ q.copy = r.copy /\ q.page = r.page
      /\ (q.overlapped <=> r.overlapped) /\ (q.failed <=> r.failed)
      /\ (q.isLoading <=> r.isLoading) /\ (q.isSuccess <=> r.isSuccess)
  BY <1>3 DEF Web
<1> QED
  BY <1>2, <1>4, <1>5 DEF q

\* A browser that loads the page p anew, for documents of kind k.
Opened(p, k) == [Closed EXCEPT !.isLoading = TRUE, !.page = p, !.form.kind = k]

LEMMA ClosedStep ==
    ASSUME NEW k \in Kinds \cup {None}, NEW p \in {"other", "new", "settings"}
    PROVE  LET q == Opened(p, k)
           IN  /\ q \in Web /\ q.copy = NoCopy /\ q.page = p /\ q.isLoading
               /\ ~q.isSuccess /\ ~q.overlapped
               /\ q.form.kind = k /\ q.form.version = 0 /\ q.form.number = 0
<1> DEFINE f == [NoForm EXCEPT !.kind = k]
           q == Opened(p, k)
<1>1. f \in Form /\ f.kind = k /\ f.version = 0 /\ f.number = 0
  BY NoFormStep
<1>2. Closed \in Web /\ Closed.form = NoForm /\ Closed.copy = NoCopy
        /\ ~Closed.isSuccess /\ ~Closed.overlapped
  BY NoCopyStep, NoFormStep DEF Closed, Web
<1>3. q = [Closed EXCEPT !.isLoading = TRUE, !.page = p, !.form = f]
  BY <1>2 DEF Opened, Web
<1> HIDE DEF f, q
<1>4. q \in Web /\ q.copy = NoCopy /\ q.page = p /\ q.isLoading /\ ~q.isSuccess /\ ~q.overlapped
        /\ q.form = f
  BY <1>1, <1>2, <1>3 DEF Web
<1> QED
  BY <1>1, <1>4 DEF q

LEMMA NoCallStep ==
    /\ NoCall \in Call /\ NoCall.by = None /\ NoCall.stage = "free"
    /\ NoCall.copy = NoCopy /\ NoCall.key = None /\ NoCall.todo = {}
BY NoCopyStep DEF NoCall, Call

LEMMA ListCallStep ==
    ASSUME NEW w \in Browsers
    PROVE  LET c == ListCall(w)
           IN  /\ c \in Call /\ c.by = w /\ c.stage = "list"
               /\ c.copy = NoCopy /\ c.key = None /\ c.todo = {}
BY NoCallStep DEF ListCall, Call

LEMMA CallFields ==
    ASSUME NEW c \in Call
    PROVE  /\ c.by \in Browsers \cup {None} /\ c.copy \in Copy /\ c.todo \subseteq Kinds
           /\ c.key \in Kinds \cup {None}
           /\ c.stage \in {"free", "list", "listed", "save", "failed"}
BY DEF Call

LEMMA DocFields ==
    ASSUME NEW d \in Doc
    PROVE  /\ d.form \in Form /\ d.at \in Nat
           /\ d.stage \in {"none", "sent", "saved", "named", "counted", "uncounted", "refused"}
BY DEF Doc

\* A counter is written: it has another version unless it has its value still.
LEMMA ChangedStep ==
    ASSUME setting \in Copy, NEW k \in Kinds, NEW n \in Nat
    PROVE  LET c == Changed(k, n)
           IN  /\ c \in Copy
               /\ \A j \in Kinds \ {k} : c.last[j] = setting.last[j] /\ c.version[j] = setting.version[j]
               /\ c.last[k] = n
               /\ c.version[k] = setting.version[k] + (IF n = setting.last[k] THEN 0 ELSE 1)
<1> DEFINE v == setting.version[k] + (IF n = setting.last[k] THEN 0 ELSE 1)
<1>1. v \in Nat
  BY CopyFields
<1>2. Changed(k, n) = [setting EXCEPT !.last[k] = n, !.version[k] = v]
  BY DEF Changed
<1> HIDE DEF v
<1>3. LET c == [setting EXCEPT !.last[k] = n, !.version[k] = v]
      IN  /\ c.last = [setting.last EXCEPT ![k] = n]
          /\ c.version = [setting.version EXCEPT ![k] = v]
          /\ c \in Copy
  BY <1>1 DEF Copy
<1> QED
  BY <1>2, <1>3 DEF Copy, v


LEMMA Types ==
    ASSUME TypeInv
    PROVE  /\ setting \in Copy /\ doc \in [Ids -> Doc] /\ web \in [Browsers -> Web]
           /\ call \in [Slots -> Call] /\ rewound \subseteq Kinds
           /\ spent \in [clicks : Nat, failures : Nat]
           /\ KindInv /\ CallInv
BY DEF TypeInv, TypeOK

LEMMA SpendStep ==
    ASSUME TypeInv, NEW what \in {"clicks", "failures"}, NEW max, Spend(what, max)
    PROVE  spent' \in [clicks : Nat, failures : Nat]
BY Types DEF Spend

-----------------------------------------------------------------------------
(***************************************************************************)
(* Steps.                                                                  *)
(***************************************************************************)

\* Where the copy c of the counter of k has been taken from: it is the counter, or
\* a copy that there was, but for the one that a save is to change.
Agree(c, e, k) == c.last[k] = e.last[k] /\ c.version[k] = e.version[k]

CopySource(c, k) ==
    \/ Agree(c, NoCopy, k)
    \/ Agree(c, setting, k)
    \/ \E w \in Browsers : Agree(c, web[w].copy, k)
    \/ \E s \in Slots : call[s].key # k /\ Agree(c, call[s].copy, k)

\* Where the form f has been taken from: it was there, perhaps with another number,
\* or is empty, or a proposal from a copy.
FormSource(f) ==
    \/ \E w \in Browsers : f = web[w].form
    \/ f.version = 0 /\ f.number = 0
    \/ \E w \in Browsers :
          f.typed /\ f.kind = web[w].form.kind /\ f.version = web[w].form.version
    \/ /\ f.kind \in Kinds
       /\ \/ \E w \in Browsers :
                /\ f.version = web[w].copy.version[f.kind]
                /\ f.number = web[w].copy.last[f.kind] + 1
          \/ \E s \in Slots :
                /\ call[s].key # f.kind
                /\ f.version = call[s].copy.version[f.kind]
                /\ f.number = call[s].copy.last[f.kind] + 1

\* Every copy and every form there is after a step.
Sources ==
    /\ \A k \in Kinds :
          /\ \A w \in Browsers : CopySource(web'[w].copy, k)
          /\ \A s \in Slots : call'[s].key # k => CopySource(call'[s].copy, k)
    /\ \A w \in Browsers : FormSource(web'[w].form)

\* The browser w keeps its copy, or gets that of a list, or loads its page anew.
Receives(w) ==
    \/ web'[w].copy = web[w].copy
    \/ ~web'[w].isSuccess
    \/ /\ web[w].overlapped => web'[w].overlapped
       /\ \E s \in InFlight(w) : call[s].stage = "listed" /\ web'[w].copy = call[s].copy

\* A step of the browser w that begins a settings call in slot s.
Asks(w, s) ==
    /\ call[s].by \in {None, w}
    /\ call' \in [Slots -> Call] /\ web' \in [Browsers -> Web]
    /\ \A t \in Slots \ {s} : call'[t] = call[t]
    /\ \A v \in Browsers \ {w} : web'[v] = web[v]
    /\ call'[s].by = w /\ call'[s].stage \in {"list", "save"}
    /\ call'[s].stage = "list" => call'[s].key = None
    /\ web'[w].overlapped <=> web[w].overlapped \/ InFlight(w) \ {s} # {}
    /\ web'[w].page = "new" => web'[w].form.kind \in Kinds
    /\ FormSource(web'[w].form) /\ Receives(w)
    /\ \A k \in Kinds :
          /\ CopySource(web'[w].copy, k)
          /\ call'[s].key # k => CopySource(call'[s].copy, k)

\* What the invariants need of a step.
StepOk ==
    /\ call' \in [Slots -> Call] /\ web' \in [Browsers -> Web]
    /\ CallInv'
    /\ \A w \in Browsers : web'[w].page = "new" => web'[w].form.kind \in Kinds
    /\ Sources /\ \A w \in Browsers : Receives(w)
    /\ OverlapInv' /\ LoadersHaveACause'

LEMMA SameSources ==
    /\ \A w \in Browsers : FormSource(web[w].form)
    /\ \A k \in Kinds :
          /\ CopySource(NoCopy, k) /\ CopySource(setting, k)
          /\ \A w \in Browsers : CopySource(web[w].copy, k)
          /\ \A s \in Slots : call[s].key # k => CopySource(call[s].copy, k)
<1>1. \A w \in Browsers : FormSource(web[w].form)
  BY DEF FormSource
<1>2. ASSUME NEW k \in Kinds
      PROVE  /\ CopySource(NoCopy, k) /\ CopySource(setting, k)
             /\ \A w \in Browsers : CopySource(web[w].copy, k)
             /\ \A s \in Slots : call[s].key # k => CopySource(call[s].copy, k)
  BY DEF CopySource, Agree
<1> QED
  BY <1>1, <1>2

LEMMA AsksOk ==
    ASSUME TypeInv, OverlapInv, LoadersHaveACause,
           NEW w \in Browsers, NEW s \in Slots, Asks(w, s)
    PROVE  StepOk
<1>1. call' \in [Slots -> Call] /\ web' \in [Browsers -> Web]
  BY DEF Asks
<1>2. CallInv'
  <2> SUFFICES ASSUME NEW t \in Slots
               PROVE  /\ call'[t].stage \in {"list", "listed"} =>
                            call'[t].by \in Browsers /\ call'[t].key = None
                      /\ call'[t].stage = "free" => call'[t].by = None
    BY DEF CallInv
  <2>1. CASE t = s
    BY <2>1 DEF Asks
  <2>2. CASE t # s
    BY <2>2, Types DEF Asks, CallInv
  <2> QED
    BY <2>1, <2>2
<1>3. \A v \in Browsers : web'[v].page = "new" => web'[v].form.kind \in Kinds
  BY Types DEF Asks, KindInv
<1>4. Sources
  BY SameSources DEF Sources, Asks
<1>5. \A v \in Browsers \ {w} : InFlight(v)' = InFlight(v)
  BY DEF InFlight, Asks
<1>6. InFlight(w)' = InFlight(w) \cup {s}
  BY DEF InFlight, Asks
<1>7. OverlapInv'
  <2> SUFFICES ASSUME NEW v \in Browsers, ~web'[v].overlapped
               PROVE  /\ \A a, b \in InFlight(v)' : a = b
                      /\ \A a \in InFlight(v)' : call'[a].stage = "listed" =>
                            \A k \in Kinds : web'[v].copy.version[k] <= call'[a].copy.version[k]
    BY DEF OverlapInv
  <2>1. CASE v = w
    <3>1. InFlight(w)' = {s}
      BY <1>6, <2>1 DEF Asks
    <3>2. call'[s].stage # "listed"
      BY DEF Asks
    <3> QED
      BY <2>1, <3>1, <3>2
  <2>2. CASE v # w
    <3>1. web'[v] = web[v] /\ InFlight(v)' = InFlight(v)
      BY <1>5, <2>2 DEF Asks
    <3>2. \A a \in InFlight(v) : call'[a] = call[a]
      BY <2>2 DEF InFlight, Asks
    <3> QED
      BY <3>1, <3>2 DEF OverlapInv
  <2> QED
    BY <2>1, <2>2
<1>8. LoadersHaveACause'
  <2> SUFFICES ASSUME NEW v \in Browsers, web'[v].page # "closed"
               PROVE  /\ web'[v].isLoading => InFlight(v)' # {}
                      /\ ~web'[v].isSuccess => InFlight(v)' # {} \/ web'[v].failed
    BY DEF LoadersHaveACause, Shown
  <2>1. CASE v = w
    BY <1>6, <2>1
  <2>2. CASE v # w
    BY <1>5, <2>2 DEF Asks, LoadersHaveACause, Shown
  <2> QED
    BY <2>1, <2>2
<1>9. \A v \in Browsers : Receives(v)
  BY DEF Asks, Receives
<1> QED
  BY <1>1, <1>2, <1>3, <1>4, <1>7, <1>8, <1>9 DEF StepOk

\* A proposal from a copy there is.
LEMMA ProposalSource ==
    ASSUME TypeInv, NEW k \in Kinds
    PROVE  /\ \A w \in Browsers : FormSource(Proposal(web[w].copy, k))
           /\ \A s \in Slots : call[s].key # k => FormSource(Proposal(call[s].copy, k))
BY DEF FormSource, Proposal

LEMMA OpenFormOk ==
    ASSUME TypeInv, OverlapInv, LoadersHaveACause,
           NEW w \in Browsers, NEW k \in Kinds, NEW s \in Slots, OpenForm(w, k, s)
    PROVE  StepOk
<1> DEFINE p == Proposal(web[w].copy, k)
           r == [web[w] EXCEPT !.page = "new", !.form = p]
           q == RequestLoading(r, w, s)
           c == ListCall(w)
<1>1. web[w] \in Web /\ web[w].copy \in Copy
  BY Types, WebFields
<1>2. p \in Form /\ p.kind = k /\ FormSource(p)
  BY <1>1, ProposalStep, ProposalSource
<1>3. web' = [web EXCEPT ![w] = q] /\ call' = [call EXCEPT ![s] = c] /\ call[s].stage = "free"
  BY DEF OpenForm
<1> HIDE DEF p
<1>4. /\ r \in Web /\ r.copy = web[w].copy /\ r.page = "new" /\ r.form = p
      /\ r.overlapped <=> web[w].overlapped
  BY <1>1, <1>2 DEF Web
<1> HIDE DEF r
<1>5. /\ q \in Web /\ q.copy = web[w].copy /\ q.form = p
      /\ q.overlapped <=> web[w].overlapped \/ InFlight(w) \ {s} # {}
  BY <1>4, LoadingStep DEF Loaded
<1>6. c \in Call /\ c.by = w /\ c.stage = "list" /\ c.copy = NoCopy /\ c.key = None
  BY ListCallStep
<1> HIDE DEF q, c
<1>7. /\ call' \in [Slots -> Call] /\ web' \in [Browsers -> Web]
      /\ \A t \in Slots \ {s} : call'[t] = call[t]
      /\ \A v \in Browsers \ {w} : web'[v] = web[v]
      /\ web'[w] = q /\ call'[s] = c
  BY <1>3, <1>5, <1>6, Types
<1>8. Asks(w, s)
  BY <1>2, <1>3, <1>5, <1>6, <1>7, SameSources, Types DEF Asks, CallInv, Receives
<1> QED
  BY <1>8, AsksOk

\* A save, of the counters in todo as in the copy e, of which it is to change that
\* of key.
LEMMA SaveOk ==
    ASSUME TypeInv, OverlapInv, LoadersHaveACause,
           NEW w \in Browsers, NEW s \in Slots, call[s].stage = "free",
           web' = [web EXCEPT ![w] = RequestLoading(web[w], w, s)],
           call' \in [Slots -> Call], \A t \in Slots \ {s} : call'[t] = call[t],
           call'[s].by = w, call'[s].stage = "save",
           \A k \in Kinds : call'[s].key # k => CopySource(call'[s].copy, k)
    PROVE  StepOk
<1> DEFINE q == RequestLoading(web[w], w, s)
<1>1. /\ q \in Web /\ q.copy = web[w].copy /\ q.form = web[w].form /\ q.page = web[w].page
      /\ q.overlapped <=> web[w].overlapped \/ InFlight(w) \ {s} # {}
  BY Types, LoadingStep DEF Loaded
<1> HIDE DEF q
<1>2. /\ web' \in [Browsers -> Web] /\ web'[w] = q
      /\ \A v \in Browsers \ {w} : web'[v] = web[v]
  BY <1>1, Types DEF q
<1>3. Asks(w, s)
  BY <1>1, <1>2, SameSources, Types DEF Asks, CallInv, KindInv, Receives
<1> QED
  BY <1>3, AsksOk

LEMMA SaveCountersOk ==
    ASSUME TypeInv, OverlapInv, LoadersHaveACause,
           NEW w \in Browsers, NEW s \in Slots, NEW k \in Kinds, NEW n \in Typed,
           SaveCounters(w, s, k, n)
    PROVE  StepOk
<1> DEFINE e == [web[w].copy EXCEPT !.last[k] = n]
           c == [by |-> w, stage |-> "save", copy |-> e, todo |-> Kinds, key |-> k]
<1>1. web[w].copy \in Copy /\ n \in Nat
  BY Types, WebFields
<1>2. e \in Copy /\ \A j \in Kinds \ {k} : Agree(e, web[w].copy, j)
  BY <1>1 DEF Copy, Agree
<1>3. /\ call' = [call EXCEPT ![s] = c] /\ call[s].stage = "free"
      /\ web' = [web EXCEPT ![w] = RequestLoading(web[w], w, s)]
  BY DEF SaveCounters
<1> HIDE DEF e
<1>4. c \in Call /\ c.by = w /\ c.stage = "save" /\ c.key = k /\ c.copy = e
  BY <1>2 DEF Call
<1> HIDE DEF c
<1>5. call' \in [Slots -> Call] /\ call'[s] = c /\ \A t \in Slots \ {s} : call'[t] = call[t]
  BY <1>3, <1>4, Types
<1>6. \A j \in Kinds : call'[s].key # j => CopySource(call'[s].copy, j)
  BY <1>2, <1>4, <1>5 DEF CopySource
<1> QED
  BY <1>3, <1>4, <1>5, <1>6, SaveOk

LEMMA SaveOthersOk ==
    ASSUME TypeInv, OverlapInv, LoadersHaveACause,
           NEW w \in Browsers, NEW s \in Slots, SaveOthers(w, s)
    PROVE  StepOk
<1> DEFINE c == [NoCall EXCEPT !.by = w, !.stage = "save"]
<1>1. /\ call' = [call EXCEPT ![s] = c] /\ call[s].stage = "free"
      /\ web' = [web EXCEPT ![w] = RequestLoading(web[w], w, s)]
  BY DEF SaveOthers
<1>2. c \in Call /\ c.by = w /\ c.stage = "save" /\ c.copy = NoCopy
  BY NoCallStep DEF Call
<1> HIDE DEF c
<1>3. call' \in [Slots -> Call] /\ call'[s] = c /\ \A t \in Slots \ {s} : call'[t] = call[t]
  BY <1>1, <1>2, Types
<1>4. \A j \in Kinds : call'[s].key # j => CopySource(call'[s].copy, j)
  BY <1>2, <1>3, SameSources
<1> QED
  BY <1>1, <1>2, <1>3, <1>4, SaveOk


\* A step of the browser w that ends or begins no settings call.
LEMMA ShowsOk ==
    ASSUME TypeInv, OverlapInv, LoadersHaveACause,
           NEW w \in Browsers, call' = call,
           web' \in [Browsers -> Web], \A v \in Browsers \ {w} : web'[v] = web[v],
           web'[w].copy = web[w].copy, web'[w].overlapped <=> web[w].overlapped,
           web'[w].isLoading <=> web[w].isLoading, web'[w].isSuccess <=> web[w].isSuccess,
           web'[w].failed <=> web[w].failed, web[w].page # "closed",
           web'[w].page = "new" => web'[w].form.kind \in Kinds,
           FormSource(web'[w].form)
    PROVE  StepOk
<1>1. CallInv' /\ call' \in [Slots -> Call]
  BY Types DEF CallInv
<1>2. \A v \in Browsers : web'[v].page = "new" => web'[v].form.kind \in Kinds
  BY Types DEF KindInv
<1>3. Sources
  BY SameSources DEF Sources
<1>4. \A v \in Browsers : InFlight(v)' = InFlight(v)
  BY DEF InFlight
<1>5. OverlapInv'
  BY <1>4 DEF OverlapInv
<1>6. LoadersHaveACause'
  BY <1>4 DEF LoadersHaveACause, Shown
<1>7. \A v \in Browsers : Receives(v)
  BY DEF Receives
<1> QED
  BY <1>1, <1>2, <1>3, <1>5, <1>6, <1>7 DEF StepOk

LEMMA TypeNumberOk ==
    ASSUME TypeInv, OverlapInv, LoadersHaveACause,
           NEW w \in Browsers, NEW n \in Typed, TypeNumber(w, n)
    PROVE  StepOk
<1> DEFINE q == [web[w] EXCEPT !.form.number = n, !.form.typed = TRUE]
<1>1. web[w] \in Web /\ n \in Nat
  BY Types
<1>2. /\ q \in Web /\ q.copy = web[w].copy /\ q.page = web[w].page
      /\ (q.overlapped <=> web[w].overlapped) /\ (q.failed <=> web[w].failed)
      /\ (q.isLoading <=> web[w].isLoading) /\ (q.isSuccess <=> web[w].isSuccess)
      /\ q.form.typed /\ q.form.kind = web[w].form.kind
      /\ q.form.version = web[w].form.version
  BY <1>1, TypedStep
<1>3. web' = [web EXCEPT ![w] = q] /\ call' = call /\ web[w].page = "new"
  <2> DEFINE x == [web EXCEPT ![w].form.number = n]
             y == [web[w] EXCEPT !.form.number = n]
  <2>1. web' = [x EXCEPT ![w].form.typed = TRUE] /\ call' = call /\ web[w].page = "new"
    BY DEF TypeNumber
  <2>2. x = [web EXCEPT ![w] = y] /\ q = [y EXCEPT !.form.typed = TRUE]
    OBVIOUS
  <2> HIDE DEF x, y, q
  <2>3. x[w] = y /\ DOMAIN x = Browsers
    BY <2>2, Types
  <2>4. web' = [x EXCEPT ![w] = q]
    BY <2>1, <2>2, <2>3
  <2> QED
    BY <2>1, <2>2, <2>3, <2>4, Types
<1> HIDE DEF q
<1>4. /\ web' \in [Browsers -> Web] /\ web'[w] = q
      /\ \A v \in Browsers \ {w} : web'[v] = web[v]
  BY <1>2, <1>3, Types
<1>5. FormSource(web'[w].form)
  BY <1>2, <1>4 DEF FormSource
<1>6. web[w].form.kind \in Kinds
  BY <1>3, Types DEF KindInv
<1> QED
  BY <1>2, <1>3, <1>4, <1>5, <1>6, ShowsOk

LEMMA LeavePageOk ==
    ASSUME TypeInv, OverlapInv, LoadersHaveACause, NEW w \in Browsers, LeavePage(w)
    PROVE  StepOk
<1> DEFINE q == [web[w] EXCEPT !.page = "other", !.form = NoForm]
<1>1. web[w] \in Web /\ NoForm \in Form /\ NoForm.version = 0 /\ NoForm.number = 0
  BY Types DEF NoForm, Form
<1>2. /\ q \in Web /\ q.copy = web[w].copy /\ q.page = "other" /\ q.form = NoForm
      /\ (q.overlapped <=> web[w].overlapped) /\ (q.failed <=> web[w].failed)
      /\ (q.isLoading <=> web[w].isLoading) /\ (q.isSuccess <=> web[w].isSuccess)
  BY <1>1 DEF Web
<1>3. web' = [web EXCEPT ![w] = q] /\ call' = call /\ web[w].page # "closed"
  BY <1>1, Types DEF LeavePage
<1> HIDE DEF q
<1>4. /\ web' \in [Browsers -> Web] /\ web'[w] = q
      /\ \A v \in Browsers \ {w} : web'[v] = web[v]
  BY <1>2, <1>3, Types
<1>5. FormSource(web'[w].form)
  BY <1>1, <1>2, <1>4 DEF FormSource
<1> QED
  BY <1>2, <1>3, <1>4, <1>5, ShowsOk

LEMMA OpenSettingsOk ==
    ASSUME TypeInv, OverlapInv, LoadersHaveACause, NEW w \in Browsers, OpenSettings(w)
    PROVE  StepOk
<1> DEFINE q == [web[w] EXCEPT !.page = "settings"]
<1>1. web[w] \in Web
  BY Types
<1>2. /\ q \in Web /\ q.copy = web[w].copy /\ q.page = "settings" /\ q.form = web[w].form
      /\ (q.overlapped <=> web[w].overlapped) /\ (q.failed <=> web[w].failed)
      /\ (q.isLoading <=> web[w].isLoading) /\ (q.isSuccess <=> web[w].isSuccess)
  BY <1>1 DEF Web
<1>3. web' = [web EXCEPT ![w] = q] /\ call' = call /\ web[w].page # "closed"
  BY <1>1, Types DEF OpenSettings
<1> HIDE DEF q
<1>4. /\ web' \in [Browsers -> Web] /\ web'[w] = q
      /\ \A v \in Browsers \ {w} : web'[v] = web[v]
  BY <1>2, <1>3, Types
<1>5. FormSource(web'[w].form)
  BY <1>2, <1>4, SameSources
<1> QED
  BY <1>2, <1>3, <1>4, <1>5, ShowsOk

\* A step of the server in a settings call, or one that none is waiting for.
LEMMA ServesOk ==
    ASSUME TypeInv, CopyInv, OverlapInv, LoadersHaveACause,
           NEW s \in Slots, web' = web,
           call' \in [Slots -> Call], \A t \in Slots \ {s} : call'[t] = call[t],
           call'[s].by = call[s].by,
           call'[s].stage \in {"list", "listed"} =>
              call'[s].by \in Browsers /\ call'[s].key = None,
           call'[s].stage = "free" => call'[s].by = None,
           call'[s].stage = "listed" => call'[s].copy = setting,
           \A k \in Kinds : call'[s].key # k => CopySource(call'[s].copy, k)
    PROVE  StepOk
<1>1. CallInv'
  <2> SUFFICES ASSUME NEW t \in Slots
               PROVE  /\ call'[t].stage \in {"list", "listed"} =>
                            call'[t].by \in Browsers /\ call'[t].key = None
                      /\ call'[t].stage = "free" => call'[t].by = None
    BY DEF CallInv
  <2>1. CASE t = s
    BY <2>1
  <2>2. CASE t # s
    BY <2>2, Types DEF CallInv
  <2> QED
    BY <2>1, <2>2
<1>2. \A v \in Browsers : web'[v].page = "new" => web'[v].form.kind \in Kinds
  BY Types DEF KindInv
<1>3. Sources
  BY SameSources DEF Sources
<1>4. \A v \in Browsers : InFlight(v)' = InFlight(v)
  BY DEF InFlight
<1>5. OverlapInv'
  <2> SUFFICES ASSUME NEW v \in Browsers, ~web[v].overlapped
               PROVE  /\ \A a, b \in InFlight(v) : a = b
                      /\ \A a \in InFlight(v) : call'[a].stage = "listed" =>
                            \A k \in Kinds : web[v].copy.version[k] <= call'[a].copy.version[k]
    BY <1>4 DEF OverlapInv
  <2>1. \A a, b \in InFlight(v) : a = b
    BY DEF OverlapInv
  <2>2. ASSUME NEW a \in InFlight(v), call'[a].stage = "listed", NEW k \in Kinds
        PROVE  web[v].copy.version[k] <= call'[a].copy.version[k]
    <3>1. CASE a = s
      BY <2>2, <3>1 DEF CopyInv, OldCopy
    <3>2. CASE a # s
      BY <2>2, <3>2 DEF OverlapInv, InFlight
    <3> QED
      BY <3>1, <3>2
  <2> QED
    BY <2>1, <2>2
<1>6. LoadersHaveACause'
  BY <1>4 DEF LoadersHaveACause, Shown
<1>7. \A v \in Browsers : Receives(v)
  BY DEF Receives
<1> QED
  BY <1>1, <1>2, <1>3, <1>5, <1>6, <1>7, Types DEF StepOk

\* A stage, and what is still to be saved, of a call.
LEMMA StageStep ==
    ASSUME NEW c \in Call, NEW g \in {"free", "list", "listed", "save", "failed"}
    PROVE  LET d == [c EXCEPT !.stage = g]
           IN  d \in Call /\ d.stage = g /\ d.by = c.by /\ d.copy = c.copy /\ d.key = c.key
BY DEF Call

LEMMA ServeListOk ==
    ASSUME TypeInv, CopyInv, OverlapInv, LoadersHaveACause, NEW s \in Slots, ServeList(s)
    PROVE  StepOk
<1> DEFINE c == [call[s] EXCEPT !.stage = "listed", !.copy = setting]
<1>1. call[s] \in Call /\ setting \in Copy /\ call[s].stage = "list"
  BY Types DEF ServeList
<1>2. /\ c \in Call /\ c.stage = "listed" /\ c.copy = setting
      /\ c.by = call[s].by /\ c.key = call[s].key
  BY <1>1 DEF Call
<1>3. call' = [call EXCEPT ![s] = c] /\ web' = web
  <2> DEFINE x == [call EXCEPT ![s].stage = "listed"]
             y == [call[s] EXCEPT !.stage = "listed"]
  <2>1. call' = [x EXCEPT ![s].copy = setting] /\ web' = web
    BY DEF ServeList
  <2>2. x = [call EXCEPT ![s] = y] /\ c = [y EXCEPT !.copy = setting]
    OBVIOUS
  <2> HIDE DEF x, y, c
  <2>3. x[s] = y /\ DOMAIN x = Slots
    BY <2>2, Types
  <2>4. call' = [x EXCEPT ![s] = c]
    BY <2>1, <2>2, <2>3
  <2> QED
    BY <2>1, <2>2, <2>3, <2>4, Types
<1> HIDE DEF c
<1>4. call' \in [Slots -> Call] /\ call'[s] = c /\ \A t \in Slots \ {s} : call'[t] = call[t]
  BY <1>2, <1>3, Types
<1>5. call[s].by \in Browsers /\ call[s].key = None
  BY <1>1, Types DEF CallInv
<1> QED
  BY <1>2, <1>3, <1>4, <1>5, SameSources, ServesOk

LEMMA ServeKeyOk ==
    ASSUME TypeInv, CopyInv, OverlapInv, LoadersHaveACause,
           NEW s \in Slots, NEW k \in Kinds, ServeKey(s, k)
    PROVE  StepOk
<1> DEFINE c == [call[s] EXCEPT !.todo = call[s].todo \ {k}]
<1>1. call[s] \in Call /\ call[s].todo \ {k} \subseteq Kinds /\ call[s].stage = "save"
  BY Types, CallFields DEF ServeKey
<1>2. /\ c \in Call /\ c.stage = "save" /\ c.copy = call[s].copy
      /\ c.by = call[s].by /\ c.key = call[s].key
  BY <1>1 DEF Call
<1>3. call' = [call EXCEPT ![s] = c] /\ web' = web
  BY DEF ServeKey
<1> HIDE DEF c
<1>4. call' \in [Slots -> Call] /\ call'[s] = c /\ \A t \in Slots \ {s} : call'[t] = call[t]
  BY <1>2, <1>3, Types
<1> QED
  BY <1>2, <1>3, <1>4, SameSources, ServesOk

LEMMA FailCallOk ==
    ASSUME TypeInv, CopyInv, OverlapInv, LoadersHaveACause, NEW s \in Slots, FailCall(s)
    PROVE  StepOk
<1> DEFINE c == [call[s] EXCEPT !.stage = "failed"]
<1>1. call[s] \in Call
  BY Types
<1>2. /\ c \in Call /\ c.stage = "failed" /\ c.copy = call[s].copy
      /\ c.by = call[s].by /\ c.key = call[s].key
  BY <1>1 DEF Call
<1>3. call' = [call EXCEPT ![s] = c] /\ web' = web
  BY DEF FailCall
<1> HIDE DEF c
<1>4. call' \in [Slots -> Call] /\ call'[s] = c /\ \A t \in Slots \ {s} : call'[t] = call[t]
  BY <1>2, <1>3, Types
<1> QED
  BY <1>2, <1>3, <1>4, SameSources, ServesOk

\* A step that answers the call in slot s to its browser, and makes no other.
LEMMA EndsOk ==
    ASSUME TypeInv, OverlapInv, LoadersHaveACause,
           NEW w \in Browsers, NEW s \in Slots, call[s].by = w,
           call' = [call EXCEPT ![s] = NoCall],
           web' \in [Browsers -> Web], \A v \in Browsers \ {w} : web'[v] = web[v],
           web'[w].overlapped <=> web[w].overlapped,
           ~web'[w].isLoading, web'[w].isSuccess \/ web'[w].failed,
           web'[w].page = "new" => web'[w].form.kind \in Kinds,
           FormSource(web'[w].form), Receives(w),
           \A k \in Kinds : CopySource(web'[w].copy, k)
    PROVE  StepOk
<1>1. call' \in [Slots -> Call] /\ call'[s] = NoCall /\ \A t \in Slots \ {s} : call'[t] = call[t]
  BY Types, NoCallStep
<1>2. CallInv'
  <2> SUFFICES ASSUME NEW t \in Slots
               PROVE  /\ call'[t].stage \in {"list", "listed"} =>
                            call'[t].by \in Browsers /\ call'[t].key = None
                      /\ call'[t].stage = "free" => call'[t].by = None
    BY DEF CallInv
  <2>1. CASE t = s
    BY <1>1, <2>1, NoCallStep
  <2>2. CASE t # s
    BY <1>1, <2>2, Types DEF CallInv
  <2> QED
    BY <2>1, <2>2
<1>3. \A v \in Browsers : web'[v].page = "new" => web'[v].form.kind \in Kinds
  BY Types DEF KindInv
<1>4. Sources
  BY <1>1, SameSources, NoCallStep DEF Sources
<1>5. \A v \in Browsers : InFlight(v)' = InFlight(v) \ {s}
  BY <1>1, NoCallStep DEF InFlight
<1>6. \A v \in Browsers : v # w => InFlight(v)' = InFlight(v)
  BY <1>1, NoCallStep DEF InFlight
<1>7. OverlapInv'
  <2> SUFFICES ASSUME NEW v \in Browsers, ~web'[v].overlapped
               PROVE  /\ \A a, b \in InFlight(v)' : a = b
                      /\ \A a \in InFlight(v)' : call'[a].stage = "listed" =>
                            \A k \in Kinds : web'[v].copy.version[k] <= call'[a].copy.version[k]
    BY DEF OverlapInv
  <2>1. CASE v = w
    <3>1. InFlight(w)' = {}
      BY <1>5, <2>1 DEF OverlapInv, InFlight
    <3> QED
      BY <2>1, <3>1
  <2>2. CASE v # w
    <3>1. \A a \in InFlight(v) : call'[a] = call[a]
      BY <1>1, <2>2 DEF InFlight
    <3> QED
      BY <1>6, <2>2, <3>1 DEF OverlapInv
  <2> QED
    BY <2>1, <2>2
<1>8. LoadersHaveACause'
  BY <1>6 DEF LoadersHaveACause, Shown
<1>9. \A v \in Browsers : Receives(v)
  BY DEF Receives
<1> QED
  BY <1>1, <1>2, <1>3, <1>4, <1>7, <1>8, <1>9 DEF StepOk

LEMMA AnswerFailedOk ==
    ASSUME TypeInv, CopyInv, OverlapInv, LoadersHaveACause, NEW s \in Slots, AnswerFailed(s)
    PROVE  StepOk
<1>1. call' = [call EXCEPT ![s] = NoCall] /\ call[s].by \in Browsers \cup {None}
  BY Types, CallFields DEF AnswerFailed
<1>2. CASE call[s].by = None
  <2>1. web' = web
    BY <1>2 DEF AnswerFailed
  <2>2. /\ call' \in [Slots -> Call] /\ call'[s] = NoCall
        /\ \A t \in Slots \ {s} : call'[t] = call[t]
    BY <1>1, NoCallStep, Types
  <2> QED
    BY <1>2, <2>1, <2>2, SameSources, NoCallStep, ServesOk
<1>3. CASE call[s].by # None
  <2> DEFINE w == call[s].by
             q == RequestFailed(web[w])
  <2>1. w \in Browsers /\ web' = [web EXCEPT ![w] = q]
    BY <1>1, <1>3 DEF AnswerFailed
  <2>2. /\ q \in Web /\ ~q.isLoading /\ q.failed /\ q.copy = web[w].copy
        /\ q.page = web[w].page /\ (q.overlapped <=> web[w].overlapped)
        /\ q.form.kind = web[w].form.kind /\ q.form.version = 0 /\ q.form.number = 0
    BY <2>1, Types, FailedStep
  <2> HIDE DEF w, q
  <2>3. web' \in [Browsers -> Web] /\ web'[w] = q /\ \A v \in Browsers \ {w} : web'[v] = web[v]
    BY <2>1, <2>2, Types
  <2>4. web'[w].page = "new" => web'[w].form.kind \in Kinds
    BY <2>1, <2>2, <2>3, Types DEF KindInv
  <2>5. FormSource(web'[w].form)
    BY <2>2, <2>3 DEF FormSource
  <2>6. \A k \in Kinds : CopySource(web'[w].copy, k)
    BY <2>1, <2>2, <2>3, SameSources
  <2>7. call[s].by = w
    BY DEF w
  <2>8. Receives(w)
    BY <2>2, <2>3 DEF Receives
  <2> QED
    BY <1>1, <2>1, <2>2, <2>3, <2>4, <2>5, <2>6, <2>7, <2>8, EndsOk
<1> QED
  BY <1>2, <1>3

LEMMA AnswerSaveOk ==
    ASSUME TypeInv, CopyInv, OverlapInv, LoadersHaveACause, NEW s \in Slots, AnswerSave(s)
    PROVE  StepOk
<1>1. call[s].by \in Browsers \cup {None}
  BY Types, CallFields
<1>2. CASE call[s].by = None
  <2>1. web' = web /\ call' = [call EXCEPT ![s] = NoCall]
    BY <1>2 DEF AnswerSave
  <2>2. /\ call' \in [Slots -> Call] /\ call'[s] = NoCall
        /\ \A t \in Slots \ {s} : call'[t] = call[t]
    BY <2>1, NoCallStep, Types
  <2> QED
    BY <1>2, <2>1, <2>2, SameSources, NoCallStep, ServesOk
<1>3. ASSUME NEW w \in Browsers, call[s].by = w
      PROVE  StepOk
  <2> DEFINE q == RequestLoading(web[w], w, s)
             c == ListCall(w)
  <2>1. web' = [web EXCEPT ![w] = q] /\ call' = [call EXCEPT ![s] = c]
    BY <1>3 DEF AnswerSave, AfterSave
  <2>2. /\ q \in Web /\ q.copy = web[w].copy /\ q.form = web[w].form /\ q.page = web[w].page
        /\ q.overlapped <=> web[w].overlapped \/ InFlight(w) \ {s} # {}
    BY Types, LoadingStep DEF Loaded
  <2>3. c \in Call /\ c.by = w /\ c.stage = "list" /\ c.copy = NoCopy /\ c.key = None
    BY ListCallStep
  <2> HIDE DEF q, c
  <2>4. /\ call' \in [Slots -> Call] /\ web' \in [Browsers -> Web]
        /\ \A t \in Slots \ {s} : call'[t] = call[t]
        /\ \A v \in Browsers \ {w} : web'[v] = web[v]
        /\ web'[w] = q /\ call'[s] = c
    BY <2>1, <2>2, <2>3, Types
  <2>5. Asks(w, s)
    BY <1>3, <2>2, <2>3, <2>4, SameSources, Types DEF Asks, KindInv, Receives
  <2> QED
    BY <2>5, AsksOk
<1> QED
  BY <1>1, <1>2, <1>3

LEMMA AnswerListOk ==
    ASSUME TypeInv, CopyInv, OverlapInv, LoadersHaveACause, NEW s \in Slots, AnswerList(s)
    PROVE  StepOk
<1>1. /\ call[s].stage = "listed" /\ call[s].by \in Browsers /\ call[s].key = None
      /\ call[s] \in Call /\ call[s].copy \in Copy
  BY Types, CallFields DEF AnswerList, CallInv
<1>2. PICK w \in Browsers : call[s].by = w
  BY <1>1
<1> DEFINE r == RequestSuccess(web[w], call[s].copy)
           k == web[w].form.kind
           again == ~Shown(w) /\ web[w].page = "new"
<1>3. /\ r \in Web /\ ~r.isLoading /\ r.isSuccess /\ r.copy = call[s].copy
      /\ r.page = web[w].page /\ r.form = web[w].form
      /\ (r.overlapped <=> web[w].overlapped) /\ (r.failed <=> web[w].failed)
  BY <1>1, Types, SuccessStep
<1>4. \A j \in Kinds : CopySource(r.copy, j)
  BY <1>1, <1>3, SameSources
<1>5. CASE again
  <2> DEFINE p == Proposal(r.copy, k)
             x == [r EXCEPT !.form = p]
             q == RequestLoading(x, w, s)
             c == ListCall(w)
  <2>1. web' = [web EXCEPT ![w] = q] /\ call' = [call EXCEPT ![s] = c]
    BY <1>2, <1>5 DEF AnswerList
  <2>2. k \in Kinds
    BY <1>5, Types DEF KindInv
  <2>3. p \in Form /\ p.kind = k /\ FormSource(p)
    BY <1>1, <1>3, <2>2, ProposalStep, ProposalSource
  <2> HIDE DEF p, r
  <2>4. x \in Web /\ x.copy = r.copy /\ x.form = p /\ (x.overlapped <=> r.overlapped)
    BY <1>3, <2>3 DEF Web
  <2> HIDE DEF x
  <2>5. /\ q \in Web /\ q.copy = r.copy /\ q.form = p
        /\ q.overlapped <=> x.overlapped \/ InFlight(w) \ {s} # {}
    BY <2>4, LoadingStep DEF Loaded
  <2>6. c \in Call /\ c.by = w /\ c.stage = "list" /\ c.copy = NoCopy /\ c.key = None
    BY ListCallStep
  <2> HIDE DEF q, c
  <2>7. /\ call' \in [Slots -> Call] /\ web' \in [Browsers -> Web]
        /\ \A t \in Slots \ {s} : call'[t] = call[t]
        /\ \A v \in Browsers \ {w} : web'[v] = web[v]
        /\ web'[w] = q /\ call'[s] = c
    BY <2>1, <2>5, <2>6, Types
  <2>8. q.overlapped <=> web[w].overlapped \/ InFlight(w) \ {s} # {}
    BY <1>3, <2>4, <2>5
  <2>9. Receives(w)
    BY <1>1, <1>2, <1>3, <2>5, <2>7, <2>8 DEF Receives, InFlight
  <2>10. Asks(w, s)
    BY <1>2, <1>4, <2>2, <2>3, <2>5, <2>6, <2>7, <2>8, <2>9, SameSources DEF Asks
  <2> QED
    BY <2>10, AsksOk
<1>6. CASE ~again
  <2>1. web' = [web EXCEPT ![w] = r] /\ call' = [call EXCEPT ![s] = NoCall]
    BY <1>2, <1>6 DEF AnswerList
  <2> HIDE DEF r
  <2>2. web' \in [Browsers -> Web] /\ web'[w] = r /\ \A v \in Browsers \ {w} : web'[v] = web[v]
    BY <1>3, <2>1, Types
  <2>3. web'[w].page = "new" => web'[w].form.kind \in Kinds
    BY <1>3, <2>2, Types DEF KindInv
  <2>4. FormSource(web'[w].form) /\ \A j \in Kinds : CopySource(web'[w].copy, j)
    BY <1>3, <1>4, <2>2, SameSources
  <2>5. Receives(w)
    BY <1>1, <1>2, <1>3, <2>2 DEF Receives, InFlight
  <2> QED
    BY <1>2, <1>3, <2>1, <2>2, <2>3, <2>4, <2>5, EndsOk
<1> QED
  BY <1>5, <1>6

LEMMA OpenAppOk ==
    ASSUME TypeInv, CopyInv, OverlapInv, LoadersHaveACause,
           NEW w \in Browsers, NEW s \in Slots, OpenApp(w, s)
    PROVE  StepOk
<1> DEFINE p == IF web[w].page = "closed" THEN "other" ELSE web[w].page
           k == web[w].form.kind
           q == Opened(p, k)
           c == ListCall(w)
<1>1. /\ web[w] \in Web /\ p \in {"other", "new", "settings"} /\ k \in Kinds \cup {None}
      /\ p = "new" => k \in Kinds
  BY Types, WebFields DEF KindInv
<1>2. /\ web' = [web EXCEPT ![w] = q]
      /\ call' = [t \in Slots |->
            IF t = s THEN c
            ELSE IF call[t].by # w THEN call[t]
            ELSE IF call[t].stage = "save" THEN [call[t] EXCEPT !.by = None]
            ELSE NoCall]
      /\ call[s].stage = "free" \/ call[s].by = w
  BY DEF OpenApp, Opened
<1> HIDE DEF p, k
<1>3. /\ q \in Web /\ q.copy = NoCopy /\ q.page = p /\ q.isLoading
      /\ ~q.isSuccess /\ ~q.overlapped
      /\ q.form.kind = k /\ q.form.version = 0 /\ q.form.number = 0
  BY <1>1, ClosedStep
<1>4. c \in Call /\ c.by = w /\ c.stage = "list" /\ c.copy = NoCopy /\ c.key = None
  BY ListCallStep
<1> HIDE DEF q, c
<1>5. web' \in [Browsers -> Web] /\ web'[w] = q /\ \A v \in Browsers \ {w} : web'[v] = web[v]
  BY <1>2, <1>3, Types
<1>6. ASSUME NEW t \in Slots
      PROVE  LET x == [call[t] EXCEPT !.by = None]
             IN  /\ x \in Call /\ x.by = None /\ x.stage = call[t].stage
                 /\ x.copy = call[t].copy /\ x.key = call[t].key
  <2>1. call[t] \in Call
    BY Types
  <2> QED
    BY <2>1 DEF Call
<1>7. ASSUME NEW t \in Slots \ {s}
      PROVE  /\ call'[t] \in Call
             /\ call[t].by # w => call'[t] = call[t]
             /\ call[t].by = w => call'[t].by = None /\ call'[t].stage \in {"save", "free"}
             /\ call'[t].copy = NoCopy
                  \/ (call'[t].copy = call[t].copy /\ call'[t].key = call[t].key)
  BY <1>2, <1>6, NoCallStep, Types
<1>8. call' \in [Slots -> Call] /\ call'[s] = c
  BY <1>2, <1>4, <1>7
<1>9. CallInv'
  <2> SUFFICES ASSUME NEW t \in Slots
               PROVE  /\ call'[t].stage \in {"list", "listed"} =>
                            call'[t].by \in Browsers /\ call'[t].key = None
                      /\ call'[t].stage = "free" => call'[t].by = None
    BY DEF CallInv
  <2>1. CASE t = s
    BY <1>4, <1>8, <2>1
  <2>2. CASE t # s
    BY <1>7, <2>2, Types DEF CallInv
  <2> QED
    BY <2>1, <2>2
<1>10. \A v \in Browsers : web'[v].page = "new" => web'[v].form.kind \in Kinds
  BY <1>1, <1>3, <1>5, Types DEF KindInv
<1>11. Sources
  <2>1. \A v \in Browsers : FormSource(web'[v].form)
    BY <1>3, <1>5, SameSources DEF FormSource
  <2>2. ASSUME NEW j \in Kinds
        PROVE  /\ \A v \in Browsers : CopySource(web'[v].copy, j)
               /\ \A t \in Slots : call'[t].key # j => CopySource(call'[t].copy, j)
    BY <1>3, <1>4, <1>5, <1>7, <1>8, SameSources
  <2> QED
    BY <2>1, <2>2 DEF Sources
<1>12. InFlight(w)' = {s}
  BY <1>4, <1>7, <1>8 DEF InFlight
<1>13. \A v \in Browsers \ {w} : InFlight(v)' = InFlight(v)
  <2>1. ASSUME NEW v \in Browsers, v # w, NEW t \in Slots
        PROVE  call'[t].by = v <=> call[t].by = v
    <3>1. CASE t = s
      BY <1>2, <1>4, <1>8, <2>1, <3>1, Types DEF CallInv
    <3>2. CASE t # s
      BY <1>7, <2>1, <3>2
    <3> QED
      BY <3>1, <3>2
  <2> QED
    BY <2>1 DEF InFlight
<1>14. OverlapInv'
  <2> SUFFICES ASSUME NEW v \in Browsers, ~web'[v].overlapped
               PROVE  /\ \A a, b \in InFlight(v)' : a = b
                      /\ \A a \in InFlight(v)' : call'[a].stage = "listed" =>
                            \A j \in Kinds : web'[v].copy.version[j] <= call'[a].copy.version[j]
    BY DEF OverlapInv
  <2>1. CASE v = w
    BY <1>4, <1>8, <1>12, <2>1
  <2>2. CASE v # w
    <3>1. \A a \in InFlight(v) : call'[a] = call[a]
      BY <1>2, <1>7, <2>2, Types DEF InFlight, CallInv
    <3> QED
      BY <1>5, <1>13, <2>2, <3>1 DEF OverlapInv
  <2> QED
    BY <2>1, <2>2
<1>15. LoadersHaveACause'
  BY <1>5, <1>12, <1>13 DEF LoadersHaveACause, Shown
<1>16. \A v \in Browsers : Receives(v)
  BY <1>3, <1>5 DEF Receives
<1> QED
  BY <1>5, <1>8, <1>9, <1>10, <1>11, <1>14, <1>15, <1>16 DEF StepOk

\* What a step makes of the counters: one that is written has another version
\* unless it has its value still, and is not lowered unless that is recorded.
SettingOk ==
    /\ setting' \in Copy /\ rewound \subseteq rewound' /\ rewound' \subseteq Kinds
    /\ \A k \in Kinds :
          /\ setting.version[k] <= setting'.version[k]
          /\ setting.version[k] = setting'.version[k] => setting.last[k] = setting'.last[k]
          /\ k \notin rewound' => setting.last[k] <= setting'.last[k]

\* What a step makes of a document: it is sent with what a form holds, and is
\* counted in the version that the increment makes.
DocOk(d) ==
    \/ doc'[d] = doc[d]
    \/ /\ doc'[d].stage = "sent"
       /\ \E w \in Browsers : web[w].page = "new" /\ doc'[d].form = web[w].form
    \/ /\ doc[d].stage # "none" /\ doc'[d].form = doc[d].form
       /\ doc'[d].stage \notin {"none", "counted"}
    \/ /\ doc[d].stage = "named" /\ doc'[d].form = doc[d].form
       /\ LET k == doc[d].form.kind
          IN  /\ doc'[d].at = setting.version[k] + 1
              /\ setting'.last[k] = setting.last[k] + 1
              /\ doc'[d].stage = "counted"

DocsOk == doc' \in [Ids -> Doc] /\ \A d \in Ids : DocOk(d)

LEMMA SameSetting ==
    ASSUME TypeInv, setting' = setting, rewound' = rewound
    PROVE  SettingOk
<1>1. \A k \in Kinds : setting.last[k] \in Nat /\ setting.version[k] \in Nat
  BY Types, CopyFields
<1> QED
  BY <1>1, Types DEF SettingOk

LEMMA SameDocs ==
    ASSUME TypeInv, doc' = doc
    PROVE  DocsOk
BY Types DEF DocsOk, DocOk

LEMMA SameCalls ==
    ASSUME TypeInv, CopyInv, OverlapInv, LoadersHaveACause, web' = web, call' = call
    PROVE  StepOk
<1>1. Sources
  BY SameSources DEF Sources
<1>2. \A v \in Browsers : InFlight(v)' = InFlight(v)
  BY DEF InFlight
<1>3. OverlapInv' /\ LoadersHaveACause'
  BY <1>2 DEF OverlapInv, LoadersHaveACause, Shown
<1>4. \A v \in Browsers : Receives(v)
  BY DEF Receives
<1> QED
  BY <1>1, <1>3, <1>4, Types DEF StepOk, CallInv, KindInv

LEMMA ServeKeySetting ==
    ASSUME TypeInv, NEW s \in Slots, NEW k \in Kinds, ServeKey(s, k)
    PROVE  SettingOk
<1> DEFINE n == Written(s, k)
           e == Changed(k, n)
<1>1. n \in Nat /\ setting \in Copy
  BY Types, CallFields, CopyFields DEF Written
<1>2. /\ setting' = e
      /\ rewound' = IF n < setting.last[k] THEN rewound \cup {k} ELSE rewound
  BY DEF ServeKey
<1> HIDE DEF n
<1>3. /\ e \in Copy /\ e.last[k] = n
      /\ \A j \in Kinds \ {k} : e.last[j] = setting.last[j] /\ e.version[j] = setting.version[j]
      /\ e.version[k] = setting.version[k] + (IF n = setting.last[k] THEN 0 ELSE 1)
  BY <1>1, ChangedStep
<1> HIDE DEF e
<1>4. \A j \in Kinds : setting.last[j] \in Nat /\ setting.version[j] \in Nat
  BY <1>1, CopyFields
<1>5. ASSUME NEW j \in Kinds
      PROVE  /\ setting.version[j] <= e.version[j]
             /\ setting.version[j] = e.version[j] => setting.last[j] = e.last[j]
             /\ j \notin rewound' => setting.last[j] <= e.last[j]
  <2>1. CASE j = k
    BY <1>1, <1>2, <1>3, <1>4, <2>1
  <2>2. CASE j # k
    BY <1>3, <1>4, <2>2
  <2> QED
    BY <2>1, <2>2
<1>6. rewound \subseteq rewound' /\ rewound' \subseteq Kinds
  BY <1>2, Types
<1> QED
  BY <1>2, <1>3, <1>5, <1>6 DEF SettingOk

LEMMA IncreaseOk ==
    ASSUME TypeInv, NEW d \in Ids, IncreaseBySettingKey(d)
    PROVE  SettingOk /\ DocsOk
<1> DEFINE k == doc[d].form.kind
           n == setting.last[k] + 1
           v == setting.version[k] + 1
           e == Changed(k, n)
           x == [doc[d] EXCEPT !.stage = "counted", !.at = v]
<1>1. k \in Kinds /\ doc[d] \in Doc /\ doc[d].stage = "named"
  BY Types DEF IncreaseBySettingKey, KindInv
<1>2. setting \in Copy /\ \A j \in Kinds : setting.last[j] \in Nat /\ setting.version[j] \in Nat
  BY Types, CopyFields
<1>3. setting' = e /\ rewound' = rewound
  BY DEF IncreaseBySettingKey
<1>4. doc' = [doc EXCEPT ![d] = x]
  <2> DEFINE y == [doc EXCEPT ![d].stage = "counted"]
             z == [doc[d] EXCEPT !.stage = "counted"]
  <2>1. doc' = [y EXCEPT ![d].at = v]
    BY DEF IncreaseBySettingKey
  <2>2. y = [doc EXCEPT ![d] = z] /\ x = [z EXCEPT !.at = v]
    OBVIOUS
  <2> HIDE DEF x, y, z, v
  <2>3. y[d] = z /\ DOMAIN y = Ids
    BY <2>2, Types
  <2>4. doc' = [y EXCEPT ![d] = x]
    BY <2>1, <2>2, <2>3
  <2> QED
    BY <2>2, <2>3, <2>4, Types
<1> HIDE DEF k
<1>5. n \in Nat /\ v \in Nat /\ n # setting.last[k]
  BY <1>1, <1>2
<1>6. x \in Doc /\ x.stage = "counted" /\ x.form = doc[d].form /\ x.at = v
  BY <1>1, <1>5 DEF Doc
<1>7. /\ e \in Copy /\ e.last[k] = n /\ e.version[k] = v
      /\ \A j \in Kinds \ {k} : e.last[j] = setting.last[j] /\ e.version[j] = setting.version[j]
  BY <1>1, <1>2, <1>5, ChangedStep
<1> HIDE DEF e, x
<1>8. SettingOk
  <2>1. ASSUME NEW j \in Kinds
        PROVE  /\ setting.version[j] <= e.version[j]
               /\ setting.version[j] = e.version[j] => setting.last[j] = e.last[j]
               /\ setting.last[j] <= e.last[j]
    BY <1>1, <1>2, <1>7
  <2> QED
    BY <1>3, <1>7, <2>1, Types DEF SettingOk
<1>9. doc' \in [Ids -> Doc] /\ doc'[d] = x /\ \A b \in Ids \ {d} : doc'[b] = doc[b]
  BY <1>4, <1>6, Types
<1>10. DocOk(d)
  BY <1>1, <1>3, <1>6, <1>7, <1>9 DEF DocOk, k
<1> QED
  BY <1>8, <1>9, <1>10 DEF DocsOk, DocOk

LEMMA SaveDocsOk ==
    ASSUME TypeInv, NEW w \in Browsers, NEW d \in Ids, Save(w, d)
    PROVE  DocsOk
<1> DEFINE f == web[w].form
           x == [doc[d] EXCEPT !.stage = "sent", !.form = f]
<1>1. doc[d] \in Doc /\ f \in Form /\ web[w].page = "new"
  BY Types, WebFields DEF Save
<1>2. doc' = [doc EXCEPT ![d] = x]
  <2> DEFINE y == [doc EXCEPT ![d].stage = "sent"]
             z == [doc[d] EXCEPT !.stage = "sent"]
  <2>1. doc' = [y EXCEPT ![d].form = f]
    BY DEF Save
  <2>2. y = [doc EXCEPT ![d] = z] /\ x = [z EXCEPT !.form = f]
    OBVIOUS
  <2> HIDE DEF x, y, z, f
  <2>3. y[d] = z /\ DOMAIN y = Ids
    BY <2>2, Types
  <2>4. doc' = [y EXCEPT ![d] = x]
    BY <2>1, <2>2, <2>3
  <2> QED
    BY <2>2, <2>3, <2>4, Types
<1> HIDE DEF f
<1>3. x \in Doc /\ x.stage = "sent" /\ x.form = f
  BY <1>1 DEF Doc
<1> HIDE DEF x
<1>4. doc' \in [Ids -> Doc] /\ doc'[d] = x /\ \A b \in Ids \ {d} : doc'[b] = doc[b]
  BY <1>2, <1>3, Types
<1> QED
  BY <1>1, <1>3, <1>4 DEF DocsOk, DocOk, f

\* A document moves on without being counted.
LEMMA MovesOk ==
    ASSUME TypeInv, NEW d \in Ids, doc[d].stage # "none",
           NEW g \in {"saved", "named", "uncounted", "refused"},
           doc' = [doc EXCEPT ![d].stage = g]
    PROVE  DocsOk
<1> DEFINE x == [doc[d] EXCEPT !.stage = g]
<1>1. doc[d] \in Doc
  BY Types
<1>2. x \in Doc /\ x.stage = g /\ x.form = doc[d].form
  BY <1>1 DEF Doc
<1> HIDE DEF x
<1>3. doc' \in [Ids -> Doc] /\ doc'[d] = x /\ \A b \in Ids \ {d} : doc'[b] = doc[b]
  BY <1>2, Types DEF x
<1> QED
  BY <1>2, <1>3 DEF DocsOk, DocOk

\* Each action does what the invariants need.
LEMMA NextOk ==
    ASSUME IInv, Next
    PROVE  StepOk /\ SettingOk /\ DocsOk
<1> USE DEF IInv
<1>1. ASSUME User PROVE StepOk /\ SettingOk /\ DocsOk
  <2>1. ASSUME NEW w \in Browsers, NEW s \in Slots, OpenApp(w, s)
        PROVE  StepOk /\ setting' = setting /\ rewound' = rewound /\ doc' = doc
    BY <2>1, OpenAppOk DEF OpenApp
  <2>2. ASSUME NEW w \in Browsers, NEW s \in Slots, NEW k \in Kinds, OpenForm(w, k, s)
        PROVE  StepOk /\ setting' = setting /\ rewound' = rewound /\ doc' = doc
    BY <2>2, OpenFormOk DEF OpenForm
  <2>3. ASSUME NEW w \in Browsers, NEW s \in Slots, NEW k \in Kinds, NEW n \in Typed,
               SaveCounters(w, s, k, n)
        PROVE  StepOk /\ setting' = setting /\ rewound' = rewound /\ doc' = doc
    BY <2>3, SaveCountersOk DEF SaveCounters
  <2>4. ASSUME NEW w \in Browsers, NEW s \in Slots, SaveOthers(w, s)
        PROVE  StepOk /\ setting' = setting /\ rewound' = rewound /\ doc' = doc
    BY <2>4, SaveOthersOk DEF SaveOthers
  <2>5. ASSUME NEW w \in Browsers, NEW n \in Typed, TypeNumber(w, n)
        PROVE  StepOk /\ setting' = setting /\ rewound' = rewound /\ doc' = doc
    BY <2>5, TypeNumberOk DEF TypeNumber
  <2>6. ASSUME NEW w \in Browsers, LeavePage(w)
        PROVE  StepOk /\ setting' = setting /\ rewound' = rewound /\ doc' = doc
    BY <2>6, LeavePageOk DEF LeavePage
  <2>7. ASSUME NEW w \in Browsers, OpenSettings(w)
        PROVE  StepOk /\ setting' = setting /\ rewound' = rewound /\ doc' = doc
    BY <2>7, OpenSettingsOk DEF OpenSettings
  <2>8. ASSUME NEW w \in Browsers, NEW d \in Ids, Save(w, d)
        PROVE  StepOk /\ SettingOk /\ DocsOk
    <3>1. setting' = setting /\ rewound' = rewound /\ web' = web /\ call' = call
      BY <2>8 DEF Save
    <3> QED
      BY <2>8, <3>1, SameCalls, SameSetting, SaveDocsOk
  <2> HIDE DEF IInv
  <2>9. \/ StepOk /\ setting' = setting /\ rewound' = rewound /\ doc' = doc
        \/ StepOk /\ SettingOk /\ DocsOk
    BY <1>1, <2>1, <2>2, <2>3, <2>4, <2>5, <2>6, <2>7, <2>8 DEF User
  <2> QED
    BY <2>9, SameSetting, SameDocs DEF IInv
<1>2. ASSUME NEW s \in Slots, NEW k \in Kinds, ServeKey(s, k)
      PROVE  StepOk /\ SettingOk /\ DocsOk
  <2>1. doc' = doc
    BY <1>2 DEF ServeKey
  <2> QED
    BY <1>2, <2>1, ServeKeyOk, ServeKeySetting, SameDocs
<1>3. ASSUME NEW s \in Slots,
             \/ ServeList(s) \/ FailCall(s) \/ AnswerSave(s) \/ AnswerList(s) \/ AnswerFailed(s)
      PROVE  StepOk /\ SettingOk /\ DocsOk
  <2>1. setting' = setting /\ rewound' = rewound /\ doc' = doc
    BY <1>3 DEF ServeList, FailCall, AnswerSave, AnswerList, AnswerFailed
  <2>2. StepOk
    BY <1>3, ServeListOk, FailCallOk, AnswerSaveOk, AnswerListOk, AnswerFailedOk
  <2> QED
    BY <2>1, <2>2, SameSetting, SameDocs
<1>4. ASSUME NEW d \in Ids, IncreaseBySettingKey(d)
      PROVE  StepOk /\ SettingOk /\ DocsOk
  <2>1. web' = web /\ call' = call
    BY <1>4 DEF IncreaseBySettingKey
  <2> QED
    BY <1>4, <2>1, SameCalls, IncreaseOk
<1>5. ASSUME NEW d \in Ids, SaveDoc(d) \/ NamePdf(d) \/ FailDoc(d)
      PROVE  StepOk /\ SettingOk /\ DocsOk
  <2>1. web' = web /\ call' = call /\ setting' = setting /\ rewound' = rewound
    BY <1>5 DEF SaveDoc, NamePdf, FailDoc
  <2>2. /\ doc[d].stage # "none"
        /\ \E g \in {"saved", "named", "uncounted", "refused"} : doc' = [doc EXCEPT ![d].stage = g]
    <3>1. CASE SaveDoc(d) \/ NamePdf(d)
      BY <3>1 DEF SaveDoc, NamePdf
    <3>2. CASE FailDoc(d) /\ doc[d].stage = "sent"
      BY <3>2 DEF FailDoc
    <3>3. CASE FailDoc(d) /\ doc[d].stage # "sent"
      BY <3>3 DEF FailDoc
    <3> QED
      BY <1>5, <3>1, <3>2, <3>3
  <2>3. DocsOk
    BY <2>2, MovesOk
  <2> QED
    BY <2>1, <2>3, SameCalls, SameSetting
<1> QED
  BY <1>1, <1>2, <1>3, <1>4, <1>5 DEF Next, Settings, Creation

LEMMA SpentOk ==
    ASSUME TypeInv, Next
    PROVE  spent' \in [clicks : Nat, failures : Nat]
<1>1. \/ spent' = spent
      \/ Spend("clicks", MaxClicks)
      \/ Spend("failures", MaxFailures)
  BY DEF Next, User, Settings, Creation, OpenApp, OpenForm, TypeNumber, Save, LeavePage,
     OpenSettings, SaveCounters, SaveOthers, ServeList, ServeKey, FailCall, SaveDoc, NamePdf,
     IncreaseBySettingKey, FailDoc, AnswerSave, AnswerList, AnswerFailed
<1> QED
  BY <1>1, SpendStep, Types

-----------------------------------------------------------------------------
(***************************************************************************)
(* The invariant.                                                          *)
(***************************************************************************)

\* What is known of a copy because of where it was taken from.
LEMMA OldSource ==
    ASSUME CopyInv, TypeInv
    PROVE  \A k \in Kinds : \A c \in Copy : CopySource(c, k) => OldCopy(c, k)
<1> SUFFICES ASSUME NEW k \in Kinds, NEW c \in Copy, CopySource(c, k)
             PROVE  OldCopy(c, k)
  OBVIOUS
<1>1. CASE Agree(c, NoCopy, k)
  BY <1>1 DEF CopyInv, OldCopy, Agree
<1>2. CASE Agree(c, setting, k)
  BY <1>2, Types, CopyFields DEF OldCopy, Agree
<1>3. CASE \E w \in Browsers : Agree(c, web[w].copy, k)
  BY <1>3 DEF CopyInv, OldCopy, Agree
<1>4. CASE \E s \in Slots : call[s].key # k /\ Agree(c, call[s].copy, k)
  BY <1>4 DEF CopyInv, OldCopy, Agree
<1> QED
  BY <1>1, <1>2, <1>3, <1>4 DEF CopySource

LEMMA CountingSource ==
    ASSUME IInv
    PROVE  \A k \in Kinds \ rewound : \A c \in Copy : CopySource(c, k) => CountingCopy(c, k)
<1> SUFFICES ASSUME NEW k \in Kinds \ rewound, NEW c \in Copy, CopySource(c, k)
             PROVE  CountingCopy(c, k)
  OBVIOUS
<1>0. /\ setting.last[k] \in Nat /\ \A d \in Ids : doc[d].at \in Nat
      /\ \A d \in Ids : doc[d].stage = "counted" => doc[d].at > 0
  BY Types, CopyFields, DocFields DEF IInv, CountInv
<1>1. CASE Agree(c, NoCopy, k)
  BY <1>0, <1>1, NoCopyStep DEF CountingCopy, Agree, Counted
<1>2. CASE Agree(c, setting, k)
  BY <1>0, <1>2 DEF IInv, CountInv, CountingCopy, Agree
<1>3. CASE \E w \in Browsers : Agree(c, web[w].copy, k)
  BY <1>3 DEF IInv, CountInv, CountingCopy, Agree
<1>4. CASE \E s \in Slots : call[s].key # k /\ Agree(c, call[s].copy, k)
  BY <1>4 DEF IInv, CountInv, CountingCopy, Agree
<1> QED
  BY <1>1, <1>2, <1>3, <1>4 DEF CopySource

LEMMA OldFormSource ==
    ASSUME CopyInv, TypeInv
    PROVE  \A f \in Form : FormSource(f) => OldForm(f)
<1> SUFFICES ASSUME NEW f \in Form, FormSource(f), f.kind \in Kinds
             PROVE  f.version <= setting.version[f.kind]
  BY DEF OldForm
<1>0. setting.version[f.kind] \in Nat
  BY Types, CopyFields
<1>1. CASE \E w \in Browsers : f = web[w].form
  BY <1>1 DEF CopyInv, OldForm
<1>2. CASE f.version = 0
  BY <1>0, <1>2
<1>3. CASE \E w \in Browsers : f.kind = web[w].form.kind /\ f.version = web[w].form.version
  BY <1>3 DEF CopyInv, OldForm
<1>4. CASE \E w \in Browsers : f.version = web[w].copy.version[f.kind]
  BY <1>4 DEF CopyInv, OldCopy
<1>5. CASE \E s \in Slots : call[s].key # f.kind /\ f.version = call[s].copy.version[f.kind]
  BY <1>5 DEF CopyInv, OldCopy
<1> QED
  BY <1>1, <1>2, <1>3, <1>4, <1>5 DEF FormSource

LEMMA FreshFormSource ==
    ASSUME IInv
    PROVE  \A f \in Form : FormSource(f) => FreshForm(f)
<1> SUFFICES ASSUME NEW f \in Form, FormSource(f), f.kind \in Kinds \ rewound, ~f.typed
             PROVE  /\ f.number <= setting.last[f.kind] + 1
                    /\ \A d \in Ids :
                          Counted(d, f.kind) /\ doc[d].at <= f.version =>
                              doc[d].form.number < f.number
  BY DEF FreshForm
<1>0. /\ setting.last[f.kind] \in Nat
      /\ \A d \in Ids : doc[d].at \in Nat /\ doc[d].form.number \in Nat
      /\ \A d \in Ids : doc[d].stage = "counted" => doc[d].at > 0
  BY Types, CopyFields, DocFields DEF IInv, CountInv, Form
<1>1. CASE \E w \in Browsers : f = web[w].form
  BY <1>1 DEF IInv, CountInv, FreshForm
<1>2. CASE f.version = 0 /\ f.number = 0
  BY <1>0, <1>2 DEF Counted
<1>3. ASSUME NEW c \in Copy, CountingCopy(c, f.kind),
             f.version = c.version[f.kind], f.number = c.last[f.kind] + 1
      PROVE  /\ f.number <= setting.last[f.kind] + 1
             /\ \A d \in Ids :
                   Counted(d, f.kind) /\ doc[d].at <= f.version =>
                       doc[d].form.number < f.number
  BY <1>0, <1>3, CopyFields DEF CountingCopy
<1>4. CASE \E w \in Browsers :
             /\ f.version = web[w].copy.version[f.kind]
             /\ f.number = web[w].copy.last[f.kind] + 1
  BY <1>3, <1>4, Types, WebFields DEF IInv, CountInv
<1>5. CASE \E s \in Slots :
             /\ call[s].key # f.kind
             /\ f.version = call[s].copy.version[f.kind]
             /\ f.number = call[s].copy.last[f.kind] + 1
  BY <1>3, <1>5, Types, CallFields DEF IInv, CountInv
<1> QED
  BY <1>1, <1>2, <1>4, <1>5 DEF FormSource

\* What is known of a copy, or a form, stays so when the counters change.
LEMMA OldStep ==
    ASSUME TypeInv, SettingOk
    PROVE  /\ \A k \in Kinds : \A c \in Copy :
                 OldCopy(c, k) =>
                    /\ c.version[k] <= setting'.version[k]
                    /\ c.version[k] = setting'.version[k] => c.last[k] = setting'.last[k]
           /\ \A f \in Form :
                 OldForm(f) /\ f.kind \in Kinds => f.version <= setting'.version[f.kind]
<1>1. /\ \A k \in Kinds : setting.version[k] \in Nat /\ setting'.version[k] \in Nat
      /\ \A f \in Form : f.version \in Nat
  BY Types, CopyFields DEF SettingOk, Form
<1>2. ASSUME NEW k \in Kinds, NEW c \in Copy, OldCopy(c, k)
      PROVE  /\ c.version[k] <= setting'.version[k]
             /\ c.version[k] = setting'.version[k] => c.last[k] = setting'.last[k]
  BY <1>1, <1>2, CopyFields DEF OldCopy, SettingOk
<1>3. ASSUME NEW f \in Form, OldForm(f), f.kind \in Kinds
      PROVE  f.version <= setting'.version[f.kind]
  BY <1>1, <1>3 DEF OldForm, SettingOk
<1> QED
  BY <1>2, <1>3

\* A document that is counted has been, or is newer than all copies.
LEMMA CountedStep ==
    ASSUME TypeInv, SettingOk, DocsOk, NEW d \in Ids, NEW k, Counted(d, k)'
    PROVE  \/ doc'[d] = doc[d] /\ Counted(d, k)
           \/ /\ doc'[d].form = doc[d].form /\ doc'[d].at = setting.version[k] + 1
              /\ setting'.last[k] = setting.last[k] + 1
BY DEF Counted, DocsOk, DocOk

LEMMA CountingStep ==
    ASSUME TypeInv, SettingOk, DocsOk
    PROVE  \A k \in Kinds \ rewound' : \A c \in Copy :
              OldCopy(c, k) /\ CountingCopy(c, k) =>
                 /\ c.last[k] <= setting'.last[k]
                 /\ \A d \in Ids :
                       Counted(d, k)' /\ doc'[d].at <= c.version[k] =>
                           doc'[d].form.number <= c.last[k]
<1> SUFFICES ASSUME NEW k \in Kinds \ rewound', NEW c \in Copy,
                    OldCopy(c, k), CountingCopy(c, k)
             PROVE  /\ c.last[k] <= setting'.last[k]
                    /\ \A d \in Ids :
                          Counted(d, k)' /\ doc'[d].at <= c.version[k] =>
                              doc'[d].form.number <= c.last[k]
  OBVIOUS
<1>1. /\ c.last[k] \in Nat /\ c.version[k] \in Nat /\ setting.last[k] \in Nat
      /\ setting.version[k] \in Nat /\ setting'.last[k] \in Nat
  BY Types, CopyFields DEF SettingOk
<1>2. c.last[k] <= setting'.last[k]
  BY <1>1 DEF CountingCopy, SettingOk
<1>3. ASSUME NEW d \in Ids, Counted(d, k)', doc'[d].at <= c.version[k]
      PROVE  doc'[d].form.number <= c.last[k]
  <2>1. doc'[d].at # setting.version[k] + 1
    BY <1>1, <1>3 DEF OldCopy
  <2>2. doc'[d] = doc[d] /\ Counted(d, k)
    BY <1>3, <2>1, CountedStep
  <2> QED
    BY <1>3, <2>2 DEF CountingCopy
<1> QED
  BY <1>2, <1>3

LEMMA FreshStep ==
    ASSUME TypeInv, SettingOk, DocsOk
    PROVE  \A f \in Form :
              OldForm(f) /\ FreshForm(f) /\ f.kind \in Kinds \ rewound' /\ ~f.typed =>
                 /\ f.number <= setting'.last[f.kind] + 1
                 /\ \A d \in Ids :
                       Counted(d, f.kind)' /\ doc'[d].at <= f.version =>
                           doc'[d].form.number < f.number
<1> SUFFICES ASSUME NEW f \in Form, OldForm(f), FreshForm(f),
                    f.kind \in Kinds \ rewound', ~f.typed
             PROVE  /\ f.number <= setting'.last[f.kind] + 1
                    /\ \A d \in Ids :
                          Counted(d, f.kind)' /\ doc'[d].at <= f.version =>
                              doc'[d].form.number < f.number
  OBVIOUS
<1>1. /\ f.number \in Nat /\ f.version \in Nat /\ setting.last[f.kind] \in Nat
      /\ setting.version[f.kind] \in Nat /\ setting'.last[f.kind] \in Nat
  BY Types, CopyFields DEF SettingOk, Form
<1>2. f.kind \in Kinds \ rewound
  BY DEF SettingOk
<1>3. f.number <= setting'.last[f.kind] + 1
  BY <1>1, <1>2 DEF FreshForm, SettingOk
<1>4. ASSUME NEW d \in Ids, Counted(d, f.kind)', doc'[d].at <= f.version
      PROVE  doc'[d].form.number < f.number
  <2>1. doc'[d].at # setting.version[f.kind] + 1
    BY <1>1, <1>2, <1>4 DEF OldForm
  <2>2. doc'[d] = doc[d] /\ Counted(d, f.kind)
    BY <1>4, <2>1, CountedStep
  <2> QED
    BY <1>2, <1>4, <2>2 DEF FreshForm
<1> QED
  BY <1>3, <1>4

LEMMA TypeStep ==
    ASSUME IInv, Next, StepOk, SettingOk, DocsOk
    PROVE  TypeInv'
<1>1. TypeInv
  BY DEF IInv
<1>2. TypeOK'
  <2>1. spent' \in [clicks : Nat, failures : Nat]
    BY <1>1, SpentOk
  <2> QED
    BY <2>1 DEF TypeOK, StepOk, SettingOk, DocsOk
<1>3. \A d \in Ids : doc'[d].stage # "none" => doc'[d].form.kind \in Kinds
  BY <1>1, Types DEF DocsOk, DocOk, KindInv
<1>4. KindInv'
  BY <1>3 DEF KindInv, StepOk
<1> QED
  BY <1>2, <1>4 DEF TypeInv, StepOk

\* The form of a document was in a browser, or in the document already.
LEMMA DocForm ==
    ASSUME TypeInv, DocsOk, NEW d \in Ids
    PROVE  doc'[d].form = doc[d].form \/ \E w \in Browsers : doc'[d].form = web[w].form
BY DEF DocsOk, DocOk

LEMMA CopyStep ==
    ASSUME IInv, StepOk, SettingOk, DocsOk, TypeInv'
    PROVE  CopyInv'
<1>1. TypeInv /\ CopyInv
  BY DEF IInv
<1>2. /\ \A w \in Browsers : web'[w].copy \in Copy /\ web'[w].form \in Form
      /\ \A s \in Slots : call'[s].copy \in Copy
      /\ \A d \in Ids : doc[d].form \in Form /\ doc'[d].form \in Form
      /\ \A w \in Browsers : web[w].form \in Form
  BY <1>1, Types, WebFields, CallFields, DocFields DEF StepOk, DocsOk
<1>3. ASSUME NEW k \in Kinds, NEW c \in Copy, CopySource(c, k)
      PROVE  /\ c.version[k] <= setting'.version[k]
             /\ c.version[k] = setting'.version[k] => c.last[k] = setting'.last[k]
  BY <1>1, <1>3, OldSource, OldStep
<1>4. ASSUME NEW f \in Form, OldForm(f), f.kind \in Kinds
      PROVE  f.version <= setting'.version[f.kind]
  BY <1>1, <1>4, OldStep
<1>5. ASSUME NEW k \in Kinds
      PROVE  /\ OldCopy(NoCopy, k)'
             /\ \A w \in Browsers : OldCopy(web[w].copy, k)'
             /\ \A s \in Slots : call'[s].key # k => OldCopy(call[s].copy, k)'
  <2>1. /\ CopySource(NoCopy, k)
        /\ \A w \in Browsers : CopySource(web'[w].copy, k)
        /\ \A s \in Slots : call'[s].key # k => CopySource(call'[s].copy, k)
    BY SameSources DEF StepOk, Sources
  <2>2. NoCopy' = NoCopy
    BY DEF NoCopy
  <2> QED
    BY <1>2, <1>3, <2>1, <2>2, NoCopyStep DEF OldCopy
<1>6. ASSUME NEW w \in Browsers PROVE OldForm(web[w].form)'
  <2>1. OldForm(web'[w].form)
    BY <1>1, <1>2, OldFormSource DEF StepOk, Sources
  <2> QED
    BY <1>2, <1>4, <2>1 DEF OldForm
<1>7. ASSUME NEW d \in Ids PROVE OldForm(doc[d].form)'
  <2>1. OldForm(doc'[d].form)
    BY <1>1, DocForm DEF CopyInv
  <2> QED
    BY <1>2, <1>4, <2>1 DEF OldForm
<1> QED
  BY <1>5, <1>6, <1>7 DEF CopyInv

LEMMA CountStep ==
    ASSUME IInv, StepOk, SettingOk, DocsOk, TypeInv'
    PROVE  CountInv'
<1>1. TypeInv /\ CopyInv /\ CountInv
  BY DEF IInv
<1>2. /\ \A w \in Browsers : web'[w].copy \in Copy /\ web'[w].form \in Form
      /\ \A s \in Slots : call'[s].copy \in Copy
      /\ \A d \in Ids : doc[d].form \in Form /\ doc'[d].form \in Form
      /\ \A w \in Browsers : web[w].form \in Form
  BY <1>1, Types, WebFields, CallFields, DocFields DEF StepOk, DocsOk
<1>3. ASSUME NEW k \in Kinds \ rewound', NEW c \in Copy, CopySource(c, k)
      PROVE  /\ c.last[k] <= setting'.last[k]
             /\ \A d \in Ids :
                   Counted(d, k)' /\ doc'[d].at <= c.version[k] =>
                       doc'[d].form.number <= c.last[k]
  <2>1. k \in Kinds \ rewound
    BY DEF SettingOk
  <2>2. OldCopy(c, k) /\ CountingCopy(c, k)
    BY <1>1, <1>3, <2>1, OldSource, CountingSource
  <2> QED
    BY <1>1, <2>2, CountingStep
<1>4. ASSUME NEW f \in Form, OldForm(f), FreshForm(f), f.kind \in Kinds \ rewound', ~f.typed
      PROVE  /\ f.number <= setting'.last[f.kind] + 1
             /\ \A d \in Ids :
                   Counted(d, f.kind)' /\ doc'[d].at <= f.version =>
                       doc'[d].form.number < f.number
  BY <1>1, <1>4, FreshStep
<1>5. ASSUME NEW k \in Kinds \ rewound'
      PROVE  /\ \A w \in Browsers : CountingCopy(web[w].copy, k)'
             /\ \A s \in Slots : call'[s].key # k => CountingCopy(call[s].copy, k)'
  <2>1. /\ \A w \in Browsers : CopySource(web'[w].copy, k)
        /\ \A s \in Slots : call'[s].key # k => CopySource(call'[s].copy, k)
    BY DEF StepOk, Sources
  <2> QED
    BY <1>2, <1>3, <2>1 DEF CountingCopy
<1>6. ASSUME NEW k \in Kinds \ rewound', NEW d \in Ids, Counted(d, k)'
      PROVE  doc'[d].form.number <= setting'.last[k]
  <2>1. /\ k \in Kinds \ rewound /\ setting.last[k] <= setting'.last[k]
        /\ setting.last[k] \in Nat /\ setting'.last[k] \in Nat
        /\ doc[d].form.number \in Nat
    BY <1>1, <1>2, Types, CopyFields DEF SettingOk, Form
  <2>2. CASE doc'[d] = doc[d] /\ Counted(d, k)
    BY <1>1, <2>1, <2>2 DEF CountInv
  <2>3. CASE doc'[d].form = doc[d].form /\ setting'.last[k] = setting.last[k] + 1
    <3>1. ~doc[d].form.typed /\ doc[d].form.kind = k
      BY <1>6, <2>3 DEF Counted
    <3> QED
      BY <1>1, <2>1, <2>3, <3>1 DEF CountInv, FreshForm
  <2> QED
    BY <1>1, <1>6, <2>2, <2>3, CountedStep
<1>7. ASSUME NEW w \in Browsers PROVE FreshForm(web[w].form)'
  <2>1. OldForm(web'[w].form) /\ FreshForm(web'[w].form)
    BY <1>1, <1>2, OldFormSource, FreshFormSource DEF StepOk, Sources
  <2> QED
    BY <1>2, <1>4, <2>1 DEF FreshForm
<1>8. ASSUME NEW d \in Ids PROVE FreshForm(doc[d].form)'
  <2>1. OldForm(doc'[d].form) /\ FreshForm(doc'[d].form)
    BY <1>1, DocForm DEF CopyInv, CountInv
  <2> QED
    BY <1>2, <1>4, <2>1 DEF FreshForm
<1>9. ASSUME NEW d \in Ids, doc'[d].stage = "counted" PROVE doc'[d].at > 0
  <2>1. CASE doc'[d] = doc[d]
    BY <1>1, <1>9, <2>1 DEF CountInv
  <2>2. CASE doc'[d] # doc[d]
    <3>1. doc[d].stage = "named" /\ doc'[d].at = setting.version[doc[d].form.kind] + 1
      BY <1>9, <2>2 DEF DocsOk, DocOk
    <3> QED
      BY <1>1, <3>1, Types, CopyFields DEF KindInv
  <2> QED
    BY <2>1, <2>2
<1> QED
  BY <1>5, <1>6, <1>7, <1>8, <1>9 DEF CountInv

LEMMA InitIInv == Init => IInv
<1> SUFFICES ASSUME Init PROVE IInv
  OBVIOUS
<1>1. /\ Closed \in Web /\ Closed.form = NoForm /\ Closed.copy = NoCopy
      /\ Closed.page = "closed" /\ NoForm \in Form /\ NoForm.kind = None
  BY NoCopyStep DEF Closed, Web, NoForm, Form
<1>2. TypeOK
  BY <1>1, NoCopyStep, NoCallStep DEF Init, TypeOK, Doc
<1>3. KindInv /\ CallInv
  BY <1>1, NoCallStep DEF Init, KindInv, CallInv
<1>4. \A k \in Kinds : OldCopy(NoCopy, k)
  BY NoCopyStep DEF Init, OldCopy
<1>5. CopyInv
  BY <1>1, <1>4, NoCallStep DEF Init, CopyInv, OldForm
<1>6. \A w \in Browsers : InFlight(w) = {}
  BY NoCallStep DEF Init, InFlight
<1>7. OverlapInv /\ LoadersHaveACause
  BY <1>1, <1>6 DEF Init, OverlapInv, LoadersHaveACause
<1>8. CountInv
  BY <1>1, NoCopyStep, NoCallStep
     DEF Init, CountInv, CountingCopy, FreshForm, Counted
<1> QED
  BY <1>2, <1>3, <1>5, <1>7, <1>8 DEF IInv, TypeInv

LEMMA NextIInv == IInv /\ [Next]_vars => IInv'
<1>1. ASSUME IInv, Next PROVE IInv'
  <2>1. StepOk /\ SettingOk /\ DocsOk
    BY <1>1, NextOk
  <2>2. TypeInv'
    BY <1>1, <2>1, TypeStep
  <2>3. CopyInv' /\ CountInv'
    BY <1>1, <2>1, <2>2, CopyStep, CountStep
  <2> QED
    BY <2>1, <2>2, <2>3 DEF IInv, StepOk
<1>2. ASSUME IInv, UNCHANGED vars PROVE IInv'
  <2>1. /\ setting' = setting /\ doc' = doc /\ web' = web /\ call' = call
        /\ rewound' = rewound /\ spent' = spent
    BY <1>2 DEF vars
  <2>2. StepOk /\ SettingOk /\ DocsOk
    BY <1>2, <2>1, SameCalls, SameSetting, SameDocs DEF IInv
  <2>3. TypeInv'
    BY <1>2, <2>1 DEF IInv, TypeInv, TypeOK, KindInv, CallInv
  <2>4. CopyInv' /\ CountInv'
    BY <1>2, <2>2, <2>3, CopyStep, CountStep
  <2> QED
    BY <2>2, <2>3, <2>4 DEF IInv, StepOk
<1> QED
  BY <1>1, <1>2

-----------------------------------------------------------------------------
(***************************************************************************)
(* Theorems.                                                               *)
(***************************************************************************)

\* The invariant of the numbers holds in every state.
THEOREM Invariant == Spec => []IInv
BY InitIInv, NextIInv, PTL DEF Spec

\* The counters, the documents, the stores of the browsers and the settings calls
\* keep their form, also when the app leaves the screen with a form that is open.
THEOREM TypeCorrect == Spec => []TypeOK
<1>1. IInv => TypeOK
  BY DEF IInv, TypeInv
<1> QED
  BY <1>1, Invariant, PTL

\* A proposed number is beyond that of every document its copy of the counter has
\* counted, however the forms, the increments and the saves of the settings are
\* interleaved, as long as no save has lowered the counter.
\* (InvoiceForm.jsx:28-43, invoiceController/create.js:62-65, increaseBySettingKey.js:12)
THEOREM NumbersCorrect == Spec => []FreshProposalIsNew
<1>1. IInv => FreshProposalIsNew
  <2> SUFFICES ASSUME IInv, NEW d \in Ids, NEW e \in Ids, Untouched(d), Untouched(e),
                      doc[d].form.kind = doc[e].form.kind, doc[d].form.kind \notin rewound,
                      doc[d].stage = "counted", doc[d].at <= doc[e].form.version
               PROVE  doc[d].form.number < doc[e].form.number
    BY DEF FreshProposalIsNew
  <2>1. doc[d].form.kind \in Kinds
    BY Types DEF IInv, KindInv
  <2>2. Counted(d, doc[e].form.kind)
    BY DEF Counted, Untouched
  <2> QED
    BY <2>1, <2>2 DEF IInv, CountInv, FreshForm, Untouched
<1> QED
  BY <1>1, Invariant, PTL

\* A page never shows a loader that nothing will end: the store is loading only
\* while a settings call of the browser is in flight, and the app is off the screen
\* only then, or after a call that failed.
\* (redux/settings/reducer.js:22-49, apps/ErpApp.jsx:25-90)
THEOREM LoadersCorrect == Spec => []LoadersHaveACause
<1>1. IInv => LoadersHaveACause
  BY DEF IInv
<1> QED
  BY <1>1, Invariant, PTL

\* No answer puts an older copy of the counters in a browser that has made one
\* settings call at a time.
\* (redux/settings/actions.js:82-157)
THEOREM CopiesAdvance == Spec => CopyNeverOlder
<1>1. IInv /\ [Next]_vars =>
        [\A w \in Browsers : ~ web'[w].overlapped /\ web'[w].isSuccess =>
            \A k \in Kinds : web'[w].copy.version[k] >= web[w].copy.version[k]]_vars
  <2> SUFFICES ASSUME IInv, Next, NEW w \in Browsers,
                      ~web'[w].overlapped, web'[w].isSuccess, NEW k \in Kinds
               PROVE  web'[w].copy.version[k] >= web[w].copy.version[k]
    OBVIOUS
  <2>1. Receives(w) /\ web[w].copy.version[k] \in Nat
    BY NextOk, Types, WebFields, CopyFields DEF IInv, StepOk
  <2>2. CASE web'[w].copy = web[w].copy
    BY <2>1, <2>2
  <2>3. ASSUME ~web[w].overlapped, NEW s \in InFlight(w), call[s].stage = "listed",
               web'[w].copy = call[s].copy
        PROVE  web'[w].copy.version[k] >= web[w].copy.version[k]
    <3>1. call[s].copy.version[k] \in Nat
      BY Types, CallFields, CopyFields DEF IInv, InFlight
    <3> QED
      BY <2>1, <2>3, <3>1 DEF IInv, OverlapInv
  <2> QED
    BY <2>1, <2>2, <2>3 DEF Receives
<1> QED
  BY <1>1, Invariant, PTL DEF Spec, CopyNeverOlder

\* A save of the settings changes a counter that its user did not change only if
\* that counter had changed since it was copied.
\* (UpdateSettingForm.jsx:28-42, settingController/updateManySetting.js:17-41)
THEOREM SavesCorrect == Spec => SaveKeepsTheRest
<1>1. IInv /\ [Next]_vars =>
        [\A s \in Slots : \A k \in call[s].todo \ call'[s].todo :
            setting'.last[k] # setting.last[k] =>
                call[s].key = k \/ call[s].copy.version[k] < setting.version[k]]_vars
  <2> SUFFICES ASSUME IInv, Next, NEW s \in Slots, NEW k \in call[s].todo \ call'[s].todo,
                      setting'.last[k] # setting.last[k], call[s].key # k
               PROVE  call[s].copy.version[k] < setting.version[k]
    OBVIOUS
  <2>1. TypeInv /\ s \in Slots /\ k \in Kinds
    BY Types, CallFields DEF IInv
  <2>2. PICK t \in Slots, j \in Kinds : ServeKey(t, j)
    BY DEF Next, User, Settings, Creation, OpenApp, OpenForm, TypeNumber, Save, LeavePage,
       OpenSettings, SaveCounters, SaveOthers, ServeList, FailCall, SaveDoc, NamePdf,
       IncreaseBySettingKey, FailDoc, AnswerSave, AnswerList, AnswerFailed
  <2>3. t = s /\ j = k
    <3> DEFINE c == [call[t] EXCEPT !.todo = call[t].todo \ {j}]
    <3>1. call' = [call EXCEPT ![t] = c]
      BY <2>2 DEF ServeKey
    <3>2. call[t] \in Call
      BY <2>1, Types
    <3>3. c.todo = call[t].todo \ {j}
      BY <3>2 DEF Call
    <3> HIDE DEF c
    <3> QED
      BY <2>1, <3>1, <3>3, Types
  <2>4. setting'.last[k] = call[s].copy.last[k]
    <3>1. setting' = Changed(k, call[s].copy.last[k])
      BY <2>2, <2>3 DEF ServeKey, Written
    <3> QED
      BY <2>1, <3>1, Types, CallFields, CopyFields, ChangedStep
  <2>5. OldCopy(call[s].copy, k)
    BY <2>1 DEF IInv, CopyInv
  <2>6. call[s].copy.version[k] \in Nat /\ setting.version[k] \in Nat
    BY <2>1, Types, CallFields, CopyFields
  <2> QED
    BY <2>4, <2>5, <2>6 DEF OldCopy
<1> QED
  BY <1>1, Invariant, PTL DEF Spec, SaveKeepsTheRest
=============================================================================
