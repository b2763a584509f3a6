--------------------------- MODULE SessionsProofs ---------------------------
(***************************************************************************)
(* Theorems about Sessions, for any number of users, tabs, calls, seconds, *)
(* links, clicks and refusals.                                             *)
(***************************************************************************)
EXTENDS Sessions, TLAPS

USE SessionsAssumption

-----------------------------------------------------------------------------
(***************************************************************************)
(* Invariants.                                                             *)
(***************************************************************************)

Logins == {"login", "reset"}

\* What a call can carry at each stage.
CallOk(c) ==
    /\ c.kind = "none" => c.stage = "none"
    /\ c.kind \in Logins /\ c.stage # "none" => c.user \in Users
    /\ c.kind = "reset" /\ c.stage # "none" => c.link \in 1 .. MaxLinks
    /\ c.stage = "matched" => c.kind = "reset"
    /\ c.stage = "passed" => c.kind = "logout"
    /\ c.kind \in Logins /\ c.stage = "done" => c.token \in Token /\ c.token.user = c.user
    /\ c.kind \in Calls /\ c.stage \in {"passed", "done"} => c.token \in Token
    /\ c.stage = "refused" => c.kind \in Calls

CallInv == \A s \in Slots : CallOk(call[s])

TypeInv == TypeOK /\ CallInv

\* A token that is stored is of the user it is stored for, and both are as long
\* as nobody was switched what each tab shows, and has sent last.
StorageInv ==
    storage.current.token \in Token => storage.current.token.user = storage.current.user

Trusts(r) ==
    r.isLoggedIn /\ r.current.user # None =>
        /\ storage.present /\ storage.current.token \in Token =>
              storage.current.token.user = r.current.user
        /\ r.header \in Token => r.header.user = r.current.user

TabInv == \A t \in Tabs : Trusts(tab[t])

\* A call of the app is for the user that is shown.
AsShown(c) ==
    c.kind \in {"app", "profile"} /\ c.token \in Token /\ c.user # None =>
        c.token.user = c.user

CallsAsShown == \A s \in Slots : AsShown(call[s])

ShownInv ==
    /\ StorageInv
    /\ "switched" \notin past.mishaps => TabInv /\ CallsAsShown

\* A logout that found nothing stored is known.
OrphanInv ==
    \A s \in Slots :
        call[s].kind = "logout" /\ ~call[s].kept => "orphaned" \in past.mishaps

\* A session is open after it was closed only if its token was issued again.
ClosedInv == server.sessions \cap past.closed \subseteq past.again

\* Links: each was mailed to one user, and the one that is good has not been used.
LinkInv ==
    /\ \A u \in Users : server.link[u] <= server.mails
    /\ \A u, v \in Users : u # v /\ server.link[u] # 0 => server.link[u] # server.link[v]
    /\ \A l \in 1 .. MaxLinks : l > server.mails => past.used[l] = 0
    /\ \A u \in Users : server.link[u] # 0 => past.used[server.link[u]] = 0

\* A reset that was matched has the link of its user, which then is used once,
\* unless it was matched twice.
MatchedInv ==
    \A s \in Slots : call[s].stage = "matched" =>
        /\ call[s].link <= server.mails
        /\ \A u \in Users : server.link[u] = call[s].link => u = call[s].user
        /\ "late" \notin past.mishaps =>
              /\ past.used[call[s].link] = 0
              /\ \A c \in Slots : c # s /\ call[c].stage = "matched" => call[c].link # call[s].link

\* Only a failed logout, or a saved profile, stores a login without a token; and
\* only one that found nothing stored stores a null.
IInv ==
    /\ TypeInv
    /\ ShownInv
    /\ OrphanInv /\ StoredLoginIsUsable
    /\ ClosedInv
    /\ LinkInv /\ MatchedInv /\ LinkIsUsedOnce

-----------------------------------------------------------------------------
(***************************************************************************)
(* Values.                                                                 *)
(***************************************************************************)

PastType ==
    [closed : SUBSET Token, again : SUBSET Token, used : [1 .. MaxLinks -> Nat],
     mishaps : SUBSET Mishaps, clicks : Nat, refusals : Nat]

ServerType ==
    [sessions : SUBSET Token, second : 0 .. MaxSecond,
     link : [Users -> 0 .. MaxLinks], mails : 0 .. MaxLinks]

\* The several kinds of nothing differ, and none is a token.
LEMMA Nothing ==
    /\ None \notin Token /\ NoToken \notin Token /\ NoToken # None
    /\ Nobody \in Current /\ Null \notin Current /\ Nobody # Null
    /\ Nobody.token = NoToken /\ Null.token = None /\ Null.user = None /\ Nobody.user = None
<1>1. NoToken \in [user : Users \cup {None}, second : Nat]
  BY DEF NoToken
<1>2. Token \subseteq [user : Users \cup {None}, second : Nat]
  BY DEF Token
<1>3. None \notin Token /\ NoToken # None
  BY <1>1, <1>2
<1>4. NoToken \notin Token
  BY DEF NoToken, Token
<1>5. /\ Nobody.token = NoToken /\ Null.token = None
      /\ Null.user = None /\ Nobody.user = None
  BY DEF Nobody, Null
<1>6. Nobody \in Current
  BY DEF Nobody, Current
<1>7. Null \notin Current
  BY <1>3, <1>5 DEF Current
<1> QED
  BY <1>3, <1>4, <1>5, <1>6, <1>7

\* The fields of a tab and of the localStorage.
LEMMA TabFields ==
    ASSUME NEW r \in Tab
    PROVE  /\ r.isLoggedIn \in BOOLEAN /\ r.isLoading \in BOOLEAN /\ r.shown \in BOOLEAN
           /\ r.current \in Current \cup {Null} /\ r.current.user \in Users \cup {None}
           /\ r.header \in Token \cup {NoToken, None}
<1>1. /\ r.isLoggedIn \in BOOLEAN /\ r.isLoading \in BOOLEAN /\ r.shown \in BOOLEAN
      /\ r.current \in Current \cup {Null} /\ r.header \in Token \cup {NoToken, None}
  BY DEF Tab
<1>2. r.current.user \in Users \cup {None}
  BY <1>1, Nothing DEF Current
<1> QED
  BY <1>1, <1>2

LEMMA StorageFields ==
    ASSUME NEW st \in Storage
    PROVE  /\ st.present \in BOOLEAN /\ st.current \in Current \cup {Null}
           /\ st.isLogout \in BOOLEAN
           /\ st.current.user \in Users \cup {None}
           /\ st.current.token \in Token \cup {NoToken, None}
<1>1. st.present \in BOOLEAN /\ st.current \in Current \cup {Null} /\ st.isLogout \in BOOLEAN
  BY DEF Storage
<1>2. st.current.user \in Users \cup {None} /\ st.current.token \in Token \cup {NoToken, None}
  BY <1>1, Nothing DEF Current
<1> QED
  BY <1>1, <1>2

\* What changes in a tab.
LEMMA TabStep ==
    ASSUME NEW r \in Tab
    PROVE  /\ \A h \in Token \cup {NoToken, None} :
                /\ [r EXCEPT !.header = h] \in Tab
                /\ [r EXCEPT !.header = h].header = h
                /\ [r EXCEPT !.header = h].current = r.current
                /\ [r EXCEPT !.header = h].isLoggedIn = r.isLoggedIn
           /\ \A b \in BOOLEAN :
                /\ [r EXCEPT !.shown = b] \in Tab
                /\ [r EXCEPT !.shown = b].header = r.header
                /\ [r EXCEPT !.shown = b].current = r.current
                /\ [r EXCEPT !.shown = b].isLoggedIn = r.isLoggedIn
           /\ \A b \in BOOLEAN :
                /\ [r EXCEPT !.isLoading = b] \in Tab
                /\ [r EXCEPT !.isLoading = b].header = r.header
                /\ [r EXCEPT !.isLoading = b].current = r.current
                /\ [r EXCEPT !.isLoading = b].isLoggedIn = r.isLoggedIn
           /\ \A c \in Current \cup {Null} :
                LET q == [r EXCEPT !.isLoggedIn = TRUE, !.isLoading = FALSE, !.current = c]
                IN  q \in Tab /\ q.header = r.header /\ q.current = c /\ q.isLoggedIn
<1>1. \A h \in Token \cup {NoToken, None} :
        /\ [r EXCEPT !.header = h] \in Tab
        /\ [r EXCEPT !.header = h].header = h
        /\ [r EXCEPT !.header = h].current = r.current
        /\ [r EXCEPT !.header = h].isLoggedIn = r.isLoggedIn
  BY DEF Tab
<1>2. \A b \in BOOLEAN :
        /\ [r EXCEPT !.shown = b] \in Tab
        /\ [r EXCEPT !.shown = b].header = r.header
        /\ [r EXCEPT !.shown = b].current = r.current
        /\ [r EXCEPT !.shown = b].isLoggedIn = r.isLoggedIn
  BY DEF Tab
<1>3. \A b \in BOOLEAN :
        /\ [r EXCEPT !.isLoading = b] \in Tab
        /\ [r EXCEPT !.isLoading = b].header = r.header
        /\ [r EXCEPT !.isLoading = b].current = r.current
        /\ [r EXCEPT !.isLoading = b].isLoggedIn = r.isLoggedIn
  BY DEF Tab
<1>4. \A c \in Current \cup {Null} :
        LET q == [r EXCEPT !.isLoggedIn = TRUE, !.isLoading = FALSE, !.current = c]
        IN  q \in Tab /\ q.header = r.header /\ q.current = c /\ q.isLoggedIn
  BY DEF Tab
<1> QED
  BY <1>1, <1>2, <1>3, <1>4

\* A tab that has been logged out, with a header that it has sent.
LEMMA LoggedOutStep ==
    ASSUME NEW h \in Token \cup {NoToken, None}, NEW b \in BOOLEAN
    PROVE  LET q == [LoggedOut EXCEPT !.header = h, !.shown = b]
           IN  q \in Tab /\ ~q.isLoggedIn
BY Nothing DEF LoggedOut, Tab

LEMMA IncludeStep ==
    ASSUME NEW r \in Tab, NEW st \in Storage
    PROVE  LET q == IncludeToken(r, st)
           IN  /\ q \in Tab /\ q.current = r.current /\ q.isLoggedIn = r.isLoggedIn
               /\ q.header = IF st.present THEN st.current.token ELSE r.header
<1>1. CASE st.present
  <2> DEFINE h == st.current.token
  <2>1. h \in Token \cup {NoToken, None}
    BY StorageFields
  <2>2. IncludeToken(r, st) = [r EXCEPT !.header = h]
    BY <1>1 DEF IncludeToken
  <2> HIDE DEF h
  <2>3. /\ [r EXCEPT !.header = h] \in Tab
        /\ [r EXCEPT !.header = h].header = h
        /\ [r EXCEPT !.header = h].current = r.current
        /\ [r EXCEPT !.header = h].isLoggedIn = r.isLoggedIn
    BY <2>1, TabStep
  <2> QED
    BY <1>1, <2>2, <2>3 DEF h
<1>2. CASE ~st.present
  BY <1>2 DEF IncludeToken
<1> QED
  BY <1>1, <1>2

LEMMA PageStep ==
    ASSUME NEW st \in Storage
    PROVE  LET q == Page(st)
           IN  /\ q \in Tab /\ q.header = None
               /\ q.isLoggedIn = st.present
               /\ q.current = IF st.present THEN st.current ELSE Nobody
BY StorageFields, Nothing DEF Page, LoggedOut, Tab

\* The calls that a step leaves in flight: those that were there, perhaps without
\* the tab that waits for them, and those that have just been sent.
SameCall(c, d) ==
    /\ c.kind = d.kind /\ c.stage = d.stage /\ c.user = d.user
    /\ c.token = d.token /\ c.link = d.link /\ (c.kept <=> d.kept)

StartsCall(c) ==
    /\ c.stage \in {"none", "sent"}
    /\ CallOk(c)

LEMMA NoCallStep == NoCall \in Call /\ StartsCall(NoCall) /\ NoCall.kind = "none" /\ NoCall.stage = "none"
BY DEF NoCall, Call, StartsCall, CallOk, Logins, Calls

LEMMA SentStep ==
    ASSUME NEW t \in Tabs, NEW r \in Tab, NEW kind \in {"list", "app", "profile", "logout"}
    PROVE  LET c == Sent(t, r, kind)
           IN  /\ c \in Call /\ StartsCall(c) /\ c.kind = kind /\ c.stage = "sent"
               /\ c.user = r.current.user /\ c.token = r.header
<1> DEFINE u == r.current.user
           h == r.header
<1>1. u \in Users \cup {None} /\ h \in Token \cup {NoToken, None}
  BY TabFields
<1>2. Sent(t, r, kind) = [NoCall EXCEPT !.tab = t, !.kind = kind, !.stage = "sent",
                                        !.user = u, !.token = h]
  BY DEF Sent
<1> HIDE DEF u, h
<1>3. LET c == Sent(t, r, kind)
      IN  /\ c \in Call /\ c.kind = kind /\ c.stage = "sent" /\ c.user = u /\ c.token = h
  BY <1>1, <1>2, NoCallStep DEF Call
<1>4. StartsCall(Sent(t, r, kind))
  BY <1>3 DEF StartsCall, CallOk, Logins
<1> QED
  BY <1>3, <1>4 DEF u, h

\* What changes in a call.
LEMMA StageStep ==
    ASSUME NEW c \in Call,
           NEW g \in {"none", "sent", "passed", "matched", "done", "refused", "failed"}
    PROVE  LET d == [c EXCEPT !.stage = g]
           IN  /\ d \in Call /\ d.stage = g /\ d.kind = c.kind /\ d.user = c.user
               /\ d.token = c.token /\ d.link = c.link /\ (d.kept <=> c.kept)
BY DEF Call

LEMMA IssuedStep ==
    ASSUME NEW c \in Call, NEW x \in Token
    PROVE  LET d == [c EXCEPT !.stage = "done", !.token = x]
           IN  /\ d \in Call /\ d.stage = "done" /\ d.kind = c.kind /\ d.user = c.user
               /\ d.token = x /\ d.link = c.link /\ (d.kept <=> c.kept)
BY DEF Call

LEMMA LeftStep ==
    ASSUME NEW c \in Call
    PROVE  [c EXCEPT !.tab = None] \in Call /\ SameCall([c EXCEPT !.tab = None], c)
BY DEF Call, SameCall

\* A step that spends clicks and refusals and knows of more mishaps.
PastGrows ==
    /\ past' \in PastType
    /\ past'.closed = past.closed /\ past'.again = past.again /\ past'.used = past.used
    /\ past.mishaps \subseteq past'.mishaps

LEMMA ClickedStep ==
    ASSUME NEW p \in PastType
    PROVE  LET q == Clicked(p)
           IN  /\ q \in PastType /\ q.closed = p.closed /\ q.again = p.again /\ q.used = p.used
               /\ q.mishaps = p.mishaps
BY DEF Clicked, PastType

LEMMA MishapStep ==
    ASSUME NEW p \in PastType, NEW m \in Mishaps, NEW when \in BOOLEAN
    PROVE  LET q == Mishap(p, m, when)
           IN  /\ q \in PastType /\ q.closed = p.closed /\ q.again = p.again /\ q.used = p.used
               /\ p.mishaps \subseteq q.mishaps /\ q.mishaps \subseteq p.mishaps \cup {m}
               /\ when => m \in q.mishaps
<1>1. CASE when
  BY <1>1 DEF Mishap, PastType
<1>2. CASE ~when
  BY <1>2 DEF Mishap
<1> QED
  BY <1>1, <1>2

-----------------------------------------------------------------------------
(***************************************************************************)
(* Steps of the browser.                                                   *)
(***************************************************************************)

\* A call that has just been sent, or none, when the mishaps are m.
NewCall(c, m) ==
    /\ StartsCall(c)
    /\ "switched" \notin m => AsShown(c)
    /\ c.kind = "logout" /\ ~c.kept => "orphaned" \in m

\* What has to be shown of a step that leaves the server alone.
LEMMA BrowserStep ==
    ASSUME IInv, UNCHANGED server, PastGrows,
           storage' \in Storage, tab' \in [Tabs -> Tab], call' \in [Slots -> Call],
           \A s \in Slots : SameCall(call'[s], call[s]) \/ NewCall(call'[s], past'.mishaps),
           StorageInv', "switched" \notin past'.mishaps => TabInv', StoredLoginIsUsable'
    PROVE  IInv'
<1>1. TypeOK'
  BY DEF IInv, TypeInv, TypeOK, PastGrows, PastType
<1>2. CallInv'
  <2> SUFFICES ASSUME NEW s \in Slots PROVE CallOk(call'[s])
    BY DEF CallInv
  <2>1. CASE SameCall(call'[s], call[s])
    <3>1. CallOk(call[s])
      BY DEF IInv, TypeInv, CallInv
    <3> QED
      BY <2>1, <3>1 DEF SameCall, CallOk
  <2>2. CASE NewCall(call'[s], past'.mishaps)
    BY <2>2 DEF NewCall, StartsCall
  <2> QED
    BY <2>1, <2>2
<1>3. ShownInv'
  <2>1. ASSUME "switched" \notin past'.mishaps, NEW s \in Slots PROVE AsShown(call'[s])
    <3>1. AsShown(call[s])
      BY <2>1 DEF IInv, ShownInv, CallsAsShown, PastGrows
    <3> QED
      BY <2>1, <3>1 DEF SameCall, AsShown, NewCall
  <2> QED
    BY <2>1 DEF ShownInv, CallsAsShown
<1>4. OrphanInv'
  BY DEF IInv, OrphanInv, SameCall, NewCall, PastGrows
<1>5. ClosedInv' /\ LinkIsUsedOnce'
  BY DEF IInv, ClosedInv, LinkIsUsedOnce, PastGrows
<1>6. LinkInv'
  BY DEF IInv, LinkInv, PastGrows
<1>7. MatchedInv'
  <2>1. \A s \in Slots : call'[s].stage = "matched" =>
          /\ call[s].stage = "matched" /\ call'[s].link = call[s].link
          /\ call'[s].user = call[s].user
    BY DEF SameCall, NewCall, StartsCall
  <2> QED
    BY <2>1 DEF IInv, MatchedInv, PastGrows
<1> QED
  BY <1>1, <1>2, <1>3, <1>4, <1>5, <1>6, <1>7 DEF IInv, TypeInv

\* The store and the localStorage after a step that may mount the app.
LEMMA BecomesStep ==
    ASSUME TypeOK, NEW t \in Tabs, NEW s \in Slots, NEW r \in Tab, NEW st \in Storage,
           Becomes(t, r, st, s)
    PROVE  /\ storage' = st
           /\ \E q \in Tab :
                /\ tab' = [tab EXCEPT ![t] = q]
                /\ q.isLoggedIn = r.isLoggedIn /\ q.current = r.current
                /\ \/ q.header = r.header
                   \/ st.present /\ q.header = st.current.token
                /\ r.isLoggedIn /\ ~tab[t].isLoggedIn /\ st.present /\ st.current # Null =>
                      q.header = st.current.token
           /\ call' \in [Slots -> Call]
           /\ \A c \in Slots \ {s} : call'[c] = call[c]
           /\ StartsCall(call'[s]) /\ call'[s].kind \in {"none", "list"}
<1> DEFINE mounts == r.isLoggedIn /\ ~tab[t].isLoggedIn
           sends == mounts /\ CanSend(st)
           q == IncludeToken(r, st)
           x == IF sends THEN q ELSE IF mounts THEN [r EXCEPT !.shown = FALSE] ELSE r
           c == IF sends THEN Sent(t, q, "list") ELSE NoCall
<1>1. storage' = st /\ tab' = [tab EXCEPT ![t] = x] /\ call' = [call EXCEPT ![s] = c]
  BY DEF Becomes
<1>2. /\ q \in Tab /\ q.current = r.current /\ q.isLoggedIn = r.isLoggedIn
      /\ q.header = IF st.present THEN st.current.token ELSE r.header
  BY IncludeStep
<1>3. /\ [r EXCEPT !.shown = FALSE] \in Tab
      /\ [r EXCEPT !.shown = FALSE].header = r.header
      /\ [r EXCEPT !.shown = FALSE].current = r.current
      /\ [r EXCEPT !.shown = FALSE].isLoggedIn = r.isLoggedIn
  BY TabStep
<1>4. /\ x \in Tab /\ x.isLoggedIn = r.isLoggedIn /\ x.current = r.current
      /\ x.header = r.header \/ (st.present /\ x.header = st.current.token)
      /\ sends /\ st.present => x.header = st.current.token
  <2> HIDE DEF q
  <2> QED
    BY <1>2, <1>3
<1>5. c \in Call /\ StartsCall(c) /\ c.kind \in {"none", "list"}
  <2>1. CASE sends
    <3>1. LET d == Sent(t, q, "list") IN d \in Call /\ StartsCall(d) /\ d.kind = "list"
      BY <1>2, SentStep
    <3> QED
      BY <2>1, <3>1
  <2>2. CASE ~sends
    BY <2>2, NoCallStep
  <2> QED
    BY <2>1, <2>2
<1>6. r.isLoggedIn /\ ~tab[t].isLoggedIn /\ st.present /\ st.current # Null => sends
  BY DEF CanSend
<1>7. call \in [Slots -> Call]
  BY DEF TypeOK
<1> HIDE DEF c, x, sends
<1>8. /\ call' \in [Slots -> Call] /\ call'[s] = c
      /\ \A d \in Slots \ {s} : call'[d] = call[d]
  BY <1>1, <1>5, <1>7
<1>9. \E y \in Tab :
        /\ tab' = [tab EXCEPT ![t] = y]
        /\ y.isLoggedIn = r.isLoggedIn /\ y.current = r.current
        /\ \/ y.header = r.header
           \/ st.present /\ y.header = st.current.token
        /\ r.isLoggedIn /\ ~tab[t].isLoggedIn /\ st.present /\ st.current # Null =>
              y.header = st.current.token
  BY <1>1, <1>4, <1>6
<1> QED
  BY <1>1, <1>5, <1>8, <1>9

\* The store and the calls after a page was loaded.
LEMMA LoadsStep ==
    ASSUME TypeOK, NEW t \in Tabs, NEW s \in Slots, NEW st \in Storage, Loads(t, st, s)
    PROVE  /\ storage' = st
           /\ \E q \in Tab :
                /\ tab' = [tab EXCEPT ![t] = q]
                /\ q.isLoggedIn = st.present
                /\ q.current = IF st.present THEN st.current ELSE Nobody
                /\ q.header = None \/ (st.present /\ q.header = st.current.token)
           /\ call' \in [Slots -> Call]
           /\ \A c \in Slots \ {s} : SameCall(call'[c], call[c])
           /\ StartsCall(call'[s]) /\ call'[s].kind \in {"none", "list"}
<1> DEFINE r == Page(st)
           q == IncludeToken(r, st)
           sends == r.isLoggedIn /\ CanSend(st)
           x == IF sends THEN q ELSE r
           n == IF sends THEN Sent(t, q, "list") ELSE NoCall
<1>1. /\ storage' = st /\ tab' = [tab EXCEPT ![t] = x]
      /\ call' = [c \in Slots |-> IF c = s THEN n
                                  ELSE IF call[c].tab = t THEN [call[c] EXCEPT !.tab = None]
                                  ELSE call[c]]
  BY DEF Loads
<1>2. /\ r \in Tab /\ r.header = None /\ r.isLoggedIn = st.present
      /\ r.current = IF st.present THEN st.current ELSE Nobody
  BY PageStep
<1>3. /\ q \in Tab /\ q.current = r.current /\ q.isLoggedIn = r.isLoggedIn
      /\ q.header = IF st.present THEN st.current.token ELSE r.header
  BY <1>2, IncludeStep
<1>4. n \in Call /\ StartsCall(n) /\ n.kind \in {"none", "list"}
  <2>1. CASE sends
    <3>1. LET d == Sent(t, q, "list") IN d \in Call /\ StartsCall(d) /\ d.kind = "list"
      BY <1>3, SentStep
    <3> QED
      BY <2>1, <3>1
  <2>2. CASE ~sends
    BY <2>2, NoCallStep
  <2> QED
    BY <2>1, <2>2
<1>5. /\ x \in Tab /\ x.isLoggedIn = st.present
      /\ x.current = IF st.present THEN st.current ELSE Nobody
      /\ x.header = None \/ (st.present /\ x.header = st.current.token)
  <2> HIDE DEF q, r
  <2> QED
    BY <1>2, <1>3
<1> HIDE DEF n, x, sends, q, r
<1>6. \A c \in Slots \ {s} : call'[c] \in Call /\ SameCall(call'[c], call[c])
  <2> SUFFICES ASSUME NEW c \in Slots \ {s} PROVE call'[c] \in Call /\ SameCall(call'[c], call[c])
    OBVIOUS
  <2>1. call[c] \in Call
    BY DEF TypeOK
  <2>2. CASE call'[c] = call[c]
    BY <2>1, <2>2 DEF SameCall
  <2>3. CASE call'[c] = [call[c] EXCEPT !.tab = None]
    BY <2>1, <2>3, LeftStep
  <2> QED
    BY <1>1, <2>2, <2>3
<1>7. call'[s] = n
  BY <1>1
<1>8. call' \in [Slots -> Call]
  BY <1>1, <1>4, <1>6, <1>7
<1>9. \E y \in Tab :
        /\ tab' = [tab EXCEPT ![t] = y]
        /\ y.isLoggedIn = st.present
        /\ y.current = IF st.present THEN st.current ELSE Nobody
        /\ y.header = None \/ (st.present /\ y.header = st.current.token)
  BY <1>1, <1>5
<1> QED
  BY <1>1, <1>4, <1>6, <1>7, <1>8, <1>9

\* Whether a stored login can be trusted by a tab.
Suits(st, r) ==
    r.isLoggedIn /\ r.current.user # None /\ st.present /\ st.current.token \in Token =>
        st.current.token.user = r.current.user

HeaderOk(r) ==
    r.isLoggedIn /\ r.current.user # None /\ r.header \in Token =>
        r.header.user = r.current.user

LEMMA TabsStep ==
    ASSUME IInv, NEW t \in Tabs, NEW q \in Tab, tab' = [tab EXCEPT ![t] = q],
           "switched" \notin past.mishaps,
           HeaderOk(q), Suits(storage', q), \A v \in Tabs \ {t} : Suits(storage', tab[v])
    PROVE  TabInv'
<1> SUFFICES ASSUME NEW v \in Tabs PROVE Trusts(tab[v])'
  BY DEF TabInv
<1>1. tab \in [Tabs -> Tab] /\ Trusts(tab[v])
  BY DEF IInv, TypeInv, TypeOK, ShownInv, TabInv
<1>2. CASE v = t
  BY <1>1, <1>2 DEF Trusts, HeaderOk, Suits
<1>3. CASE v # t
  BY <1>1, <1>3 DEF Trusts, Suits
<1> QED
  BY <1>2, <1>3

\* What is known of tabs and localStorage as long as nobody was switched.
LEMMA Trusted ==
    ASSUME IInv, NEW t \in Tabs, "switched" \notin past.mishaps
    PROVE  HeaderOk(tab[t]) /\ Suits(storage, tab[t])
BY DEF IInv, ShownInv, TabInv, Trusts, HeaderOk, Suits

\* The types, by name.
LEMMA Types ==
    ASSUME IInv
    PROVE  /\ server \in ServerType /\ storage \in Storage /\ past \in PastType
           /\ tab \in [Tabs -> Tab] /\ call \in [Slots -> Call]
           /\ \A s \in Slots : CallOk(call[s])
BY DEF IInv, TypeInv, TypeOK, CallInv, ServerType, PastType

LEMMA ListCall ==
    ASSUME NEW c, NEW m, StartsCall(c), c.kind \in {"none", "list"}
    PROVE  NewCall(c, m)
BY DEF NewCall, AsShown

\* What has to be shown of a step that loads the page of a tab.
LEMMA LoadsKeeps ==
    ASSUME IInv, NEW t \in Tabs, NEW s \in Slots, NEW st \in Storage, Loads(t, st, s),
           UNCHANGED server, PastGrows,
           st.current.token \in Token => st.current.token.user = st.current.user,
           "switched" \notin past'.mishaps => \A v \in Tabs \ {t} : Suits(st, tab[v]),
           StoredLoginIsUsable'
    PROVE  IInv'
<1>1. TypeOK
  BY DEF IInv, TypeInv
<1>2. /\ storage' = st /\ call' \in [Slots -> Call]
      /\ \A c \in Slots \ {s} : SameCall(call'[c], call[c])
      /\ StartsCall(call'[s]) /\ call'[s].kind \in {"none", "list"}
  BY <1>1, LoadsStep
<1>3. PICK q \in Tab :
        /\ tab' = [tab EXCEPT ![t] = q]
        /\ q.isLoggedIn = st.present
        /\ q.current = IF st.present THEN st.current ELSE Nobody
        /\ q.header = None \/ (st.present /\ q.header = st.current.token)
  BY <1>1, LoadsStep
<1>4. HeaderOk(q) /\ Suits(st, q)
  BY <1>3, Nothing DEF HeaderOk, Suits
<1>5. "switched" \notin past'.mishaps => TabInv'
  BY <1>2, <1>3, <1>4, TabsStep DEF PastGrows
<1>6. NewCall(call'[s], past'.mishaps)
  BY <1>2, ListCall
<1>7. tab' \in [Tabs -> Tab]
  BY <1>3, Types
<1>8. StorageInv'
  BY <1>2 DEF StorageInv
<1> QED
  BY <1>2, <1>5, <1>6, <1>7, <1>8, BrowserStep

\* The same of a step after which the app may be mounted.
LEMMA BecomesKeeps ==
    ASSUME IInv, NEW t \in Tabs, NEW s \in Slots, NEW r \in Tab, NEW st \in Storage,
           Becomes(t, r, st, s), UNCHANGED server, PastGrows,
           st.current.token \in Token => st.current.token.user = st.current.user,
           "switched" \notin past'.mishaps =>
             /\ Suits(st, r) /\ \A v \in Tabs \ {t} : Suits(st, tab[v])
             /\ \/ HeaderOk(r)
                \/ ~tab[t].isLoggedIn /\ st.present /\ st.current # Null,
           StoredLoginIsUsable'
    PROVE  IInv'
<1>1. TypeOK
  BY DEF IInv, TypeInv
<1>2. /\ storage' = st /\ call' \in [Slots -> Call]
      /\ \A c \in Slots \ {s} : call'[c] = call[c]
      /\ StartsCall(call'[s]) /\ call'[s].kind \in {"none", "list"}
  BY <1>1, BecomesStep
<1>3. PICK q \in Tab :
        /\ tab' = [tab EXCEPT ![t] = q]
        /\ q.isLoggedIn = r.isLoggedIn /\ q.current = r.current
        /\ \/ q.header = r.header
           \/ st.present /\ q.header = st.current.token
        /\ r.isLoggedIn /\ ~tab[t].isLoggedIn /\ st.present /\ st.current # Null =>
              q.header = st.current.token
  BY <1>1, BecomesStep
<1>4. "switched" \notin past'.mishaps => HeaderOk(q) /\ Suits(st, q)
  BY <1>3 DEF HeaderOk, Suits
<1>5. "switched" \notin past'.mishaps => TabInv'
  BY <1>2, <1>3, <1>4, TabsStep DEF PastGrows
<1>6. NewCall(call'[s], past'.mishaps)
  BY <1>2, ListCall
<1>7. tab' \in [Tabs -> Tab]
  BY <1>3, Types
<1>8. StorageInv'
  BY <1>2 DEF StorageInv
<1>9. \A c \in Slots \ {s} : SameCall(call'[c], call[c])
  BY <1>2 DEF SameCall
<1> QED
  BY <1>2, <1>5, <1>6, <1>7, <1>8, <1>9, BrowserStep

\* A step that spends a click, and knows of no new mishap.
LEMMA ClickGrows ==
    ASSUME IInv, past' = Clicked(past)
    PROVE  PastGrows /\ past'.mishaps = past.mishaps
BY Types, ClickedStep DEF PastGrows

LEMMA ReloadKeeps ==
    ASSUME IInv, NEW t \in Tabs, NEW s \in Slots, Reload(t, s)
    PROVE  IInv'
<1>1. /\ Loads(t, storage, s) /\ UNCHANGED server /\ storage \in Storage
      /\ PastGrows /\ past'.mishaps = past.mishaps
  BY ClickGrows, Types DEF Reload
<1>2. storage' = storage
  BY <1>1 DEF Loads
<1>3. StoredLoginIsUsable'
  BY <1>1, <1>2 DEF IInv, StoredLoginIsUsable
<1>4. "switched" \notin past'.mishaps => \A v \in Tabs \ {t} : Suits(storage, tab[v])
  BY <1>1, Trusted
<1>5. storage.current.token \in Token => storage.current.token.user = storage.current.user
  BY DEF IInv, ShownInv, StorageInv
<1> QED
  BY <1>1, <1>3, <1>4, <1>5, LoadsKeeps

LEMMA EnteredCall ==
    ASSUME NEW t \in Tabs, NEW kind \in Logins, NEW u \in Users, NEW l \in 0 .. MaxLinks,
           kind = "reset" => l # 0, NEW m
    PROVE  LET c == [NoCall EXCEPT !.tab = t, !.kind = kind, !.stage = "sent", !.user = u, !.link = l]
           IN  c \in Call /\ NewCall(c, m)
<1> DEFINE c == [NoCall EXCEPT !.tab = t, !.kind = kind, !.stage = "sent", !.user = u, !.link = l]
<1>1. kind \in {"login", "reset"}
  BY DEF Logins
<1>2. c \in Call /\ c.kind = kind /\ c.stage = "sent" /\ c.user = u /\ c.link = l
  BY <1>1, NoCallStep DEF Call
<1> HIDE DEF c
<1>3. CallOk(c)
  BY <1>1, <1>2 DEF CallOk, Calls
<1>4. NewCall(c, m)
  BY <1>1, <1>2, <1>3 DEF NewCall, StartsCall, AsShown
<1> QED
  BY <1>2, <1>4 DEF c

LEMMA EnterKeeps ==
    ASSUME IInv, NEW t \in Tabs, NEW s \in Slots, NEW u \in Users,
           Login(t, s, u) \/ \E l \in 1 .. MaxLinks : ResetPassword(t, s, u, l)
    PROVE  IInv'
<1>1. PICK kind \in Logins, l \in 0 .. MaxLinks :
        Enter(t, s, kind, u, l) /\ (kind = "reset" => l # 0)
  BY DEF Login, ResetPassword, Logins
<1> DEFINE c == [NoCall EXCEPT !.tab = t, !.kind = kind, !.stage = "sent", !.user = u, !.link = l]
           q == [tab[t] EXCEPT !.isLoading = TRUE]
<1>2. c \in Call /\ NewCall(c, past'.mishaps)
  BY <1>1, EnteredCall
<1>3. /\ tab' = [tab EXCEPT ![t] = q] /\ call' = [call EXCEPT ![s] = c]
      /\ UNCHANGED <<server, storage>> /\ past' = Clicked(past) /\ ~tab[t].isLoggedIn
  BY <1>1 DEF Enter
<1>4. PastGrows /\ past'.mishaps = past.mishaps
  BY <1>3, ClickGrows
<1>5. q \in Tab /\ ~q.isLoggedIn
  BY <1>3, Types, TabStep
<1> HIDE DEF c, q
<1>6. call' \in [Slots -> Call] /\ call'[s] = c /\ \A d \in Slots \ {s} : SameCall(call'[d], call[d])
  BY <1>2, <1>3, Types DEF SameCall
<1>7. "switched" \notin past'.mishaps => TabInv'
  <2>1. HeaderOk(q) /\ Suits(storage', q)
    BY <1>5 DEF HeaderOk, Suits
  <2> QED
    BY <1>3, <1>4, <1>5, <2>1, Trusted, TabsStep
<1>8. tab' \in [Tabs -> Tab] /\ storage' \in Storage
  BY <1>3, <1>5, Types
<1>9. StorageInv' /\ StoredLoginIsUsable'
  BY <1>3, <1>4 DEF IInv, ShownInv, StorageInv, StoredLoginIsUsable
<1> QED
  BY <1>2, <1>3, <1>4, <1>6, <1>7, <1>8, <1>9, BrowserStep

LEMMA RequestKeeps ==
    ASSUME IInv, NEW t \in Tabs, NEW s \in Slots, NEW kind \in {"app", "profile"},
           Request(t, s, kind)
    PROVE  IInv'
<1> DEFINE q == IncludeToken(tab[t], storage)
           c == Sent(t, q, kind)
<1>1. /\ tab' = [tab EXCEPT ![t] = q] /\ call' = [call EXCEPT ![s] = c]
      /\ UNCHANGED <<server, storage>> /\ past' = Clicked(past) /\ tab[t].isLoggedIn
  BY DEF Request, InApp
<1>2. PastGrows /\ past'.mishaps = past.mishaps
  BY <1>1, ClickGrows
<1>3. /\ q \in Tab /\ q.current = tab[t].current /\ q.isLoggedIn = tab[t].isLoggedIn
      /\ q.header = IF storage.present THEN storage.current.token ELSE tab[t].header
  BY Types, IncludeStep
<1> HIDE DEF q
<1>4. /\ c \in Call /\ StartsCall(c) /\ c.kind = kind
      /\ c.user = q.current.user /\ c.token = q.header
  BY <1>3, SentStep
<1> HIDE DEF c
<1>5. "switched" \notin past.mishaps => HeaderOk(q) /\ Suits(storage, q)
  BY <1>3, Trusted DEF HeaderOk, Suits
<1>6. NewCall(c, past'.mishaps)
  BY <1>1, <1>2, <1>3, <1>4, <1>5 DEF NewCall, AsShown, HeaderOk
<1>7. call' \in [Slots -> Call] /\ call'[s] = c /\ \A d \in Slots \ {s} : SameCall(call'[d], call[d])
  BY <1>1, <1>4, Types DEF SameCall
<1>8. "switched" \notin past'.mishaps => TabInv'
  BY <1>1, <1>2, <1>3, <1>5, Trusted, TabsStep
<1>9. tab' \in [Tabs -> Tab] /\ storage' \in Storage
  BY <1>1, <1>3, Types
<1>10. StorageInv' /\ StoredLoginIsUsable'
  BY <1>1, <1>2 DEF IInv, ShownInv, StorageInv, StoredLoginIsUsable
<1> QED
  BY <1>1, <1>2, <1>6, <1>7, <1>8, <1>9, <1>10, BrowserStep

LEMMA LogoutKeeps ==
    ASSUME IInv, NEW t \in Tabs, NEW s \in Slots, Logout(t, s)
    PROVE  IInv'
<1> DEFINE q == [LoggedOut EXCEPT !.header = tab[t].header, !.shown = TRUE]
           c == [Sent(t, tab[t], "logout") EXCEPT !.kept = storage.present]
<1>1. /\ tab' = [tab EXCEPT ![t] = q] /\ call' = [call EXCEPT ![s] = c]
      /\ storage' = [present |-> FALSE, current |-> Nobody, isLogout |-> TRUE]
      /\ UNCHANGED server
      /\ past' = Mishap(Clicked(past), "orphaned", ~storage.present)
  BY DEF Logout, Forget
<1>2. storage.present \in BOOLEAN /\ past \in PastType /\ tab[t] \in Tab
  BY Types, StorageFields
<1>3. PastGrows /\ (~storage.present => "orphaned" \in past'.mishaps)
  <2>1. LET p == Clicked(past)
        IN  /\ p \in PastType /\ p.closed = past.closed /\ p.again = past.again
            /\ p.used = past.used /\ p.mishaps = past.mishaps
    BY <1>2, ClickedStep
  <2>2. "orphaned" \in Mishaps /\ (~storage.present) \in BOOLEAN
    BY DEF Mishaps
  <2> QED
    BY <1>1, <2>1, <2>2, MishapStep DEF PastGrows
<1>4. q \in Tab /\ ~q.isLoggedIn
  <2>1. tab[t].header \in Token \cup {NoToken, None}
    BY <1>2, TabFields
  <2> QED
    BY <2>1, LoggedOutStep
<1>5. c \in Call /\ NewCall(c, past'.mishaps)
  <2> DEFINE d == Sent(t, tab[t], "logout")
             b == storage.present
  <2>1. d \in Call /\ StartsCall(d) /\ d.kind = "logout" /\ d.stage = "sent"
    BY <1>2, SentStep
  <2> HIDE DEF d
  <2>2. /\ [d EXCEPT !.kept = b] \in Call /\ [d EXCEPT !.kept = b].kind = "logout"
        /\ [d EXCEPT !.kept = b].stage = "sent" /\ ([d EXCEPT !.kept = b].kept <=> b)
    BY <1>2, <2>1 DEF Call
  <2>3. c = [d EXCEPT !.kept = b]
    BY DEF d
  <2> HIDE DEF c, b
  <2>4. c \in Call /\ c.kind = "logout" /\ c.stage = "sent" /\ (c.kept <=> b)
    BY <2>2, <2>3
  <2>5. NewCall(c, past'.mishaps)
    BY <1>3, <2>4 DEF NewCall, StartsCall, CallOk, AsShown, Logins, b
  <2> QED
    BY <2>4, <2>5
<1> HIDE DEF c, q
<1>6. call' \in [Slots -> Call] /\ call'[s] = c /\ \A d \in Slots \ {s} : SameCall(call'[d], call[d])
  BY <1>1, <1>5, Types DEF SameCall
<1>7. storage' \in Storage /\ ~storage'.present /\ storage'.current = Nobody
  BY <1>1, Nothing DEF Storage
<1>8. "switched" \notin past'.mishaps => TabInv'
  <2>1. HeaderOk(q) /\ Suits(storage', q) /\ \A v \in Tabs \ {t} : Suits(storage', tab[v])
    BY <1>4, <1>7 DEF HeaderOk, Suits
  <2> QED
    BY <1>1, <1>3, <1>4, <2>1, TabsStep DEF PastGrows
<1>9. tab' \in [Tabs -> Tab]
  BY <1>1, <1>4, Types
<1>10. StorageInv' /\ StoredLoginIsUsable'
  BY <1>7, Nothing DEF StorageInv, StoredLoginIsUsable
<1> QED
  BY <1>1, <1>3, <1>5, <1>6, <1>7, <1>8, <1>9, <1>10, BrowserStep

-----------------------------------------------------------------------------
(***************************************************************************)
(* Answers.                                                                *)
(***************************************************************************)

\* The tab that waits for an answer.
LEMMA Waiting ==
    ASSUME IInv, NEW s \in Slots, call[s].tab # None
    PROVE  call[s].tab \in Tabs /\ tab[call[s].tab] \in Tab
<1>1. call[s].tab \in Tabs
  BY Types DEF Call
<1> QED
  BY <1>1, Types

LEMMA MishapGrows ==
    ASSUME IInv, NEW m \in Mishaps, NEW when \in BOOLEAN, past' = Mishap(past, m, when)
    PROVE  PastGrows /\ (when => m \in past'.mishaps)
BY Types, MishapStep DEF PastGrows

LEMMA AnswerLoginKeeps ==
    ASSUME IInv, NEW s \in Slots, AnswerLogin(s)
    PROVE  IInv'
<1> DEFINE t == call[s].tab
           u == call[s].user
           x == call[s].token
           user == [user |-> u, token |-> x]
           r == [tab[t] EXCEPT !.isLoggedIn = TRUE, !.isLoading = FALSE, !.current = user]
           st == [present |-> TRUE, current |-> user, isLogout |-> FALSE]
           switched == \E v \in Tabs : ShowsOther(v, u)
<1>1. /\ Becomes(t, r, st, s) /\ past' = Mishap(past, "switched", switched) /\ UNCHANGED server
      /\ call[s].kind \in Logins /\ call[s].stage = "done" /\ t # None
  BY DEF AnswerLogin, Logins
<1>2. t \in Tabs /\ tab[t] \in Tab
  BY <1>1, Waiting
<1>3. u \in Users /\ x \in Token /\ x.user = u
  BY <1>1, Types DEF CallOk
<1>4. user \in Current /\ user # Null /\ user.user = u /\ user.token = x
  BY <1>3, Nothing DEF Current
<1> HIDE DEF user
<1>5. st \in Storage /\ st.present /\ st.current = user
  BY <1>4 DEF Storage
<1>6. r \in Tab /\ r.header = tab[t].header /\ r.current = user /\ r.isLoggedIn
  BY <1>2, <1>4, TabStep
<1>7. PastGrows /\ (switched => "switched" \in past'.mishaps)
  <2>1. switched \in BOOLEAN /\ "switched" \in Mishaps
    BY DEF Mishaps
  <2> HIDE DEF switched
  <2> QED
    BY <1>1, <2>1, MishapGrows
<1> HIDE DEF t, r, st
<1>8. ASSUME "switched" \notin past'.mishaps
      PROVE  /\ Suits(st, r) /\ \A v \in Tabs \ {t} : Suits(st, tab[v])
             /\ \/ HeaderOk(r)
                \/ ~tab[t].isLoggedIn /\ st.present /\ st.current # Null
  <2>1. \A v \in Tabs : tab[v].isLoggedIn => tab[v].current.user = u
    BY <1>7, <1>8 DEF ShowsOther
  <2>2. Suits(st, r) /\ \A v \in Tabs \ {t} : Suits(st, tab[v])
    BY <1>3, <1>4, <1>5, <1>6, <2>1 DEF Suits
  <2>3. HeaderOk(tab[t])
    BY <1>2, <1>7, <1>8, Trusted DEF PastGrows
  <2>4. tab[t].isLoggedIn => HeaderOk(r)
    BY <1>2, <1>3, <1>4, <1>6, <2>1, <2>3 DEF HeaderOk
  <2> QED
    BY <1>4, <1>5, <2>2, <2>4
<1>9. st.current.token \in Token => st.current.token.user = st.current.user
  BY <1>3, <1>4, <1>5
<1>10. StoredLoginIsUsable'
  <2>1. storage' = st
    BY <1>1 DEF Becomes
  <2> QED
    BY <1>3, <1>4, <1>5, <2>1, Nothing DEF StoredLoginIsUsable
<1> QED
  BY <1>1, <1>2, <1>5, <1>6, <1>7, <1>8, <1>9, <1>10, BecomesKeeps

LEMMA AnswerProfileKeeps ==
    ASSUME IInv, NEW s \in Slots, AnswerProfile(s)
    PROVE  IInv'
<1> DEFINE t == call[s].tab
           u == call[s].token.user
           user == Profile(call[s].token)
           r == [tab[t] EXCEPT !.isLoggedIn = TRUE, !.isLoading = FALSE, !.current = user]
           st == [storage EXCEPT !.present = TRUE, !.current = user]
<1>1. /\ Becomes(t, r, st, s) /\ UNCHANGED server
      /\ past' = Mishap(Mishap(past, "profile", TRUE), "switched", ShowsOther(t, user.user))
      /\ call[s].kind = "profile" /\ call[s].stage = "done" /\ t # None
  BY DEF AnswerProfile
<1>2. t \in Tabs /\ tab[t] \in Tab
  BY <1>1, Waiting
<1>3. u \in Users
  <2>1. call[s].token \in Token
    BY <1>1, Types DEF CallOk, Calls
  <2> QED
    BY <2>1 DEF Token
<1>4. user \in Current /\ user # Null /\ user.user = u /\ user.token = NoToken
  BY <1>3, Nothing DEF Current, Profile
<1> HIDE DEF user
<1>5. st \in Storage /\ st.present /\ st.current = user
  <2>1. storage \in Storage
    BY Types
  <2> QED
    BY <1>4, <2>1 DEF Storage
<1>6. r \in Tab /\ r.header = tab[t].header /\ r.current = user /\ r.isLoggedIn
  BY <1>2, <1>4, TabStep
<1>7. /\ PastGrows /\ "profile" \in past'.mishaps
      /\ ShowsOther(t, u) => "switched" \in past'.mishaps
  <2> DEFINE p == Mishap(past, "profile", TRUE)
             b == ShowsOther(t, u)
  <2>1. /\ p \in PastType /\ p.closed = past.closed /\ p.again = past.again
        /\ p.used = past.used /\ past.mishaps \subseteq p.mishaps /\ "profile" \in p.mishaps
    BY Types, MishapStep DEF Mishaps
  <2>2. b \in BOOLEAN /\ "switched" \in Mishaps /\ past' = Mishap(p, "switched", b)
    BY <1>1, <1>4 DEF ShowsOther, Mishaps
  <2> HIDE DEF p, b
  <2>3. /\ past' \in PastType /\ past'.closed = p.closed /\ past'.again = p.again
        /\ past'.used = p.used /\ p.mishaps \subseteq past'.mishaps
        /\ b => "switched" \in past'.mishaps
    BY <2>1, <2>2, MishapStep
  <2> QED
    BY <2>1, <2>3 DEF PastGrows, b
<1> HIDE DEF t, r, st
<1>8. ASSUME "switched" \notin past'.mishaps
      PROVE  /\ Suits(st, r) /\ \A v \in Tabs \ {t} : Suits(st, tab[v])
             /\ \/ HeaderOk(r)
                \/ ~tab[t].isLoggedIn /\ st.present /\ st.current # Null
  <2>1. tab[t].isLoggedIn => tab[t].current.user = u
    BY <1>7, <1>8 DEF ShowsOther
  <2>2. Suits(st, r) /\ \A v \in Tabs \ {t} : Suits(st, tab[v])
    BY <1>4, <1>5, Nothing DEF Suits
  <2>3. HeaderOk(tab[t])
    BY <1>2, <1>7, <1>8, Trusted DEF PastGrows
  <2>4. tab[t].isLoggedIn => HeaderOk(r)
    BY <1>2, <1>3, <1>4, <1>6, <2>1, <2>3 DEF HeaderOk
  <2> QED
    BY <1>4, <1>5, <2>2, <2>4
<1>9. st.current.token \in Token => st.current.token.user = st.current.user
  BY <1>4, <1>5, Nothing
<1>10. StoredLoginIsUsable'
  <2>1. storage' = st
    BY <1>1 DEF Becomes
  <2> QED
    BY <1>4, <1>5, <1>7, <2>1 DEF StoredLoginIsUsable
<1> QED
  BY <1>1, <1>2, <1>5, <1>6, <1>7, <1>8, <1>9, <1>10, BecomesKeeps

LEMMA AnswerListKeeps ==
    ASSUME IInv, NEW s \in Slots, AnswerList(s)
    PROVE  IInv'
<1> DEFINE t == call[s].tab
           q == [tab[t] EXCEPT !.shown = TRUE]
<1>1. /\ tab' = [tab EXCEPT ![t] = q] /\ call' = [call EXCEPT ![s] = NoCall] /\ t # None
      /\ UNCHANGED <<server, storage, past>>
  BY DEF AnswerList
<1>2. t \in Tabs /\ tab[t] \in Tab
  BY <1>1, Waiting
<1>3. /\ q \in Tab /\ q.header = tab[t].header /\ q.current = tab[t].current
      /\ q.isLoggedIn = tab[t].isLoggedIn
  BY <1>2, TabStep
<1> HIDE DEF q, t
<1>4. PastGrows
  BY <1>1, Types DEF PastGrows
<1>5. /\ call' \in [Slots -> Call] /\ call'[s] = NoCall
      /\ \A d \in Slots \ {s} : SameCall(call'[d], call[d])
  BY <1>1, Types, NoCallStep DEF SameCall
<1>6. NewCall(NoCall, past'.mishaps)
  BY NoCallStep, ListCall
<1>7. "switched" \notin past'.mishaps => TabInv'
  <2>1. "switched" \notin past.mishaps => HeaderOk(q) /\ Suits(storage, q)
    BY <1>2, <1>3, Trusted DEF HeaderOk, Suits
  <2> QED
    BY <1>1, <1>2, <1>3, <2>1, Trusted, TabsStep
<1>8. tab' \in [Tabs -> Tab] /\ storage' \in Storage
  BY <1>1, <1>3, Types
<1>9. StorageInv' /\ StoredLoginIsUsable'
  BY <1>1 DEF IInv, ShownInv, StorageInv, StoredLoginIsUsable
<1> QED
  BY <1>1, <1>4, <1>5, <1>6, <1>7, <1>8, <1>9, BrowserStep

LEMMA AnswerDoneKeeps ==
    ASSUME IInv, NEW s \in Slots, AnswerDone(s)
    PROVE  IInv'
<1>1. call' = [call EXCEPT ![s] = NoCall] /\ UNCHANGED <<server, storage, tab, past>>
  BY DEF AnswerDone
<1>2. PastGrows
  BY <1>1, Types DEF PastGrows
<1>3. /\ call' \in [Slots -> Call] /\ call'[s] = NoCall
      /\ \A d \in Slots \ {s} : SameCall(call'[d], call[d])
  BY <1>1, Types, NoCallStep DEF SameCall
<1>4. NewCall(NoCall, past'.mishaps)
  BY NoCallStep, ListCall
<1>5. "switched" \notin past'.mishaps => TabInv'
  BY <1>1 DEF IInv, ShownInv, TabInv, Trusts
<1>6. tab' \in [Tabs -> Tab] /\ storage' \in Storage
  BY <1>1, Types
<1>7. StorageInv' /\ StoredLoginIsUsable'
  BY <1>1 DEF IInv, ShownInv, StorageInv, StoredLoginIsUsable
<1> QED
  BY <1>1, <1>2, <1>3, <1>4, <1>5, <1>6, <1>7, BrowserStep

LEMMA RestoredStep ==
    ASSUME NEW s, NEW st
    PROVE  LET q == Restored(s, st)
           IN  /\ q \in Storage /\ q.present /\ q.current.token \notin Token
               /\ q.current = Null => ~call[s].kept
BY Nothing DEF Restored, Storage

LEMMA LogoutFailedStep ==
    ASSUME NEW r \in Tab
    PROVE  LET q == LogoutFailed(r)
           IN  q \in Tab /\ q.current.user = None
<1>1. Null \in Current \cup {Null}
  OBVIOUS
<1>2. LET q == [r EXCEPT !.isLoggedIn = TRUE, !.isLoading = FALSE, !.current = Null]
      IN  q \in Tab /\ q.current = Null
  BY <1>1, TabStep
<1> QED
  BY <1>2, Nothing DEF LogoutFailed

LEMMA FailedStep ==
    ASSUME NEW r \in Tab, NEW kind
    PROVE  LET q == Failed(kind, r)
           IN  /\ q \in Tab
               /\ q.isLoggedIn => /\ r.isLoggedIn /\ q.current = r.current
                                  /\ q.header = r.header
<1>1. CASE kind \in {"login", "reset"}
  <2> DEFINE h == r.header
             b == r.shown
  <2>1. h \in Token \cup {NoToken, None} /\ b \in BOOLEAN
    BY TabFields
  <2>2. Failed(kind, r) = [LoggedOut EXCEPT !.header = h, !.shown = b]
    BY <1>1 DEF Failed
  <2> HIDE DEF h, b
  <2> QED
    BY <2>1, <2>2, LoggedOutStep
<1>2. CASE kind = "list"
  <2>1. Failed(kind, r) = [r EXCEPT !.shown = FALSE]
    BY <1>2 DEF Failed
  <2>2. /\ [r EXCEPT !.shown = FALSE] \in Tab
        /\ [r EXCEPT !.shown = FALSE].header = r.header
        /\ [r EXCEPT !.shown = FALSE].current = r.current
        /\ [r EXCEPT !.shown = FALSE].isLoggedIn = r.isLoggedIn
    BY TabStep
  <2> QED
    BY <2>1, <2>2
<1>3. CASE kind \notin {"login", "reset", "list"}
  BY <1>3 DEF Failed
<1> QED
  BY <1>1, <1>2, <1>3

\* The store after a failure suits what is stored, as it did before.
LEMMA FailedSuits ==
    ASSUME IInv, NEW t \in Tabs, NEW kind, "switched" \notin past.mishaps
    PROVE  HeaderOk(Failed(kind, tab[t])) /\ Suits(storage, Failed(kind, tab[t]))
<1>1. tab[t] \in Tab /\ HeaderOk(tab[t]) /\ Suits(storage, tab[t])
  BY Types, Trusted
<1> QED
  BY <1>1, FailedStep DEF HeaderOk, Suits

LEMMA AnswerFailedKeeps ==
    ASSUME IInv, NEW s \in Slots, AnswerFailed(s)
    PROVE  IInv'
<1> DEFINE t == call[s].tab
           logout == call[s].kind = "logout"
<1>1. /\ logout => Becomes(t, LogoutFailed(tab[t]), Restored(s, storage), s)
      /\ ~logout => Becomes(t, Failed(call[s].kind, tab[t]), storage, s)
      /\ past' = Mishap(past, "failed", logout) /\ UNCHANGED server /\ t # None
  BY DEF AnswerFailed
<1>2. t \in Tabs /\ tab[t] \in Tab /\ storage \in Storage
  BY <1>1, Waiting, Types
<1>3. PastGrows /\ (logout => "failed" \in past'.mishaps)
  <2>1. logout \in BOOLEAN /\ "failed" \in Mishaps
    BY DEF Mishaps
  <2> HIDE DEF logout
  <2> QED
    BY <1>1, <2>1, MishapGrows
<1>4. CASE logout
  <2> DEFINE r == LogoutFailed(tab[t])
             st == Restored(s, storage)
  <2>1. /\ st \in Storage /\ st.present /\ st.current.token \notin Token
        /\ st.current = Null => ~call[s].kept
    BY RestoredStep
  <2>2. r \in Tab /\ r.current.user = None
    BY <1>2, LogoutFailedStep
  <2>3. Becomes(t, r, st, s) /\ storage' = st
    BY <1>1, <1>4 DEF Becomes
  <2> HIDE DEF r, st
  <2>4. /\ Suits(st, r) /\ \A v \in Tabs \ {t} : Suits(st, tab[v])
        /\ HeaderOk(r)
    BY <2>1, <2>2 DEF Suits, HeaderOk
  <2>5. StoredLoginIsUsable'
    BY <1>3, <1>4, <2>1, <2>3 DEF StoredLoginIsUsable, IInv, OrphanInv, PastGrows
  <2> QED
    BY <1>1, <1>2, <1>3, <2>1, <2>2, <2>3, <2>4, <2>5, BecomesKeeps
<1>5. CASE ~logout
  <2> DEFINE r == Failed(call[s].kind, tab[t])
  <2>1. Becomes(t, r, storage, s) /\ storage' = storage
    BY <1>1, <1>5 DEF Becomes
  <2>2. r \in Tab
    BY <1>2, FailedStep
  <2>3. "switched" \notin past'.mishaps =>
          /\ Suits(storage, r) /\ \A v \in Tabs \ {t} : Suits(storage, tab[v])
          /\ HeaderOk(r)
    BY <1>2, <1>3, FailedSuits, Trusted DEF PastGrows
  <2>4. StoredLoginIsUsable'
    BY <1>3, <2>1 DEF StoredLoginIsUsable, IInv, PastGrows
  <2>5. storage.current.token \in Token => storage.current.token.user = storage.current.user
    BY DEF IInv, ShownInv, StorageInv
  <2> HIDE DEF r
  <2> QED
    BY <1>1, <1>2, <1>3, <2>1, <2>2, <2>3, <2>4, <2>5, BecomesKeeps
<1> QED
  BY <1>4, <1>5

LEMMA AnswerRefusedKeeps ==
    ASSUME IInv, NEW s \in Slots, AnswerRefused(s)
    PROVE  IInv'
<1> DEFINE t == call[s].tab
           malformed == call[s].token = NoToken
           leaves == storage.present \/ storage.isLogout \/ malformed
           restores == call[s].kind = "logout" /\ ~malformed
           forgotten == [present |-> FALSE, current |-> Nobody, isLogout |-> FALSE]
           st == IF restores THEN Restored(s, forgotten) ELSE forgotten
           r == IF restores THEN LogoutFailed(tab[t]) ELSE Failed(call[s].kind, tab[t])
<1>1. /\ leaves => Loads(t, st, s)
      /\ ~leaves => Becomes(t, r, st, s)
      /\ past' = Mishap(past, "failed", restores) /\ UNCHANGED server /\ t # None
  BY DEF AnswerRefused
<1>2. t \in Tabs /\ tab[t] \in Tab
  BY <1>1, Waiting
<1>3. PastGrows /\ (restores => "failed" \in past'.mishaps)
  <2>1. restores \in BOOLEAN /\ "failed" \in Mishaps
    BY DEF Mishaps
  <2> HIDE DEF restores
  <2> QED
    BY <1>1, <2>1, MishapGrows
<1>4. forgotten \in Storage /\ ~forgotten.present /\ forgotten.current.token \notin Token
  BY Nothing DEF Storage
<1>5. /\ st \in Storage /\ st.current.token \notin Token
      /\ st.present => restores
      /\ st.present /\ st.current = Null => ~call[s].kept
  <2>1. LET q == Restored(s, forgotten)
        IN  /\ q \in Storage /\ q.present /\ q.current.token \notin Token
            /\ q.current = Null => ~call[s].kept
    BY RestoredStep
  <2> QED
    BY <1>4, <2>1
<1>6. storage' = st
  BY <1>1 DEF Loads, Becomes
<1>7. \A v \in Tabs : Suits(st, tab[v])
  BY <1>5 DEF Suits
<1>8. StoredLoginIsUsable'
  <2>1. restores => call[s].kind = "logout"
    OBVIOUS
  <2> HIDE DEF restores, st
  <2> QED
    BY <1>3, <1>5, <1>6, <2>1 DEF StoredLoginIsUsable, IInv, OrphanInv, PastGrows
<1>9. CASE leaves
  <2>1. Loads(t, st, s)
    BY <1>1, <1>9
  <2> HIDE DEF st
  <2> QED
    BY <1>1, <1>2, <1>3, <1>5, <1>7, <1>8, <2>1, LoadsKeeps
<1>10. CASE ~leaves
  <2>1. Becomes(t, r, st, s)
    BY <1>1, <1>10
  <2>2. r \in Tab
    BY <1>2, FailedStep, LogoutFailedStep
  <2>3. Suits(st, r)
    BY <1>5 DEF Suits
  <2>4. "switched" \notin past.mishaps => HeaderOk(r)
    <3>1. LogoutFailed(tab[t]).current.user = None
      BY <1>2, LogoutFailedStep
    <3>2. HeaderOk(LogoutFailed(tab[t]))
      BY <3>1 DEF HeaderOk
    <3>3. "switched" \notin past.mishaps => HeaderOk(Failed(call[s].kind, tab[t]))
      BY <1>2, FailedSuits
    <3> QED
      BY <3>2, <3>3
  <2> HIDE DEF st, r
  <2> QED
    BY <1>1, <1>2, <1>3, <1>5, <1>7, <1>8, <2>1, <2>2, <2>3, <2>4, BecomesKeeps DEF PastGrows
<1> QED
  BY <1>9, <1>10

-----------------------------------------------------------------------------
(***************************************************************************)
(* Steps of the server.                                                    *)
(***************************************************************************)

\* What such a step leaves of a call.
Follows(c, d) ==
    /\ c.kind = d.kind /\ c.user = d.user /\ (c.kept <=> d.kept)
    /\ c.token = d.token \/ c.kind \in Logins

LEMMA ServerKeeps ==
    ASSUME IInv, UNCHANGED <<storage, tab>>, past.mishaps \subseteq past'.mishaps,
           \A c \in Slots : Follows(call'[c], call[c])
    PROVE  ShownInv' /\ OrphanInv' /\ StoredLoginIsUsable'
<1>1. StorageInv' /\ ("switched" \notin past'.mishaps => TabInv')
  BY DEF IInv, ShownInv, StorageInv, TabInv, Trusts
<1>2. ASSUME "switched" \notin past'.mishaps, NEW c \in Slots PROVE AsShown(call'[c])
  <2>1. AsShown(call[c])
    BY <1>2 DEF IInv, ShownInv, CallsAsShown
  <2> QED
    BY <2>1 DEF Follows, AsShown, Logins
<1>3. ShownInv'
  BY <1>1, <1>2 DEF ShownInv, CallsAsShown
<1>4. OrphanInv'
  BY DEF IInv, OrphanInv, Follows
<1>5. StoredLoginIsUsable'
  BY DEF IInv, StoredLoginIsUsable
<1> QED
  BY <1>3, <1>4, <1>5

\* A call moves to another stage, other than that its link was matched.
LEMMA StageKeeps ==
    ASSUME IInv, NEW s \in Slots,
           NEW g \in {"passed", "done", "refused", "failed"},
           UNCHANGED <<server, storage, tab>>, PastGrows,
           call' = [call EXCEPT ![s].stage = g],
           CallOk([call[s] EXCEPT !.stage = g])
    PROVE  IInv'
<1> DEFINE d == [call[s] EXCEPT !.stage = g]
<1>1. /\ d \in Call /\ d.stage = g /\ d.kind = call[s].kind /\ d.user = call[s].user
      /\ d.token = call[s].token /\ d.link = call[s].link /\ (d.kept <=> call[s].kept)
  <2>1. call[s] \in Call /\ g \in {"none", "sent", "passed", "matched", "done", "refused", "failed"}
    BY Types
  <2> QED
    BY <2>1, StageStep
<1> HIDE DEF d
<1>2. /\ call' \in [Slots -> Call] /\ call'[s] = d
      /\ \A c \in Slots \ {s} : call'[c] = call[c]
  BY <1>1, Types DEF d
<1>3. TypeInv'
  <2>1. TypeOK'
    BY <1>2 DEF IInv, TypeInv, TypeOK, PastGrows, PastType
  <2>2. CallInv'
    BY <1>2 DEF IInv, TypeInv, CallInv, d
  <2> QED
    BY <2>1, <2>2 DEF TypeInv
<1>4. ShownInv' /\ OrphanInv' /\ StoredLoginIsUsable'
  <2>1. \A c \in Slots : Follows(call'[c], call[c])
    BY <1>1, <1>2 DEF Follows
  <2> QED
    BY <2>1, ServerKeeps DEF PastGrows
<1>5. ClosedInv' /\ LinkIsUsedOnce'
  BY DEF IInv, ClosedInv, LinkIsUsedOnce, PastGrows
<1>6. LinkInv'
  BY DEF IInv, LinkInv, PastGrows
<1>7. MatchedInv'
  <2>1. \A c \in Slots : call'[c].stage = "matched" => call'[c] = call[c]
    BY <1>1, <1>2
  <2> QED
    BY <2>1 DEF IInv, MatchedInv, PastGrows
<1> QED
  BY <1>3, <1>4, <1>5, <1>6, <1>7 DEF IInv

LEMMA StageOk ==
    ASSUME IInv, NEW s \in Slots, NEW g \in {"passed", "done", "refused", "failed"},
           call[s].stage # "none",
           g = "passed" => call[s].kind = "logout" /\ call[s].token \in Token,
           g = "done" => call[s].kind \in Calls /\ call[s].token \in Token,
           g = "refused" => call[s].kind \in Calls
    PROVE  CallOk([call[s] EXCEPT !.stage = g])
<1> DEFINE d == [call[s] EXCEPT !.stage = g]
<1>1. /\ d.stage = g /\ d.kind = call[s].kind /\ d.user = call[s].user
      /\ d.token = call[s].token /\ d.link = call[s].link
  <2>1. call[s] \in Call
    BY Types
  <2> QED
    BY <2>1, StageStep
<1>2. CallOk(call[s])
  BY Types
<1> HIDE DEF d
<1>3. CallOk(d)
  BY <1>1, <1>2 DEF CallOk, Logins, Calls
<1> QED
  BY <1>3 DEF d

LEMMA AdmitKeeps ==
    ASSUME IInv, NEW s \in Slots, Admit(s)
    PROVE  IInv'
<1> DEFINE g == IF call[s].kind = "logout" THEN "passed" ELSE "done"
<1>1. /\ call[s].kind \in Calls /\ call[s].stage = "sent" /\ call[s].token \in server.sessions
      /\ call' = [call EXCEPT ![s].stage = g] /\ UNCHANGED <<server, storage, tab, past>>
  BY DEF Admit, Valid
<1>2. call[s].token \in Token
  BY <1>1, Types DEF ServerType
<1>3. g \in {"passed", "done", "refused", "failed"}
  OBVIOUS
<1>4. CallOk([call[s] EXCEPT !.stage = g])
  BY <1>1, <1>2, <1>3, StageOk
<1>5. PastGrows
  BY <1>1, Types DEF PastGrows
<1> HIDE DEF g
<1> QED
  BY <1>1, <1>3, <1>4, <1>5, StageKeeps

\* Refusals are counted, which changes nothing else of the history.
LEMMA RefusalsGrow ==
    ASSUME IInv, NEW n \in Nat, past' = [past EXCEPT !.refusals = n]
    PROVE  PastGrows
BY Types DEF PastGrows, PastType

LEMMA RefuseKeeps ==
    ASSUME IInv, NEW s \in Slots, Refuse(s)
    PROVE  IInv'
<1> DEFINE n == IF Valid(call[s].token) THEN past.refusals + 1 ELSE past.refusals
<1>1. /\ call[s].kind \in Calls /\ call[s].stage = "sent"
      /\ call' = [call EXCEPT ![s].stage = "refused"] /\ UNCHANGED <<server, storage, tab>>
      /\ past' = [past EXCEPT !.refusals = n]
  BY Types DEF Refuse, PastType
<1>2. n \in Nat
  BY Types DEF PastType
<1> HIDE DEF n
<1>3. PastGrows
  BY <1>1, <1>2, RefusalsGrow
<1>4. CallOk([call[s] EXCEPT !.stage = "refused"])
  BY <1>1, StageOk
<1> QED
  BY <1>1, <1>3, <1>4, StageKeeps

LEMMA FailKeeps ==
    ASSUME IInv, NEW s \in Slots, Fail(s)
    PROVE  IInv'
<1> DEFINE n == IF BadLink(s) THEN past.refusals ELSE past.refusals + 1
<1>1. /\ call[s].stage # "none"
      /\ call' = [call EXCEPT ![s].stage = "failed"] /\ UNCHANGED <<server, storage, tab>>
      /\ past' = [past EXCEPT !.refusals = n]
  BY Types DEF Fail, PastType
<1>2. n \in Nat
  BY Types DEF PastType
<1> HIDE DEF n
<1>3. PastGrows
  BY <1>1, <1>2, RefusalsGrow
<1>4. CallOk([call[s] EXCEPT !.stage = "failed"])
  BY <1>1, StageOk
<1> QED
  BY <1>1, <1>3, <1>4, StageKeeps

\* The fields of the server.
LEMMA ServerFields ==
    ASSUME NEW v \in ServerType
    PROVE  /\ v.sessions \in SUBSET Token /\ v.second \in 0 .. MaxSecond
           /\ v.link \in [Users -> 0 .. MaxLinks] /\ v.mails \in 0 .. MaxLinks
BY DEF ServerType

LEMMA TickKeeps ==
    ASSUME IInv, Tick
    PROVE  IInv'
<1>1. /\ server' = [server EXCEPT !.second = server.second + 1]
      /\ server.second + 1 \in 0 .. MaxSecond /\ UNCHANGED <<storage, tab, call, past>>
  BY Types, ServerFields DEF Tick
<1>2. /\ server' \in ServerType /\ server'.sessions = server.sessions
      /\ server'.link = server.link /\ server'.mails = server.mails
  BY <1>1, Types DEF ServerType
<1>3. TypeInv'
  BY <1>1, <1>2 DEF IInv, TypeInv, TypeOK, CallInv, ServerType
<1>4. ShownInv' /\ OrphanInv' /\ StoredLoginIsUsable'
  <2>1. \A c \in Slots : Follows(call'[c], call[c])
    BY <1>1 DEF Follows
  <2> QED
    BY <1>1, <2>1, ServerKeeps
<1>5. ClosedInv' /\ LinkIsUsedOnce' /\ LinkInv' /\ MatchedInv'
  BY <1>1, <1>2 DEF IInv, ClosedInv, LinkIsUsedOnce, LinkInv, MatchedInv
<1> QED
  BY <1>3, <1>4, <1>5 DEF IInv

LEMMA PullKeeps ==
    ASSUME IInv, NEW s \in Slots, Pull(s)
    PROVE  IInv'
<1> DEFINE x == call[s].token
           d == [call[s] EXCEPT !.stage = "done"]
<1>1. /\ call[s].stage = "passed" /\ UNCHANGED <<storage, tab>>
      /\ server' = [server EXCEPT !.sessions = server.sessions \ {x}]
      /\ call' = [call EXCEPT ![s].stage = "done"]
      /\ past' = [past EXCEPT !.closed = past.closed \cup {x}]
  BY Types DEF Pull, ServerType, PastType
<1>2. call[s].kind = "logout" /\ x \in Token
  BY <1>1, Types DEF CallOk, Calls
<1>3. /\ server' \in ServerType /\ server'.sessions = server.sessions \ {x}
      /\ server'.link = server.link /\ server'.mails = server.mails
  BY <1>1, Types DEF ServerType
<1>4. /\ past' \in PastType /\ past'.closed = past.closed \cup {x}
      /\ past'.again = past.again /\ past'.used = past.used /\ past'.mishaps = past.mishaps
  BY <1>1, <1>2, Types DEF PastType
<1>5. CallOk(d)
  BY <1>1, <1>2, StageOk DEF Calls
<1>6. /\ d \in Call /\ d.stage = "done" /\ d.kind = call[s].kind /\ d.user = call[s].user
      /\ d.token = call[s].token /\ (d.kept <=> call[s].kept)
  <2>1. call[s] \in Call
    BY Types
  <2> QED
    BY <2>1, StageStep
<1>7. /\ call' \in [Slots -> Call] /\ call'[s] = d
      /\ \A c \in Slots \ {s} : call'[c] = call[c]
  <2>1. call' = [call EXCEPT ![s] = d]
    BY <1>1
  <2> QED
    BY <1>6, <2>1, Types
<1> HIDE DEF d
<1>8. TypeInv'
  BY <1>1, <1>3, <1>4, <1>5, <1>7 DEF IInv, TypeInv, TypeOK, CallInv, ServerType, PastType
<1>9. ShownInv' /\ OrphanInv' /\ StoredLoginIsUsable'
  <2>1. \A c \in Slots : Follows(call'[c], call[c])
    BY <1>6, <1>7 DEF Follows
  <2> QED
    BY <1>1, <1>4, <2>1, ServerKeeps
<1>10. ClosedInv' /\ LinkIsUsedOnce' /\ LinkInv'
  BY <1>3, <1>4 DEF IInv, ClosedInv, LinkIsUsedOnce, LinkInv
<1>11. MatchedInv'
  <2>1. \A c \in Slots : call'[c].stage = "matched" => call'[c] = call[c]
    BY <1>6, <1>7
  <2> QED
    BY <1>3, <1>4, <2>1 DEF IInv, MatchedInv
<1> QED
  BY <1>8, <1>9, <1>10, <1>11 DEF IInv

\* A new link is mailed: it is larger than those that were.
LEMMA ForgetPasswordKeeps ==
    ASSUME IInv, NEW u \in Users, ForgetPassword(u)
    PROVE  IInv'
<1> DEFINE m == server.mails + 1
<1>1. /\ UNCHANGED <<storage, tab, call>> /\ past' = Clicked(past)
      /\ server.mails < MaxLinks
      /\ server' = [server EXCEPT !.mails = m, !.link[u] = m]
  BY Types DEF ForgetPassword, ServerType
<1>2. PastGrows /\ past'.mishaps = past.mishaps
  BY <1>1, ClickGrows
<1>3. /\ server.mails \in 0 .. MaxLinks /\ server.link \in [Users -> 0 .. MaxLinks]
      /\ m \in 1 .. MaxLinks
  BY <1>1, Types, ServerFields
<1>4. /\ server' \in ServerType /\ server'.sessions = server.sessions
      /\ server'.mails = m /\ server'.link = [server.link EXCEPT ![u] = m]
  <2> DEFINE L == [server.link EXCEPT ![u] = m]
  <2>1. L \in [Users -> 0 .. MaxLinks] /\ m \in 0 .. MaxLinks
    BY <1>3
  <2>2. server' = [server EXCEPT !.mails = m, !.link = L]
    BY <1>1
  <2> HIDE DEF L, m
  <2>3. server \in ServerType
    BY Types
  <2>4. LET w == [server EXCEPT !.mails = m, !.link = L]
        IN  w \in ServerType /\ w.sessions = server.sessions /\ w.mails = m /\ w.link = L
    BY <2>1, <2>3 DEF ServerType
  <2> QED
    BY <2>2, <2>4 DEF L
<1>5. /\ server'.link[u] = m
      /\ \A v \in Users \ {u} : server'.link[v] = server.link[v]
  BY <1>3, <1>4
<1>6. TypeInv'
  BY <1>1, <1>2, <1>4 DEF IInv, TypeInv, TypeOK, CallInv, ServerType, PastGrows, PastType
<1>7. ShownInv' /\ OrphanInv' /\ StoredLoginIsUsable'
  <2>1. \A c \in Slots : Follows(call'[c], call[c])
    BY <1>1 DEF Follows
  <2> QED
    BY <1>1, <1>2, <2>1, ServerKeeps
<1>8. ClosedInv' /\ LinkIsUsedOnce'
  BY <1>2, <1>4 DEF IInv, ClosedInv, LinkIsUsedOnce, PastGrows
<1>9. LinkInv /\ MatchedInv
  BY DEF IInv
<1>10. LinkInv'
  <2>1. \A v \in Users : server'.link[v] <= server'.mails
    BY <1>3, <1>4, <1>5, <1>9 DEF LinkInv
  <2>2. ASSUME NEW v \in Users, NEW w \in Users, v # w, server'.link[v] # 0
        PROVE  server'.link[v] # server'.link[w]
    <3>1. server.link[v] <= server.mails /\ server.link[w] <= server.mails
      BY <1>9 DEF LinkInv
    <3>2. server.link[v] \in Nat /\ server.link[w] \in Nat
      BY <1>3
    <3>3. v # u /\ w # u => server'.link[v] # server'.link[w]
      BY <1>5, <1>9, <2>2 DEF LinkInv
    <3> QED
      BY <1>3, <1>5, <2>2, <3>1, <3>2, <3>3
  <2>3. \A l \in 1 .. MaxLinks : l > server'.mails => past'.used[l] = 0
    BY <1>2, <1>3, <1>4, <1>9 DEF LinkInv, PastGrows
  <2>4. \A v \in Users : server'.link[v] # 0 => past'.used[server'.link[v]] = 0
    <3>1. past.used[m] = 0
      BY <1>3, <1>9 DEF LinkInv
    <3> QED
      BY <1>2, <1>5, <1>9, <3>1 DEF LinkInv, PastGrows
  <2> QED
    BY <2>1, <2>2, <2>3, <2>4 DEF LinkInv
<1>11. MatchedInv'
  <2> SUFFICES ASSUME NEW s \in Slots, call[s].stage = "matched"
               PROVE  /\ call[s].link <= server'.mails
                      /\ \A v \in Users : server'.link[v] = call[s].link => v = call[s].user
                      /\ "late" \notin past'.mishaps =>
                            /\ past'.used[call[s].link] = 0
                            /\ \A c \in Slots : c # s /\ call[c].stage = "matched" =>
                                  call[c].link # call[s].link
    BY <1>1 DEF MatchedInv
  <2>1. call[s].link \in Nat /\ call[s].link <= server.mails
    BY <1>9, Types DEF MatchedInv, CallOk
  <2>2. call[s].link <= m /\ call[s].link # m
    BY <1>3, <2>1
  <2> QED
    BY <1>2, <1>4, <1>5, <1>9, <2>2 DEF MatchedInv, PastGrows
<1> QED
  BY <1>6, <1>7, <1>8, <1>10, <1>11 DEF IInv

\* A link is matched: it is good, so it has not been used, and if another call had
\* matched it this is known.
LEMMA MatchLinkKeeps ==
    ASSUME IInv, NEW s \in Slots, MatchLink(s)
    PROVE  IInv'
<1> DEFINE d == [call[s] EXCEPT !.stage = "matched"]
           late == \E c \in Slots : call[c].stage = "matched" /\ call[c].link = call[s].link
<1>1. /\ call[s].kind = "reset" /\ call[s].stage = "sent"
      /\ call[s].link = server.link[call[s].user]
      /\ call' = [call EXCEPT ![s].stage = "matched"]
      /\ past' = Mishap(past, "late", late)
      /\ UNCHANGED <<server, storage, tab>>
  BY DEF MatchLink
<1>2. PastGrows /\ (late => "late" \in past'.mishaps)
  <2>1. late \in BOOLEAN /\ "late" \in Mishaps
    BY DEF Mishaps
  <2> HIDE DEF late
  <2> QED
    BY <1>1, <2>1, MishapGrows
<1>3. /\ d \in Call /\ d.stage = "matched" /\ d.kind = "reset" /\ d.user = call[s].user
      /\ d.token = call[s].token /\ d.link = call[s].link /\ (d.kept <=> call[s].kept)
  <2>1. call[s] \in Call
    BY Types
  <2> QED
    BY <1>1, <2>1, StageStep
<1>4. /\ call' \in [Slots -> Call] /\ call'[s] = d
      /\ \A c \in Slots \ {s} : call'[c] = call[c]
  <2>1. call' = [call EXCEPT ![s] = d]
    BY <1>1
  <2> QED
    BY <1>3, <2>1, Types
<1> HIDE DEF d
<1>5. call[s].user \in Users /\ call[s].link \in 1 .. MaxLinks
  BY <1>1, Types DEF CallOk, Logins
<1>6. CallOk(d)
  BY <1>3, <1>5 DEF CallOk, Logins, Calls
<1>7. TypeInv'
  BY <1>1, <1>2, <1>4, <1>6 DEF IInv, TypeInv, TypeOK, CallInv, PastGrows, PastType
<1>8. ShownInv' /\ OrphanInv' /\ StoredLoginIsUsable'
  <2>1. \A c \in Slots : Follows(call'[c], call[c])
    BY <1>1, <1>3, <1>4 DEF Follows
  <2> QED
    BY <1>1, <1>2, <2>1, ServerKeeps DEF PastGrows
<1>9. ClosedInv' /\ LinkIsUsedOnce' /\ LinkInv'
  BY <1>1, <1>2 DEF IInv, ClosedInv, LinkIsUsedOnce, LinkInv, PastGrows
<1>10. LinkInv /\ MatchedInv
  BY DEF IInv
<1>11. MatchedInv'
  <2> SUFFICES ASSUME NEW c \in Slots, call'[c].stage = "matched"
               PROVE  /\ call'[c].link <= server'.mails
                      /\ \A v \in Users : server'.link[v] = call'[c].link => v = call'[c].user
                      /\ "late" \notin past'.mishaps =>
                            /\ past'.used[call'[c].link] = 0
                            /\ \A e \in Slots : e # c /\ call'[e].stage = "matched" =>
                                  call'[e].link # call'[c].link
    BY DEF MatchedInv
  <2>1. CASE c = s
    <3>1. call'[c].link = call[s].link /\ call'[c].user = call[s].user
      BY <1>3, <1>4, <2>1
    <3>2. call[s].link # 0
      BY <1>5
    <3>3. call[s].link <= server'.mails
      BY <1>1, <1>5, <1>10 DEF LinkInv
    <3>4. \A v \in Users : server'.link[v] = call[s].link => v = call[s].user
      BY <1>1, <1>5, <1>10, <3>2 DEF LinkInv
    <3>5. past'.used[call[s].link] = 0
      BY <1>1, <1>2, <1>5, <1>10, <3>2 DEF LinkInv, PastGrows
    <3>6. ASSUME "late" \notin past'.mishaps, NEW e \in Slots, e # c,
                 call'[e].stage = "matched"
          PROVE  call'[e].link # call[s].link
      BY <1>2, <1>4, <2>1, <3>6
    <3> QED
      BY <3>1, <3>3, <3>4, <3>5, <3>6
  <2>2. CASE c # s
    <3>1. call'[c] = call[c]
      BY <1>4, <2>2
    <3>2. ASSUME "late" \notin past'.mishaps, NEW e \in Slots, e # c,
                 call'[e].stage = "matched"
          PROVE  call'[e].link # call[c].link
      <4>1. CASE e = s
        <5>1. call[c].link # call[s].link
          BY <1>2, <3>1, <3>2
        <5> QED
          BY <1>3, <1>4, <4>1, <5>1
      <4>2. CASE e # s
        BY <1>2, <1>4, <1>10, <3>1, <3>2, <4>2 DEF MatchedInv, PastGrows
      <4> QED
        BY <4>1, <4>2
    <3>3. /\ call[c].link <= server.mails
          /\ \A v \in Users : server.link[v] = call[c].link => v = call[c].user
          /\ "late" \notin past.mishaps => past.used[call[c].link] = 0
      BY <1>10, <2>2, <3>1 DEF MatchedInv
    <3>4. /\ server' = server /\ past'.used = past.used
          /\ "late" \notin past'.mishaps => "late" \notin past.mishaps
      BY <1>1, <1>2 DEF PastGrows
    <3> QED
      BY <3>1, <3>2, <3>3, <3>4
  <2> QED
    BY <2>1, <2>2
<1> QED
  BY <1>7, <1>8, <1>9, <1>11 DEF IInv

\* A token is issued.  It counts as issued again if it is open or was closed.  With
\* it a reset uses up its link, which then is nobody's.
LEMMA IssueTypes ==
    ASSUME IInv, NEW s \in Slots, Issue(s, NewToken(s)),
           call[s].kind \in Logins, call[s].stage \in {"sent", "matched"}
    PROVE  LET x == NewToken(s)
               d == [call[s] EXCEPT !.stage = "done", !.token = x]
               l == call[s].link
           IN  /\ x \in Token /\ x.user = call[s].user
               /\ d \in Call /\ CallOk(d) /\ Follows(d, call[s]) /\ d.stage = "done"
               /\ call' \in [Slots -> Call] /\ call'[s] = d
               /\ \A c \in Slots \ {s} : call'[c] = call[c]
               /\ server' \in ServerType /\ server'.sessions = server.sessions \cup {x}
               /\ server'.link = LinksAfter(s) /\ server'.mails = server.mails
               /\ past' \in PastType /\ past'.closed = past.closed
               /\ past.again \subseteq past'.again
               /\ x \in server.sessions \cup past.closed => x \in past'.again
               /\ past'.mishaps = past.mishaps
               /\ call[s].kind = "login" => past'.used = past.used
               /\ call[s].kind = "reset" =>
                    past'.used = [past.used EXCEPT ![l] = past.used[l] + 1]
<1> DEFINE x == NewToken(s)
           d == [call[s] EXCEPT !.stage = "done", !.token = x]
           l == call[s].link
           A == IF x \in server.sessions \cup past.closed THEN past.again \cup {x} ELSE past.again
           U == UsedAfter(s)
           K == LinksAfter(s)
<1>1. /\ server' = [server EXCEPT !.sessions = server.sessions \cup {x}, !.link = K]
      /\ call' = [call EXCEPT ![s] = d]
      /\ past' = [past EXCEPT !.again = A, !.used = U]
  <2>1. server' = [server EXCEPT !.sessions = server.sessions \cup {x}, !.link = K]
    BY Types DEF Issue, ServerType
  <2>2. call' = [call EXCEPT ![s] = d]
    BY Types DEF Issue, Call
  <2>3. past' = [past EXCEPT !.again = A, !.used = U]
    BY DEF Issue
  <2> QED
    BY <2>1, <2>2, <2>3
<1>2. call[s].user \in Users /\ (call[s].kind = "reset" => l \in 1 .. MaxLinks) /\ call[s] \in Call
  BY Types DEF CallOk
<1>3. x \in Token /\ x.user = call[s].user
  <2>1. server.second \in 0 .. MaxSecond
    BY Types, ServerFields
  <2> QED
    BY <1>2, <2>1 DEF NewToken, Token
<1>4. K \in [Users -> 0 .. MaxLinks]
  <2>1. server.link \in [Users -> 0 .. MaxLinks]
    BY Types, ServerFields
  <2>2. 0 \in 0 .. MaxLinks
    OBVIOUS
  <2>3. [server.link EXCEPT ![call[s].user] = 0] \in [Users -> 0 .. MaxLinks]
    BY <2>1, <2>2
  <2> QED
    BY <2>1, <2>3 DEF LinksAfter
<1>5. A \in SUBSET Token /\ U \in [1 .. MaxLinks -> Nat]
  <2>1. past.again \in SUBSET Token /\ past.used \in [1 .. MaxLinks -> Nat]
    BY Types DEF PastType
  <2>2. A \in SUBSET Token
    BY <1>3, <2>1
  <2>3. U \in [1 .. MaxLinks -> Nat]
    BY <1>2, <2>1 DEF UsedAfter
  <2> QED
    BY <2>2, <2>3
<1>6. past.again \subseteq A /\ (x \in server.sessions \cup past.closed => x \in A)
  OBVIOUS
<1>7. /\ call[s].kind = "login" => U = past.used
      /\ call[s].kind = "reset" => U = [past.used EXCEPT ![l] = past.used[l] + 1]
  BY DEF UsedAfter
<1> HIDE DEF x, A, U, K
<1>8. /\ d \in Call /\ d.stage = "done" /\ d.kind = call[s].kind /\ d.user = call[s].user
      /\ d.token = x /\ d.link = l /\ (d.kept <=> call[s].kept)
  BY <1>2, <1>3, IssuedStep
<1> HIDE DEF d, l
<1>9. CallOk(d) /\ Follows(d, call[s])
  BY <1>2, <1>3, <1>8 DEF CallOk, Follows, Logins, Calls
<1>10. call' \in [Slots -> Call] /\ call'[s] = d /\ \A c \in Slots \ {s} : call'[c] = call[c]
  BY <1>1, <1>8, Types
<1>11. /\ server' \in ServerType /\ server'.sessions = server.sessions \cup {x}
       /\ server'.link = K /\ server'.mails = server.mails
  BY <1>1, <1>3, <1>4, Types DEF ServerType
<1>12. /\ past' \in PastType /\ past'.closed = past.closed /\ past'.again = A
       /\ past'.mishaps = past.mishaps /\ past'.used = U
  BY <1>1, <1>5, Types DEF PastType
<1> QED
  BY <1>3, <1>6, <1>7, <1>8, <1>9, <1>10, <1>11, <1>12 DEF x, A, K, d, l

\* The parts of the invariant that are not about links.
LEMMA IssueKeepsRest ==
    ASSUME IInv, NEW s \in Slots, Issue(s, NewToken(s)), UNCHANGED <<storage, tab>>,
           call[s].kind \in Logins, call[s].stage \in {"sent", "matched"}
    PROVE  TypeInv' /\ ShownInv' /\ OrphanInv' /\ StoredLoginIsUsable' /\ ClosedInv'
<1> DEFINE x == NewToken(s)
           d == [call[s] EXCEPT !.stage = "done", !.token = x]
<1>1. /\ CallOk(d) /\ Follows(d, call[s])
      /\ call' \in [Slots -> Call] /\ call'[s] = d
      /\ \A c \in Slots \ {s} : call'[c] = call[c]
      /\ server' \in ServerType /\ server'.sessions = server.sessions \cup {x}
      /\ past' \in PastType /\ past'.closed = past.closed /\ past.again \subseteq past'.again
      /\ x \in server.sessions \cup past.closed => x \in past'.again
      /\ past'.mishaps = past.mishaps
  BY IssueTypes
<1> HIDE DEF d, x
<1>2. TypeInv'
  BY <1>1 DEF IInv, TypeInv, TypeOK, CallInv, ServerType, PastType
<1>3. ShownInv' /\ OrphanInv' /\ StoredLoginIsUsable'
  <2>1. \A c \in Slots : Follows(call'[c], call[c])
    BY <1>1 DEF Follows
  <2> QED
    BY <1>1, <2>1, ServerKeeps
<1>4. ClosedInv'
  BY <1>1 DEF IInv, ClosedInv
<1> QED
  BY <1>2, <1>3, <1>4

LEMMA ServeLoginKeeps ==
    ASSUME IInv, NEW s \in Slots, ServeLogin(s)
    PROVE  IInv'
<1>1. /\ call[s].kind = "login" /\ call[s].kind \in Logins /\ call[s].stage \in {"sent", "matched"}
      /\ Issue(s, NewToken(s)) /\ UNCHANGED <<storage, tab>>
  BY DEF ServeLogin, Logins
<1>2. /\ call'[s].stage = "done" /\ \A c \in Slots \ {s} : call'[c] = call[c]
      /\ server'.link = LinksAfter(s) /\ server'.mails = server.mails
      /\ past'.used = past.used /\ past'.mishaps = past.mishaps
  BY <1>1, IssueTypes
<1>3. server'.link = server.link
  BY <1>1, <1>2 DEF LinksAfter
<1>4. LinkIsUsedOnce' /\ LinkInv'
  BY <1>2, <1>3 DEF IInv, LinkIsUsedOnce, LinkInv
<1>5. MatchedInv'
  <2>1. \A c \in Slots : call'[c].stage = "matched" => call'[c] = call[c]
    BY <1>2
  <2> QED
    BY <1>2, <1>3, <2>1 DEF IInv, MatchedInv
<1> QED
  BY <1>1, <1>4, <1>5, IssueKeepsRest DEF IInv

LEMMA ServeResetKeeps ==
    ASSUME IInv, NEW s \in Slots, ServeReset(s)
    PROVE  IInv'
<1> DEFINE l == call[s].link
           u == call[s].user
<1>1. /\ call[s].kind = "reset" /\ call[s].kind \in Logins /\ call[s].stage = "matched"
      /\ call[s].stage \in {"sent", "matched"}
      /\ Issue(s, NewToken(s)) /\ UNCHANGED <<storage, tab>>
  BY DEF ServeReset, Logins
<1>2. /\ call'[s].stage = "done" /\ \A c \in Slots \ {s} : call'[c] = call[c]
      /\ server'.link = LinksAfter(s) /\ server'.mails = server.mails
      /\ past'.used = [past.used EXCEPT ![l] = past.used[l] + 1]
      /\ past'.mishaps = past.mishaps
  BY <1>1, IssueTypes
<1>3. /\ u \in Users /\ l \in 1 .. MaxLinks /\ server.link \in [Users -> 0 .. MaxLinks]
      /\ past.used \in [1 .. MaxLinks -> Nat]
      /\ \A c \in Slots : call[c].stage = "matched" => call[c].link \in 1 .. MaxLinks
  BY <1>1, Types, ServerFields DEF CallOk, Logins, PastType
<1>4. server'.link[u] = 0 /\ \A v \in Users \ {u} : server'.link[v] = server.link[v]
  BY <1>1, <1>2, <1>3 DEF LinksAfter
<1>5. /\ past'.used[l] = past.used[l] + 1
      /\ \A k \in 1 .. MaxLinks : k # l => past'.used[k] = past.used[k]
  BY <1>2, <1>3
<1>6. /\ l <= server.mails
      /\ \A v \in Users : server.link[v] = l => v = u
      /\ "late" \notin past.mishaps =>
            /\ past.used[l] = 0
            /\ \A c \in Slots : c # s /\ call[c].stage = "matched" => call[c].link # l
  BY <1>1 DEF IInv, MatchedInv
<1>7. LinkInv /\ MatchedInv /\ LinkIsUsedOnce
  BY DEF IInv
<1>8. LinkIsUsedOnce'
  <2> SUFFICES ASSUME NEW k \in 1 .. MaxLinks, past'.used[k] > 1, "late" \notin past.mishaps
               PROVE  FALSE
    BY <1>2 DEF LinkIsUsedOnce
  <2>1. CASE k = l
    BY <1>5, <1>6, <2>1
  <2>2. CASE k # l
    BY <1>5, <1>7, <2>2 DEF LinkIsUsedOnce
  <2> QED
    BY <2>1, <2>2
<1> HIDE DEF l, u
<1>9. LinkInv'
  <2>1. \A v \in Users : server'.link[v] <= server'.mails
    <3>1. 0 <= server.mails
      BY Types, ServerFields
    <3> QED
      BY <1>2, <1>4, <1>7, <3>1 DEF LinkInv
  <2>2. \A v, w \in Users :
          v # w /\ server'.link[v] # 0 => server'.link[v] # server'.link[w]
    BY <1>4, <1>7 DEF LinkInv
  <2>3. \A k \in 1 .. MaxLinks : k > server'.mails => past'.used[k] = 0
    <3> SUFFICES ASSUME NEW k \in 1 .. MaxLinks, k > server'.mails PROVE past'.used[k] = 0
      OBVIOUS
    <3>1. k # l
      BY <1>2, <1>3, <1>6, Types, ServerFields
    <3> QED
      BY <1>2, <1>5, <1>7, <3>1 DEF LinkInv
  <2>4. \A v \in Users : server'.link[v] # 0 => past'.used[server'.link[v]] = 0
    <3> SUFFICES ASSUME NEW v \in Users, server'.link[v] # 0
                 PROVE  past'.used[server'.link[v]] = 0
      OBVIOUS
    <3>1. v # u /\ server'.link[v] = server.link[v]
      BY <1>4
    <3>2. server.link[v] \in 1 .. MaxLinks /\ server.link[v] # l
      BY <1>3, <1>6, <3>1
    <3> QED
      BY <1>5, <1>7, <3>1, <3>2 DEF LinkInv
  <2> QED
    BY <2>1, <2>2, <2>3, <2>4 DEF LinkInv
<1>10. MatchedInv'
  <2> SUFFICES ASSUME NEW c \in Slots, call'[c].stage = "matched"
               PROVE  /\ call'[c].link <= server'.mails
                      /\ \A v \in Users : server'.link[v] = call'[c].link => v = call'[c].user
                      /\ "late" \notin past'.mishaps =>
                            /\ past'.used[call'[c].link] = 0
                            /\ \A e \in Slots : e # c /\ call'[e].stage = "matched" =>
                                  call'[e].link # call'[c].link
    BY DEF MatchedInv
  <2>1. c # s /\ call'[c] = call[c] /\ call[c].link \in 1 .. MaxLinks
    BY <1>2, <1>3
  <2>2. call[c].link <= server'.mails
    BY <1>2, <1>7, <2>1 DEF MatchedInv
  <2>3. ASSUME NEW v \in Users, server'.link[v] = call[c].link PROVE v = call[c].user
    BY <1>4, <1>7, <2>1, <2>3 DEF MatchedInv
  <2>4. ASSUME "late" \notin past.mishaps PROVE past'.used[call[c].link] = 0
    BY <1>5, <1>6, <1>7, <2>1, <2>4 DEF MatchedInv
  <2>5. ASSUME "late" \notin past.mishaps, NEW e \in Slots, e # c, call'[e].stage = "matched"
        PROVE  call'[e].link # call[c].link
    <3>1. e # s /\ call'[e] = call[e]
      BY <1>2, <2>5
    <3> QED
      BY <1>7, <2>1, <2>5, <3>1 DEF MatchedInv
  <2> QED
    BY <1>2, <2>1, <2>2, <2>3, <2>4, <2>5
<1> QED
  BY <1>1, <1>8, <1>9, <1>10, IssueKeepsRest DEF IInv

-----------------------------------------------------------------------------
(***************************************************************************)
(* Every step, and the theorems.                                           *)
(***************************************************************************)

LEMMA InitIInv == Init => IInv
<1> SUFFICES ASSUME Init PROVE IInv
  OBVIOUS
<1>1. /\ server.sessions = {} /\ server.second = 0 /\ server.mails = 0
      /\ server.link = [u \in Users |-> 0] /\ server \in ServerType
  <2>1. 0 \in 0 .. MaxSecond /\ 0 \in 0 .. MaxLinks
    OBVIOUS
  <2> QED
    BY <2>1 DEF Init, ServerType
<1>2. /\ storage \in Storage /\ ~storage.present /\ storage.current = Nobody
  BY Nothing DEF Init, Storage
<1>3. tab \in [Tabs -> Tab] /\ \A t \in Tabs : ~tab[t].isLoggedIn
  <2>1. LoggedOut \in Tab /\ ~LoggedOut.isLoggedIn
    BY Nothing DEF LoggedOut, Tab
  <2> QED
    BY <2>1 DEF Init
<1>4. call \in [Slots -> Call] /\ \A s \in Slots : call[s] = NoCall
  BY NoCallStep DEF Init
<1>5. /\ past \in PastType /\ past.closed = {} /\ past.used = [l \in 1 .. MaxLinks |-> 0]
  BY DEF Init, PastType
<1>6. TypeInv
  BY <1>1, <1>2, <1>3, <1>4, <1>5, NoCallStep
     DEF TypeInv, TypeOK, CallInv, StartsCall, ServerType, PastType
<1>7. ShownInv
  BY <1>2, <1>3, <1>4, Nothing, NoCallStep
     DEF ShownInv, StorageInv, TabInv, Trusts, CallsAsShown, AsShown
<1>8. OrphanInv /\ StoredLoginIsUsable /\ ClosedInv
  BY <1>1, <1>2, <1>4, NoCallStep DEF OrphanInv, StoredLoginIsUsable, ClosedInv
<1>9. LinkInv /\ MatchedInv /\ LinkIsUsedOnce
  BY <1>1, <1>4, <1>5, NoCallStep DEF LinkInv, MatchedInv, LinkIsUsedOnce
<1> QED
  BY <1>6, <1>7, <1>8, <1>9 DEF IInv

LEMMA NextIInv == IInv /\ [Next]_vars => IInv'
<1> SUFFICES ASSUME IInv, [Next]_vars PROVE IInv'
  OBVIOUS
<1>1. CASE User
  BY <1>1, ReloadKeeps, EnterKeeps, RequestKeeps, LogoutKeeps, ForgetPasswordKeeps
     DEF User, SaveProfile
<1>2. CASE Server
  BY <1>2, ServeLoginKeeps, MatchLinkKeeps, ServeResetKeeps, AdmitKeeps, PullKeeps,
     RefuseKeeps, FailKeeps, TickKeeps DEF Server
<1>3. CASE Answer
  BY <1>3, AnswerLoginKeeps, AnswerProfileKeeps, AnswerListKeeps, AnswerDoneKeeps,
     AnswerFailedKeeps, AnswerRefusedKeeps DEF Answer
<1>4. CASE UNCHANGED vars
  <2>1. UNCHANGED server /\ UNCHANGED storage /\ UNCHANGED tab /\ UNCHANGED call /\ UNCHANGED past
    BY <1>4 DEF vars
  <2>2. TypeInv' /\ OrphanInv' /\ StoredLoginIsUsable' /\ ClosedInv'
    BY <2>1 DEF IInv, TypeInv, TypeOK, CallInv, OrphanInv, StoredLoginIsUsable, ClosedInv
  <2>3. ShownInv'
    BY <2>1 DEF IInv, ShownInv, StorageInv, TabInv, Trusts, CallsAsShown
  <2>4. LinkInv' /\ MatchedInv' /\ LinkIsUsedOnce'
    BY <2>1 DEF IInv, LinkInv, MatchedInv, LinkIsUsedOnce
  <2> QED
    BY <2>2, <2>3, <2>4 DEF IInv
<1> QED
  BY <1>1, <1>2, <1>3, <1>4 DEF Next

\* The invariant of the sessions holds in every state.
THEOREM Invariant == Spec => []IInv
BY InitIInv, NextIInv, PTL DEF Spec

\* The list of sessions, the localStorage, the stores of the tabs and the calls keep
\* their form, also when a profile or a failed logout is stored in place of a login.
THEOREM TypeCorrect == Spec => []TypeOK
<1>1. IInv => TypeOK
  BY DEF IInv, TypeInv
<1> QED
  BY <1>1, Invariant, PTL

\* Every call of the app is made for the user that its tab shows, though the token is
\* read from a localStorage that all tabs write, as long as no login is answered
\* while a tab shows another user, and no profile in a tab that shows another.
\* (request/request.js:16-25, redux/auth/actions.js:11-31 and 139-157)
THEOREM CallsAreAsShown == Spec => []ActsAsShown
<1>1. IInv => ActsAsShown
  BY DEF IInv, ShownInv, CallsAsShown, AsShown, ActsAsShown
<1> QED
  BY <1>1, Invariant, PTL

\* Only a saved profile or a failed logout stores a login without its token, and only
\* a logout that failed and had found nothing stored a null, which no page can send
\* a call with.
\* (redux/auth/actions.js:108-129, redux/storePersist.js:30-56)
THEOREM StoredLoginCorrect == Spec => []StoredLoginIsUsable
<1>1. IInv => StoredLoginIsUsable
  BY DEF IInv
<1> QED
  BY <1>1, Invariant, PTL

\* The link of a mail resets a password once, for all that the server compares it in
\* one step and replaces it in another, unless two calls had it matched before either
\* replaced it.
\* (createAuthMiddleware/resetPassword.js:30-36 and 68-81)
THEOREM LinkCorrect == Spec => []LinkIsUsedOnce
<1>1. IInv => LinkIsUsedOnce
  BY DEF IInv
<1> QED
  BY <1>1, Invariant, PTL

-----------------------------------------------------------------------------
(***************************************************************************)
(* Admission.                                                              *)
(***************************************************************************)

\* A call that was sent and is still there, or one that has just been sent, has not
\* been admitted.
NotAdmitted(s) == call'[s].stage \notin {"passed", "done"}

LEMMA SentStage ==
    ASSUME NEW t, NEW r, NEW kind
    PROVE  Sent(t, r, kind).stage = "sent" /\ NoCall.stage = "none"
BY DEF Sent, NoCall

LEMMA BecomesAdmitsNone ==
    ASSUME call \in [Slots -> Call], NEW s \in Slots, call[s].stage = "sent",
           NEW t, NEW c \in Slots, NEW r, NEW st, Becomes(t, r, st, c)
    PROVE  NotAdmitted(s)
<1> DEFINE sends == r.isLoggedIn /\ ~tab[t].isLoggedIn /\ CanSend(st)
           d == IF sends THEN Sent(t, IncludeToken(r, st), "list") ELSE NoCall
<1>1. call' = [call EXCEPT ![c] = d]
  BY DEF Becomes
<1>2. d.stage \in {"none", "sent"}
  BY SentStage
<1> HIDE DEF d
<1>3. call'[s] = d \/ call'[s] = call[s]
  BY <1>1
<1> QED
  BY <1>2, <1>3 DEF NotAdmitted

LEMMA LoadsAdmitsNone ==
    ASSUME call \in [Slots -> Call], NEW s \in Slots, call[s].stage = "sent",
           NEW t, NEW c \in Slots, NEW st, Loads(t, st, c)
    PROVE  NotAdmitted(s)
<1> DEFINE sends == Page(st).isLoggedIn /\ CanSend(st)
           d == IF sends THEN Sent(t, IncludeToken(Page(st), st), "list") ELSE NoCall
<1>1. call'[s] = IF s = c THEN d
                 ELSE IF call[s].tab = t THEN [call[s] EXCEPT !.tab = None] ELSE call[s]
  BY DEF Loads
<1>2. d.stage \in {"none", "sent"}
  BY SentStage
<1>3. call[s] \in Call
  OBVIOUS
<1>4. [call[s] EXCEPT !.tab = None].stage = "sent"
  BY <1>3, LeftStep DEF SameCall
<1> HIDE DEF d
<1> QED
  BY <1>1, <1>2, <1>4 DEF NotAdmitted

LEMMA UserAdmitsNone ==
    ASSUME call \in [Slots -> Call], NEW s \in Slots, call[s].stage = "sent", User
    PROVE  NotAdmitted(s)
<1>1. ASSUME NEW t \in Tabs, NEW c \in Slots, Reload(t, c) PROVE NotAdmitted(s)
  BY <1>1, LoadsAdmitsNone DEF Reload
<1>2. ASSUME NEW t \in Tabs, NEW c \in Slots, NEW kind, NEW u, NEW l, Enter(t, c, kind, u, l)
      PROVE  NotAdmitted(s)
  <2> DEFINE d == [NoCall EXCEPT !.tab = t, !.kind = kind, !.stage = "sent", !.user = u, !.link = l]
  <2>1. d.stage = "sent" /\ call' = [call EXCEPT ![c] = d]
    BY <1>2 DEF Enter, NoCall
  <2> HIDE DEF d
  <2>2. call'[s] = d \/ call'[s] = call[s]
    BY <2>1
  <2> QED
    BY <2>1, <2>2 DEF NotAdmitted
<1>3. ASSUME NEW t \in Tabs, NEW c \in Slots, NEW kind, Request(t, c, kind) PROVE NotAdmitted(s)
  <2> DEFINE d == Sent(t, IncludeToken(tab[t], storage), kind)
  <2>1. call' = [call EXCEPT ![c] = d] /\ d.stage = "sent"
    BY <1>3, SentStage DEF Request
  <2> HIDE DEF d
  <2>2. call'[s] = d \/ call'[s] = call[s]
    BY <2>1
  <2> QED
    BY <2>1, <2>2 DEF NotAdmitted
<1>4. ASSUME NEW t \in Tabs, NEW c \in Slots, Logout(t, c) PROVE NotAdmitted(s)
  <2> DEFINE d == [Sent(t, tab[t], "logout") EXCEPT !.kept = storage.present]
  <2>1. d.stage = "sent" /\ call' = [call EXCEPT ![c] = d]
    BY <1>4 DEF Logout, Forget, Sent, NoCall
  <2> HIDE DEF d
  <2>2. call'[s] = d \/ call'[s] = call[s]
    BY <2>1
  <2> QED
    BY <2>1, <2>2 DEF NotAdmitted
<1>5. ASSUME NEW u \in Users, ForgetPassword(u) PROVE NotAdmitted(s)
  BY <1>5 DEF ForgetPassword, NotAdmitted
<1> QED
  BY <1>1, <1>2, <1>3, <1>4, <1>5 DEF User, Login, ResetPassword, SaveProfile

LEMMA AnswerAdmitsNone ==
    ASSUME call \in [Slots -> Call], NEW s \in Slots, call[s].stage = "sent", Answer
    PROVE  NotAdmitted(s)
<1>1. PICK c \in Slots :
        \/ AnswerLogin(c) \/ AnswerProfile(c) \/ AnswerList(c) \/ AnswerDone(c)
        \/ AnswerFailed(c) \/ AnswerRefused(c)
  BY DEF Answer
<1>2. CASE AnswerLogin(c)
  BY <1>2, BecomesAdmitsNone DEF AnswerLogin
<1>3. CASE AnswerProfile(c)
  BY <1>3, BecomesAdmitsNone DEF AnswerProfile
<1>4. CASE AnswerList(c) \/ AnswerDone(c)
  <2>1. call' = [call EXCEPT ![c] = NoCall]
    BY <1>4 DEF AnswerList, AnswerDone
  <2>2. call'[s] = NoCall \/ call'[s] = call[s]
    BY <2>1
  <2> QED
    BY <2>2, SentStage DEF NotAdmitted
<1>5. CASE AnswerFailed(c)
  BY <1>5, BecomesAdmitsNone DEF AnswerFailed
<1>6. CASE AnswerRefused(c)
  BY <1>6, BecomesAdmitsNone, LoadsAdmitsNone DEF AnswerRefused
<1> QED
  BY <1>1, <1>2, <1>3, <1>4, <1>5, <1>6

\* The server admits a call in one way only, which looks for an open session.
LEMMA ServerAdmits ==
    ASSUME call \in [Slots -> Call], NEW s \in Slots, call[s].stage = "sent",
           call[s].kind \in Calls, Server
    PROVE  NotAdmitted(s) \/ Admit(s)
<1>0. call[s].kind \notin Logins /\ call[s].kind # "login" /\ call[s].kind # "reset"
  BY DEF Calls, Logins
<1>1. ASSUME Tick PROVE NotAdmitted(s)
  BY <1>1 DEF Tick, NotAdmitted
<1>2. ASSUME NEW c \in Slots, c # s,
             ServeLogin(c) \/ MatchLink(c) \/ ServeReset(c)
               \/ Admit(c) \/ Pull(c) \/ Refuse(c) \/ Fail(c)
      PROVE  NotAdmitted(s)
  <2>1. call'[s] = call[s]
    BY <1>2 DEF ServeLogin, ServeReset, Issue, MatchLink, Admit, Pull, Refuse, Fail
  <2> QED
    BY <2>1 DEF NotAdmitted
<1>3. ~ServeLogin(s) /\ ~MatchLink(s) /\ ~ServeReset(s) /\ ~Pull(s)
  BY <1>0 DEF ServeLogin, ServeReset, MatchLink, Pull
<1>4. ASSUME Refuse(s) \/ Fail(s) PROVE NotAdmitted(s)
  <2>1. call'[s].stage \in {"refused", "failed"}
    BY <1>4 DEF Refuse, Fail, Call
  <2> QED
    BY <2>1 DEF NotAdmitted
<1> QED
  BY <1>1, <1>2, <1>3, <1>4 DEF Server

\* What a logout has closed admits nothing more: a token that is off the list is not
\* put there again, unless its user logs in again within the second it was signed in.
\* (createAuthMiddleware/isValidAuthToken.js:32-53, logout.js:3-33, authUser.js:14-38)
THEOREM NoEntry == Spec => NoEntryAfterLogout
<1>1. IInv /\ [Next]_vars =>
        [\A s \in Slots :
            call[s].kind \in Calls /\ call[s].stage = "sent"
              /\ call'[s].kind = call[s].kind /\ call'[s].stage \in {"passed", "done"} =>
                call[s].token \notin past.closed \/ call[s].token \in past.again]_vars
  <2> SUFFICES ASSUME IInv, Next, NEW s \in Slots,
                      call[s].kind \in Calls, call[s].stage = "sent", ~NotAdmitted(s)
               PROVE  call[s].token \notin past.closed \/ call[s].token \in past.again
    BY DEF NotAdmitted
  <2>1. call \in [Slots -> Call]
    BY Types
  <2>2. Admit(s)
    BY <2>1, UserAdmitsNone, AnswerAdmitsNone, ServerAdmits DEF Next
  <2> QED
    BY <2>2 DEF Admit, Valid, IInv, ClosedInv
<1> QED
  BY <1>1, Invariant, PTL DEF Spec, NoEntryAfterLogout
=============================================================================
