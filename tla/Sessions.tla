------------------------------ MODULE Sessions ------------------------------
(***************************************************************************)
(* Who is logged in.  The server keeps the tokens of the open sessions;    *)
(* the tabs of a browser share its localStorage, where the last login is   *)
(* kept, and have a store and an Authorization header of their own.  Login,*)
(* logout, the reset of a forgotten password, the edit of the profile and  *)
(* every other call of the app read and write these in their own order.    *)
(*                                                                         *)
(* A tab runs one task at a time; an answer is handled with all that       *)
(* follows it, up to the call that the app makes when it is mounted.       *)
(***************************************************************************)
EXTENDS Naturals

CONSTANTS
    Users,
    Tabs,          \* the tabs of one browser
    Slots,         \* bound: the calls there may be at one time
    MaxSecond,     \* bound: the seconds that pass
    MaxLinks,      \* bound: the mails with a link to reset a password
    MaxClicks,     \* bound: so often a user starts something
    MaxRefusals,   \* bound: so many calls fail although they need not
    None

ASSUME SessionsAssumption ==
    /\ None \notin Users \cup Tabs
    /\ None \notin [user : Users \cup {None}, second : Nat]
    /\ MaxSecond \in Nat /\ MaxLinks \in Nat /\ MaxClicks \in Nat /\ MaxRefusals \in Nat

VARIABLES
    server,    \* the sessions and the links on the server, and the clock
    storage,   \* the localStorage
    tab,
    call,      \* the calls in flight
    past       \* history, and what is spent of the bounds

vars == <<server, storage, tab, call, past>>

\* A token is signed for a user at a second: two logins of a user in the same
\* second get the same one.  NoToken is what JavaScript makes of a missing one.
Token == [user : Users, second : 0 .. MaxSecond]
NoToken == [user |-> None, second |-> 0]

\* What the store and the localStorage hold of the user who is logged in:
\* nothing but null, or a user and a token, each of which may be missing.
Current == [user : Users \cup {None}, token : Token \cup {NoToken}]
Null == [user |-> None, token |-> None]
Nobody == [user |-> None, token |-> NoToken]

Storage == [present : BOOLEAN, current : Current \cup {Null}, isLogout : BOOLEAN]

\* shown: the settings are loaded, which is when the app is on the screen.
Tab == [isLoggedIn : BOOLEAN, isLoading : BOOLEAN, current : Current \cup {Null},
        header : Token \cup {NoToken, None}, shown : BOOLEAN]

\* user: who logs in, or who is shown where the call is made.  kept: what a
\* logout has found in the localStorage.  passed: a logout was admitted;
\* matched: the link of a reset was.
Call == [tab : Tabs \cup {None}, kind : {"none", "login", "reset", "list", "app", "profile", "logout"},
         stage : {"none", "sent", "passed", "matched", "done", "refused", "failed"},
         user : Users \cup {None}, token : Token \cup {NoToken, None},
         link : 0 .. MaxLinks, kept : BOOLEAN]

\* closed: tokens that a logout has taken off the list; again: tokens that
\* were issued twice; used: links that have reset a password.
\* mishaps: switched  a login was answered while a tab showed the app of another
\*                   user, or a profile in a tab that by then did
\*          failed    a logout was not answered with success
\*          orphaned  one was started when the localStorage held no login
\*          profile   a profile was saved
\*          late      a link was matched when it had been matched already
Mishaps == {"switched", "failed", "orphaned", "profile", "late"}

TypeOK ==
    /\ server \in [sessions : SUBSET Token, second : 0 .. MaxSecond,
                   link : [Users -> 0 .. MaxLinks], mails : 0 .. MaxLinks]
    /\ storage \in Storage
    /\ tab \in [Tabs -> Tab]
    /\ call \in [Slots -> Call]
    /\ past \in [closed : SUBSET Token, again : SUBSET Token, used : [1 .. MaxLinks -> Nat],
                 mishaps : SUBSET Mishaps, clicks : Nat, refusals : Nat]

-----------------------------------------------------------------------------

NoCall == [tab |-> None, kind |-> "none", stage |-> "none", user |-> None,
           token |-> None, link |-> 0, kept |-> FALSE]

LoggedOut == [isLoggedIn |-> FALSE, isLoading |-> FALSE, current |-> Nobody,
              header |-> None, shown |-> FALSE]

Init ==
    /\ server = [sessions |-> {}, second |-> 0, link |-> [u \in Users |-> 0], mails |-> 0]
    /\ storage = [present |-> FALSE, current |-> Nobody, isLogout |-> FALSE]
    /\ tab = [t \in Tabs |-> LoggedOut]
    /\ call = [s \in Slots |-> NoCall]
    /\ past = [closed |-> {}, again |-> {}, used |-> [l \in 1 .. MaxLinks |-> 0],
               mishaps |-> {}, clicks |-> 0, refusals |-> 0]

Click == past.clicks < MaxClicks
Clicked(p) == [p EXCEPT !.clicks = @ + 1]
Mishap(p, m, when) == IF when THEN [p EXCEPT !.mishaps = @ \cup {m}] ELSE p

Free(s) == call[s].stage = "none"

-----------------------------------------------------------------------------
(***************************************************************************)
(* The browser.                                                            *)
(***************************************************************************)

\* Mutant: the header is the user with the token.
IncludeUser(r, st) == IF st.present THEN [r EXCEPT !.header = st.current] ELSE r

\* Mutant: the header is set once.
IncludeTokenOnce(r, st) ==
    IF st.present /\ r.header = None THEN [r EXCEPT !.header = st.current.token] ELSE r

\* The header of a call: the stored login if there is one, else what the tab
\* has sent before.
IncludeToken(r, st) == IF st.present THEN [r EXCEPT !.header = st.current.token] ELSE r

\* A stored null makes every call fail before it is sent.
CanSend(st) == st.present => st.current # Null

Sent(t, r, kind) ==
    [NoCall EXCEPT !.tab = t, !.kind = kind, !.stage = "sent",
                   !.user = r.current.user, !.token = r.header]

\* The store of tab t becomes r, the localStorage st.  When the tab is logged
\* in by that, the app is mounted and asks for the settings, through slot s.
\* The store of the settings outlives a logout.
Becomes(t, r, st, s) ==
    LET mounts == r.isLoggedIn /\ ~ tab[t].isLoggedIn
        sends == mounts /\ CanSend(st)
        q == IncludeToken(r, st)
    IN  /\ storage' = st
        /\ tab' = [tab EXCEPT ![t] =
             IF sends THEN q ELSE IF mounts THEN [r EXCEPT !.shown = FALSE] ELSE r]
        /\ call' = [call EXCEPT ![s] = IF sends THEN Sent(t, q, "list") ELSE NoCall]

\* The store of a page that is loaded: the login of the localStorage.
Page(st) ==
    [LoggedOut EXCEPT !.isLoggedIn = st.present,
                      !.current = IF st.present THEN st.current ELSE Nobody]

\* The page is loaded; the calls of the page before go on without it.
Loads(t, st, s) ==
    LET r == Page(st)
        q == IncludeToken(r, st)
        sends == r.isLoggedIn /\ CanSend(st)
    IN  /\ storage' = st
        /\ tab' = [tab EXCEPT ![t] = IF sends THEN q ELSE r]
        /\ call' = [c \in Slots |->
             IF c = s THEN (IF sends THEN Sent(t, q, "list") ELSE NoCall)
             ELSE IF call[c].tab = t THEN [call[c] EXCEPT !.tab = None] ELSE call[c]]

Reload(t, s) ==
    /\ Click /\ Free(s)
    /\ Loads(t, storage, s)
    /\ past' = Clicked(past)
    /\ UNCHANGED server

\* A form that logs in is sent.
Enter(t, s, kind, u, l) ==
    /\ Click /\ Free(s)
    /\ ~ tab[t].isLoggedIn /\ ~ tab[t].isLoading
    /\ tab' = [tab EXCEPT ![t].isLoading = TRUE]
    /\ call' = [call EXCEPT ![s] = [NoCall EXCEPT !.tab = t, !.kind = kind, !.stage = "sent",
                                                  !.user = u, !.link = l]]
    /\ past' = Clicked(past)
    /\ UNCHANGED <<server, storage>>

Login(t, s, u) == Enter(t, s, "login", u, 0)

\* The form behind a link that was mailed.
ResetPassword(t, s, u, l) == l <= server.mails /\ Enter(t, s, "reset", u, l)

InApp(t) == tab[t].isLoggedIn /\ tab[t].shown

\* A call of the app: it carries the login that is stored now.
Request(t, s, kind) ==
    /\ Click /\ InApp(t) /\ Free(s) /\ CanSend(storage)
    /\ tab' = [tab EXCEPT ![t] = IncludeToken(@, storage)]
    /\ call' = [call EXCEPT ![s] = Sent(t, IncludeToken(tab[t], storage), kind)]
    /\ past' = Clicked(past)
    /\ UNCHANGED <<server, storage>>

\* The form of the profile, which is filled with the user that is shown.
SaveProfile(t, s) == Request(t, s, "profile")

\* The login is forgotten first, and the server told with the header that the
\* tab has sent last.
Forget(t, s) ==
    /\ storage' = [present |-> FALSE, current |-> Nobody, isLogout |-> TRUE]
    /\ tab' = [tab EXCEPT ![t] = [LoggedOut EXCEPT !.header = tab[t].header, !.shown = TRUE]]
    /\ call' = [call EXCEPT ![s] = [Sent(t, tab[t], "logout") EXCEPT !.kept = storage.present]]

\* The page behind the link to log out.
Logout(t, s) ==
    /\ Click /\ InApp(t) /\ Free(s)
    /\ Forget(t, s)
    /\ past' = Mishap(Clicked(past), "orphaned", ~ storage.present)
    /\ UNCHANGED server

-----------------------------------------------------------------------------
(***************************************************************************)
(* The server.                                                             *)
(***************************************************************************)

\* Mutant: a token need only be signed.
ValidSigned(token) == token \in Token

\* A token is admitted while its session is open.
Valid(token) == token \in server.sessions

\* Mutant: the link stays good.
LinksKept(s) == server.link

\* A password that was reset is given a link that nobody has been mailed.
LinksAfter(s) ==
    IF call[s].kind = "reset" THEN [server.link EXCEPT ![call[s].user] = 0] ELSE server.link

\* History: a reset uses its link.
UsedAfter(s) ==
    IF call[s].kind = "reset" THEN [past.used EXCEPT ![call[s].link] = @ + 1] ELSE past.used

\* A token is signed and pushed onto the list.
Issue(s, token) ==
    /\ server' = [server EXCEPT !.sessions = @ \cup {token}, !.link = LinksAfter(s)]
    /\ call' = [call EXCEPT ![s].stage = "done", ![s].token = token]
    /\ past' = [past EXCEPT
         !.again = IF token \in server.sessions \cup past.closed THEN @ \cup {token} ELSE @,
         !.used = UsedAfter(s)]

NewToken(s) == [user |-> call[s].user, second |-> server.second]

ServeLogin(s) ==
    /\ call[s].kind = "login" /\ call[s].stage = "sent"
    /\ Issue(s, NewToken(s))
    /\ UNCHANGED <<storage, tab>>

\* The link is compared with the last one that was mailed, and not again when
\* the password is changed; the change replaces it.
MatchLink(s) ==
    /\ call[s].kind = "reset" /\ call[s].stage = "sent"
    /\ call[s].link = server.link[call[s].user]
    /\ call' = [call EXCEPT ![s].stage = "matched"]
    /\ past' = Mishap(past, "late", \E c \in Slots : /\ call[c].stage = "matched"
                                                     /\ call[c].link = call[s].link)
    /\ UNCHANGED <<server, storage, tab>>

ServeReset(s) ==
    /\ call[s].kind = "reset" /\ call[s].stage = "matched"
    /\ Issue(s, NewToken(s))
    /\ UNCHANGED <<storage, tab>>

\* A mail with a new link, which the last one gives way to.
ForgetPassword(u) ==
    /\ Click /\ server.mails < MaxLinks
    /\ server' = [server EXCEPT !.mails = @ + 1, !.link[u] = server.mails + 1]
    /\ past' = Clicked(past)
    /\ UNCHANGED <<storage, tab, call>>

Calls == {"list", "app", "profile", "logout"}

\* The token is checked; what is called follows at once, save a logout.
Admit(s) ==
    /\ call[s].kind \in Calls /\ call[s].stage = "sent"
    /\ Valid(call[s].token)
    /\ call' = [call EXCEPT ![s].stage = IF call[s].kind = "logout" THEN "passed" ELSE "done"]
    /\ UNCHANGED <<server, storage, tab, past>>

\* The token of the call is taken off the list.
Pull(s) ==
    /\ call[s].stage = "passed"
    /\ server' = [server EXCEPT !.sessions = @ \ {call[s].token}]
    /\ call' = [call EXCEPT ![s].stage = "done"]
    /\ past' = [past EXCEPT !.closed = @ \cup {call[s].token}]
    /\ UNCHANGED <<storage, tab>>

\* The token is not admitted; or it has expired, or the database fails when it
\* is checked, which is answered like an expired token.
Refuse(s) ==
    /\ call[s].kind \in Calls /\ call[s].stage = "sent"
    /\ ~ Valid(call[s].token) \/ past.refusals < MaxRefusals
    /\ call' = [call EXCEPT ![s].stage = "refused"]
    /\ past' = [past EXCEPT !.refusals = IF Valid(call[s].token) THEN @ + 1 ELSE @]
    /\ UNCHANGED <<server, storage, tab>>

BadLink(s) ==
    /\ call[s].kind = "reset" /\ call[s].stage = "sent"
    /\ call[s].link # server.link[call[s].user]

\* No answer, or one that tells of another failure: a wrong password or link,
\* a profile that may not be changed.
Fail(s) ==
    /\ call[s].stage \in {"sent", "passed", "matched", "done"}
    /\ BadLink(s) \/ past.refusals < MaxRefusals
    /\ call' = [call EXCEPT ![s].stage = "failed"]
    /\ past' = [past EXCEPT !.refusals = IF BadLink(s) THEN @ ELSE @ + 1]
    /\ UNCHANGED <<server, storage, tab>>

Tick ==
    /\ server.second < MaxSecond
    /\ server' = [server EXCEPT !.second = @ + 1]
    /\ UNCHANGED <<storage, tab, call, past>>

-----------------------------------------------------------------------------
(***************************************************************************)
(* The answers.                                                            *)
(***************************************************************************)

\* A tab shows the app, and not of user u.
ShowsOther(t, u) == tab[t].isLoggedIn /\ tab[t].current.user # u

\* The login is stored, for all tabs, and shown in this one.
AnswerLogin(s) ==
    /\ call[s].kind \in {"login", "reset"} /\ call[s].stage = "done" /\ call[s].tab # None
    /\ LET t == call[s].tab
           user == [user |-> call[s].user, token |-> call[s].token]
       IN  /\ Becomes(t, [tab[t] EXCEPT !.isLoggedIn = TRUE, !.isLoading = FALSE, !.current = user],
                      [present |-> TRUE, current |-> user, isLogout |-> FALSE], s)
           /\ past' = Mishap(past, "switched", \E v \in Tabs : ShowsOther(v, user.user))
    /\ UNCHANGED server

\* What the server answers to a profile that it has changed: the one of the user
\* who is logged in with the token, without that token.
Profile(token) == [user |-> token.user, token |-> NoToken]

\* The answered profile takes the place of the login.  A tab that was logged out
\* in the meantime is logged in by it.
AnswerProfile(s) ==
    /\ call[s].kind = "profile" /\ call[s].stage = "done" /\ call[s].tab # None
    /\ LET t == call[s].tab
           user == Profile(call[s].token)
       IN  /\ Becomes(t, [tab[t] EXCEPT !.isLoggedIn = TRUE, !.isLoading = FALSE, !.current = user],
                      [storage EXCEPT !.present = TRUE, !.current = user], s)
           /\ past' = Mishap(Mishap(past, "profile", TRUE), "switched", ShowsOther(t, user.user))
    /\ UNCHANGED server

\* The app is shown when its settings are there.
AnswerList(s) ==
    /\ call[s].kind = "list" /\ call[s].stage = "done" /\ call[s].tab # None
    /\ tab' = [tab EXCEPT ![call[s].tab].shown = TRUE]
    /\ call' = [call EXCEPT ![s] = NoCall]
    /\ UNCHANGED <<server, storage, past>>

\* An answer that changes nothing, or that nobody is waiting for.
AnswerDone(s) ==
    /\ \/ call[s].kind \in {"app", "logout"} /\ call[s].stage = "done"
       \/ call[s].tab = None /\ call[s].stage \in {"done", "refused", "failed"}
    /\ call' = [call EXCEPT ![s] = NoCall]
    /\ UNCHANGED <<server, storage, tab, past>>

\* Mutant: the result of the failed call is stored.
RestoredResult(s, st) == [present |-> TRUE, current |-> Null, isLogout |-> FALSE]

\* What a failed logout stores: all that was stored as the user, without a
\* token therefore, or null when nothing was.
Restored(s, st) ==
    [present |-> TRUE, current |-> IF call[s].kept THEN Nobody ELSE Null, isLogout |-> FALSE]

\* The store after a logout that failed.
LogoutFailed(r) == [r EXCEPT !.isLoggedIn = TRUE, !.isLoading = FALSE, !.current = Null]

\* The store after a failure of a call other than a logout.
Failed(kind, r) ==
    CASE kind \in {"login", "reset"} -> [LoggedOut EXCEPT !.header = r.header, !.shown = r.shown]
      [] kind = "list" -> [r EXCEPT !.shown = FALSE]
      [] OTHER -> r

AnswerFailed(s) ==
    /\ call[s].stage = "failed" /\ call[s].tab # None
    /\ LET t == call[s].tab
           logout == call[s].kind = "logout"
       IN  /\ IF logout THEN Becomes(t, LogoutFailed(tab[t]), Restored(s, storage), s)
                        ELSE Becomes(t, Failed(call[s].kind, tab[t]), storage, s)
           /\ past' = Mishap(past, "failed", logout)
    /\ UNCHANGED server

\* A call that was not admitted forgets the login and loads the page anew, if
\* there was anything to forget or the token was no token.  A logout still
\* does what it does when it fails, before the page is loaded, unless the
\* token was none.
AnswerRefused(s) ==
    /\ call[s].stage = "refused" /\ call[s].tab # None
    /\ LET t == call[s].tab
           malformed == call[s].token = NoToken
           leaves == storage.present \/ storage.isLogout \/ malformed
           restores == call[s].kind = "logout" /\ ~ malformed
           forgotten == [present |-> FALSE, current |-> Nobody, isLogout |-> FALSE]
           st == IF restores THEN Restored(s, forgotten) ELSE forgotten
       IN  /\ IF leaves THEN Loads(t, st, s)
              ELSE Becomes(t, IF restores THEN LogoutFailed(tab[t])
                              ELSE Failed(call[s].kind, tab[t]), st, s)
           /\ past' = Mishap(past, "failed", restores)
    /\ UNCHANGED server

-----------------------------------------------------------------------------

User ==
    \/ \E t \in Tabs, s \in Slots :
          \/ Reload(t, s)
          \/ \E u \in Users : Login(t, s, u)
          \/ \E u \in Users, l \in 1 .. MaxLinks : ResetPassword(t, s, u, l)
          \/ Request(t, s, "app")
          \/ SaveProfile(t, s)
          \/ Logout(t, s)
    \/ \E u \in Users : ForgetPassword(u)

Server ==
    \/ \E s \in Slots :
          ServeLogin(s) \/ MatchLink(s) \/ ServeReset(s)
            \/ Admit(s) \/ Pull(s) \/ Refuse(s) \/ Fail(s)
    \/ Tick

Answer ==
    \E s \in Slots :
        AnswerLogin(s) \/ AnswerProfile(s) \/ AnswerList(s) \/ AnswerDone(s)
          \/ AnswerFailed(s) \/ AnswerRefused(s)

Next == User \/ Server \/ Answer

Spec == Init /\ [][Next]_vars

-----------------------------------------------------------------------------
(***************************************************************************)
(* Properties.                                                             *)
(***************************************************************************)

\* The app never acts for another user than the one it shows, as long as nobody
\* logs in while a tab shows the app of another, and no tab that was saving a
\* profile is logged in as another before it is answered: the token is read from
\* the localStorage anew for each call, and that of the last call stays otherwise.
ActsAsShown ==
    \A s \in Slots :
        /\ call[s].kind \in {"app", "profile"}
        /\ call[s].token \in Token /\ call[s].user # None
        /\ "switched" \notin past.mishaps
        => call[s].token.user = call[s].user

\* What is stored as the login is good for a call.  It lacks a token only
\* after a profile was saved or a logout has failed; and it is a null, with
\* which no page can make a call again until the localStorage is cleared,
\* only after the logout of a tab that had been left logged in by the logout
\* of another has failed.
StoredLoginIsUsable ==
    storage.present =>
        /\ storage.current.token = NoToken => past.mishaps \cap {"failed", "profile"} # {}
        /\ storage.current = Null => {"failed", "orphaned"} \subseteq past.mishaps

\* A session that a logout has closed admits nothing any more, unless its user
\* has logged in twice within one second: the two logins then share a token.
NoEntryAfterLogout ==
    [][\A s \in Slots :
          call[s].kind \in Calls /\ call[s].stage = "sent"
            /\ call'[s].kind = call[s].kind /\ call'[s].stage \in {"passed", "done"} =>
              call[s].token \notin past.closed \/ call[s].token \in past.again]_vars

\* A link resets a password once, unless it was matched twice before either
\* change was made.
LinkIsUsedOnce ==
    \A l \in 1 .. MaxLinks : past.used[l] > 1 => "late" \in past.mishaps
=============================================================================
