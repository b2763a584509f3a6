---------------------------- MODULE DefaultEntry ----------------------------
(***************************************************************************)
(* The collection of taxes, and that of payment modes, which follow the    *)
(* same protocol: entries are created and updated, never deleted, and one  *)
(* of them is meant to be the default offered in the forms.                *)
(*                                                                         *)
(* A handler changes the flags of the other entries first and those of its *)
(* own entry last, one database operation at a time, so requests in flight *)
(* interleave at every operation (see Ledger for the conventions).         *)
(***************************************************************************)
EXTENDS Naturals, FiniteSets

CONSTANTS
    NEntries,     \* entries are 1..NEntries, in the order of their creation
    NSlots,       \* bound: requests in flight have the slots 1..NSlots
    Unset,        \* a field that the body of a request does not have
    MaxRequests,  \* bound: requests accepted over the whole behaviour
    Failures      \* whether a database operation or the process may fail

ASSUME DefaultEntryAssumption ==
    /\ NEntries \in Nat \ {0}
    /\ NSlots \in Nat
    /\ Unset \notin BOOLEAN
    /\ MaxRequests \in Nat
    /\ Failures \in BOOLEAN

VARIABLES
    entry,        \* the collection
    request,      \* the requests in flight
    accepted,     \* requests accepted so far
    mishaps       \* history: what has gone wrong so far

vars == <<entry, request, accepted, mishaps>>

Entries == 1..NEntries
Slots == 1..NSlots
Field == BOOLEAN \cup {Unset}

EntryDoc == [exists : BOOLEAN, enabled : BOOLEAN, isDefault : BOOLEAN]
Absent == [exists |-> FALSE, enabled |-> FALSE, isDefault |-> FALSE]

\* Requests overlapped; one failed; a creation failed after it cleared the defaults.
Mishaps == {"overlap", "failure", "cleared"}

CreateSteps == {"clear", "count", "insert"}
UpdateSteps == {"promote", "demote", "countAll", "write"}

\* others: what other requests have made default since this one came or, if it clears
\* flags of others, since it did so.
Request == [at : {"idle"} \cup CreateSteps \cup UpdateSteps,
            id : Entries,                            \* the entry to update
            body : [enabled : Field, isDefault : Field],
            chosen : BOOLEAN,  \* create: no default was counted;
                               \* update: the entry is to be enabled and default
            others : SUBSET Entries]  \* history, see above
NoRequest == [at |-> "idle", id |-> 1, body |-> [enabled |-> Unset, isDefault |-> Unset],
              chosen |-> FALSE, others |-> {}]

TypeOK ==
    /\ entry \in [Entries -> EntryDoc]
    /\ request \in [Slots -> Request]
    /\ accepted \in Nat
    /\ mishaps \subseteq Mishaps

\* The setup has inserted one entry, enabled and default.
Init ==
    /\ entry = [e \in Entries |->
                  IF e = 1 THEN [exists |-> TRUE, enabled |-> TRUE, isDefault |-> TRUE]
                           ELSE Absent]
    /\ request = [h \in Slots |-> NoRequest]
    /\ accepted = 0
    /\ mishaps = {}

Existing == {e \in Entries : entry[e].exists}
Defaults == {e \in Entries : entry[e].isDefault}
Enabled == {e \in Entries : entry[e].enabled}
InFlight == {h \in Slots : request[h].at # "idle"}

\* The value of a field of a request whose body may leave it out.
Given(field, default) == IF field = Unset THEN default ELSE field

\* A creation has cleared the defaults and not inserted its own entry yet.
HasCleared(h) == request[h].at \in {"count", "insert"} /\ request[h].body.isDefault = TRUE

-----------------------------------------------------------------------------

\* A request arrives.
Accept(h, r) ==
    /\ accepted < MaxRequests
    /\ request[h].at = "idle"
    /\ \A g \in Slots : g < h => request[g].at # "idle"
    /\ accepted' = accepted + 1
    /\ request' = [request EXCEPT ![h] = r]
    /\ mishaps' = IF InFlight = {} THEN mishaps ELSE mishaps \cup {"overlap"}

\* The step of a request, after which it is r; the others in flight note what it has
\* made default.
Proceed(h, r) ==
    /\ request' = [g \in Slots |->
                     IF g = h THEN r
                     ELSE IF g \in InFlight
                     THEN [request[g] EXCEPT !.others = @ \cup (Defaults' \ Defaults)]
                     ELSE request[g]]
    /\ UNCHANGED <<accepted, mishaps>>

-----------------------------------------------------------------------------
(***************************************************************************)
(* create.                                                                 *)
(***************************************************************************)

\* The creations in flight are bounded by the entries that are left.
ReceiveCreate(h, body) ==
    /\ Cardinality({g \in Slots : request[g].at \in CreateSteps})
         < NEntries - Cardinality(Existing)
    /\ Accept(h, [NoRequest EXCEPT
                    !.at = IF body.isDefault = TRUE THEN "clear" ELSE "count",
                    !.body = body])
    /\ UNCHANGED entry

\* A default entry was asked for: no entry is default any more ...
Clear(h) ==
    /\ request[h].at = "clear"
    /\ entry' = [e \in Entries |-> [entry[e] EXCEPT !.isDefault = FALSE]]
    /\ Proceed(h, [request[h] EXCEPT !.at = "count", !.others = {}])

\* ... the default entries are counted ...
CountDefaults(h) ==
    /\ request[h].at = "count"
    /\ UNCHANGED entry
    /\ Proceed(h, [request[h] EXCEPT !.at = "insert", !.chosen = (Defaults = {})])

\* ... and the new one is default when there was none.
Insert(h, e) ==
    LET r == request[h]
    IN  /\ r.at = "insert"
        /\ ~entry[e].exists
        /\ \A f \in Entries : f < e => entry[f].exists
        /\ entry' = [entry EXCEPT ![e] = [exists |-> TRUE,
                                          enabled |-> Given(r.body.enabled, TRUE),
                                          isDefault |-> r.chosen]]
        /\ Proceed(h, NoRequest)

-----------------------------------------------------------------------------
(***************************************************************************)
(* update.                                                                 *)
(***************************************************************************)

\* The entry is read, for the fields that the body leaves out.
ReadEntry(h, e, body) ==
    LET both == Given(body.isDefault, entry[e].isDefault) /\ Given(body.enabled, entry[e].enabled)
    IN  /\ entry[e].exists
        /\ Accept(h, [NoRequest EXCEPT !.at = IF both THEN "demote" ELSE "promote",
                                       !.id = e, !.body = body, !.chosen = both])
        /\ UNCHANGED entry

\* Mutant: the entry that steps down may be chosen to replace itself.
ReplacementsAny(e) == Enabled

\* The entries that may replace e as the default.
Replacements(e) == Enabled \ {e}

\* The entry is to be disabled or no default: whichever of the others that are
\* enabled the database finds first becomes default, if there is any.
Promote(h) ==
    LET r == request[h]
        others == Replacements(r.id)
    IN  /\ r.at = "promote"
        /\ IF others = {} THEN UNCHANGED entry
           ELSE \E e \in others : entry' = [entry EXCEPT ![e].isDefault = TRUE]
        /\ Proceed(h, [r EXCEPT !.at = "countAll"])

\* Mutant: every other entry is left as it is.
OnlyDefaultNot(e) == entry

\* The collection after no entry but e is default.
OnlyDefault(e) ==
    [f \in Entries |-> IF f = e THEN entry[f] ELSE [entry[f] EXCEPT !.isDefault = FALSE]]

\* The entry is to be enabled and default: no other remains default.
Demote(h) ==
    /\ request[h].at = "demote"
    /\ entry' = OnlyDefault(request[h].id)
    /\ Proceed(h, [request[h] EXCEPT !.at = "countAll", !.others = {}])

\* Mutant: the check for the only entry is off by one.
RefusesNone(r) == ~r.chosen /\ Cardinality(Existing) < 1

\* The only entry there is must stay enabled and default.
Refuses(r) == ~r.chosen /\ Cardinality(Existing) <= 1

CountAll(h) ==
    LET r == request[h]
    IN  /\ r.at = "countAll"
        /\ UNCHANGED entry
        /\ Proceed(h, IF Refuses(r) THEN NoRequest ELSE [r EXCEPT !.at = "write"])

\* Mutant: the flag enabled is lost when the body leaves it out.
WriteEntryBlank(h) ==
    LET r == request[h]
    IN  /\ r.at = "write"
        /\ entry' = [entry EXCEPT ![r.id].enabled = r.body.enabled,
                                  ![r.id].isDefault = Given(r.body.isDefault, @)]
        /\ Proceed(h, NoRequest)

\* The fields of the body are stored; the ones it leaves out stay as they are now.
WriteEntry(h) ==
    LET r == request[h]
    IN  /\ r.at = "write"
        /\ entry' = [entry EXCEPT ![r.id].enabled = Given(r.body.enabled, @),
                                  ![r.id].isDefault = Given(r.body.isDefault, @)]
        /\ Proceed(h, NoRequest)

-----------------------------------------------------------------------------

\* An awaited operation is rejected or the process stops; nothing is undone.
Fail(h) ==
    /\ Failures
    /\ request[h].at # "idle"
    /\ request' = [request EXCEPT ![h] = NoRequest]
    /\ mishaps' = mishaps \cup {"failure"}
                          \cup (IF HasCleared(h) THEN {"cleared"} ELSE {})
    /\ UNCHANGED <<entry, accepted>>

Bodies == [enabled : Field, isDefault : Field]

Next ==
    \E h \in Slots :
        \/ \E body \in Bodies : ReceiveCreate(h, body)
        \/ Clear(h)
        \/ CountDefaults(h)
        \/ \E e \in Entries : Insert(h, e)
        \/ \E e \in Entries, body \in Bodies : ReadEntry(h, e, body)
        \/ Promote(h)
        \/ Demote(h)
        \/ CountAll(h)
        \/ WriteEntry(h)
        \/ Fail(h)

Spec == Init /\ [][Next]_vars

-----------------------------------------------------------------------------
(***************************************************************************)
(* Properties.                                                             *)
(***************************************************************************)

\* While there is a single entry it is the default, whatever requests are in
\* flight on it, unless a creation has cleared the flag and not inserted its own
\* entry yet, or was cut off in between.
\* (the check of taxesController/index.js:62 against the writes at 12 and 70)
OnlyEntryIsDefault ==
    \/ Cardinality(Existing) > 1
    \/ 1 \in Defaults
    \/ \E h \in Slots : HasCleared(h)
    \/ "cleared" \in mishaps

\* Requests served one at a time never leave the forms without a default tax while
\* two or more are enabled: with no default at all, at most one entry is enabled.
\* (taxesController/index.js:15-24 and 50-52)
DefaultAmongSeveral ==
    mishaps = {} /\ InFlight = {} /\ Cardinality(Enabled) > 1 => Defaults # {}

\* However requests overlap and fail, one that asks for the default leaves no entry
\* default but its own and those that others have made default meanwhile: it cleared
\* every flag it found.  It gets the default itself; a creation may go without, but
\* only if another request took the default after it had cleared the flags.
\* (taxesController/index.js:11-24 and 54-72)
DefaultAsRequested ==
    [][\A h \in Slots :
         LET r == request[h]
         IN  /\ WriteEntry(h) /\ r.chosen =>
                  /\ Defaults' \subseteq {r.id} \cup r.others
                  /\ r.body.isDefault = TRUE => r.id \in Defaults'
             /\ \A e \in Entries : Insert(h, e) =>
                  /\ e \in Defaults' => Defaults' \subseteq {e} \cup r.others
                  /\ r.body.isDefault = TRUE => e \in Defaults' \/ r.others # {}]_vars

\* An entry that is to be no default any more, or disabled, is replaced: when the
\* request is done, and no other ran beside it, another entry is default.
\* (taxesController/index.js:48, "if isDefault:false , we update first - isDefault:true")
ReplacedAsDefault ==
    [][\A h \in Slots :
         mishaps = {} /\ WriteEntry(h) /\ ~request[h].chosen =>
            Defaults' \ {request[h].id} # {}]_vars
=============================================================================
