--------------------------- MODULE ServerProcess ---------------------------
(***************************************************************************)
(* The one process of the server, what makes it stop, and what it shares   *)
(* with others: the files that downloads are made in, and the records that *)
(* the setup and reset scripts write beside it.                            *)
(*                                                                         *)
(* A download makes the PDF of a document anew, always in the same file,   *)
(* and sends that file.  An error in a callback, or a rejection that       *)
(* nobody waits for, ends the process and all that it was about to answer. *)
(***************************************************************************)
EXTENDS Naturals, Sequences

CONSTANTS
    Docs,
    Untemplated,  \* those of a kind that has no template, as a client
    Requests,     \* bound: the downloads there may be
    MaxEdits,     \* bound: so often documents are edited
    MaxRuns,      \* bound: so often the scripts are run
    MaxFaults,    \* bound: so many errors and interruptions
    None

ASSUME ServerProcessAssumption ==
    /\ Untemplated \subseteq Docs
    /\ None \notin Docs \cup Requests
    /\ MaxEdits \in Nat /\ MaxRuns \in Nat /\ MaxFaults \in Nat

VARIABLES
    up,       \* whether the process runs
    version,  \* how often each document was edited
    file,     \* the PDF of each document
    req,      \* the downloads
    base,     \* what the scripts write
    script,   \* the script that runs
    past      \* history

files == <<version, file, req>>
scripts == <<base, script>>
vars == <<up, files, scripts, past>>

\* by: who writes or has written the file; None: there is no file.
File == [by : Requests \cup {None}, version : Nat, whole : BOOLEAN]
NoFile == [by |-> None, version |-> 0, whole |-> FALSE]

\* found: the document was read; rendering: the old file is gone; writing: the
\* new one is being written; written; sending.  Then the download has ended:
\* sent, refused with an error before the file was made, answered that the file
\* is missing, lost with the process; or it is silent: nothing more will happen.
\* got: what is sent; linked: it is still the file of the document.
\* disturbed: history, another download got at the file while this one needed it.
Req == [doc : Docs \cup {None}, version : Nat, got : File, linked : BOOLEAN, disturbed : BOOLEAN,
        stage : {"idle", "found", "rendering", "writing", "written", "sending",
                 "sent", "refused", "missing", "lost", "silent"}]

\* admins: the accounts in the order they were made, whether each has a
\* password; how often each setting and each default entry is stored.
Base == [admins : Seq(BOOLEAN), settings : Nat, taxes : Nat, modes : Nat]

\* The next step of a script.
Script == [kind : {"none", "setup", "reset"}, step : 1 .. 6]

\* runs, edits, faults: what is spent of the bounds.  interrupted: a script was
\* stopped halfway.  ready: a setup was started since the last reset; again: the
\* setup was started twice without a reset between.
Past == [runs : Nat, edits : Nat, faults : Nat, interrupted : BOOLEAN, again : BOOLEAN,
         ready : BOOLEAN]

TypeOK ==
    /\ up \in BOOLEAN
    /\ version \in [Docs -> Nat]
    /\ file \in [Docs -> File]
    /\ req \in [Requests -> Req]
    /\ base \in Base
    /\ script \in Script
    /\ past \in Past

Idle == [doc |-> None, version |-> 0, got |-> NoFile, linked |-> FALSE,
         disturbed |-> FALSE, stage |-> "idle"]
Empty == [admins |-> <<>>, settings |-> 0, taxes |-> 0, modes |-> 0]

Init ==
    /\ up = TRUE
    /\ version = [d \in Docs |-> 0]
    /\ file = [d \in Docs |-> NoFile]
    /\ req = [r \in Requests |-> Idle]
    /\ base = Empty
    /\ script = [kind |-> "none", step |-> 1]
    /\ past = [runs |-> 0, edits |-> 0, faults |-> 0, interrupted |-> FALSE, again |-> FALSE,
               ready |-> FALSE]

-----------------------------------------------------------------------------
(***************************************************************************)
(* Downloads.                                                              *)
(***************************************************************************)

UnderWay == {"found", "rendering", "writing", "written", "sending"}

\* The document is read.
Ask(r, d) ==
    /\ up /\ req[r].stage = "idle"
    /\ req' = [req EXCEPT ![r] =
         [Idle EXCEPT !.doc = d, !.version = version[d], !.stage = "found"]]
    /\ UNCHANGED <<up, version, file, scripts, past>>

\* From the moment a download opens the file to write it until it opens it to
\* send it, it needs it to stay what it is.
Needs(q) == req[q].stage \in {"writing", "written"}
Disturbed(q) == req[q].disturbed \/ Needs(q)

\* Mutant: the document is forgotten with its file.
UnlinkedEntry(d) == [e \in Docs \ {d} |-> file[e]]

\* A file that is there is removed, also from under those that send it.
Unlinked(d) == [file EXCEPT ![d] = NoFile]

\* Removed first, whether or not a new one can be made: for a kind without
\* template nothing follows, not even an answer.
Unlink(r) ==
    /\ up /\ req[r].stage = "found"
    /\ LET d == req[r].doc
       IN  /\ file' = Unlinked(d)
           /\ req' = [q \in Requests |->
                IF q = r
                THEN [req[q] EXCEPT !.stage = IF d \in Untemplated THEN "silent" ELSE "rendering"]
                ELSE IF req[q].doc = d
                     THEN [req[q] EXCEPT !.linked = FALSE, !.disturbed = Disturbed(q)]
                ELSE req[q]]
    /\ UNCHANGED <<up, version, scripts, past>>

\* The settings are loaded, the page is rendered, and the writer opens the
\* file: if it is there again, its content is lost for those that send it.
Write(r) ==
    /\ up /\ req[r].stage = "rendering"
    /\ LET d == req[r].doc
       IN  /\ file' = [file EXCEPT ![d] = [by |-> r, version |-> req[r].version, whole |-> FALSE]]
           /\ req' = [q \in Requests |->
                IF q = r THEN [req[q] EXCEPT !.stage = "writing"]
                ELSE IF req[q].doc = d /\ req[q].stage = "sending" /\ req[q].linked
                     THEN [req[q] EXCEPT !.got.whole = FALSE, !.disturbed = TRUE]
                ELSE IF req[q].doc = d THEN [req[q] EXCEPT !.disturbed = Disturbed(q)]
                ELSE req[q]]
    /\ UNCHANGED <<up, version, scripts, past>>

\* Mutant: the callback is called before the file is complete.
FinishedEarly(r) == file

\* The file is complete, unless it has been removed, or another writes it.
Finished(r) ==
    IF file[req[r].doc].by = r THEN [file EXCEPT ![req[r].doc].whole = TRUE] ELSE file

\* Mutant: the callback is not called.
CalledNever == "writing"

Called == "written"

Finish(r) ==
    /\ up /\ req[r].stage = "writing"
    /\ file' = Finished(r)
    /\ req' = [req EXCEPT ![r].stage = Called]
    /\ UNCHANGED <<up, version, scripts, past>>

\* The file is opened and sent, if there is one.
Send(r) ==
    /\ up /\ req[r].stage = "written"
    /\ LET f == file[req[r].doc]
       IN  req' = [req EXCEPT ![r] =
             IF f.by = None THEN [@ EXCEPT !.stage = "missing"]
             ELSE [@ EXCEPT !.stage = "sending", !.got = f, !.linked = TRUE]]
    /\ UNCHANGED <<up, version, file, scripts, past>>

Sent(r) ==
    /\ up /\ req[r].stage = "sending"
    /\ req' = [req EXCEPT ![r].stage = "sent", ![r].linked = FALSE]
    /\ UNCHANGED <<up, version, file, scripts, past>>

Edit(d) ==
    /\ up /\ past.edits < MaxEdits
    /\ version' = [version EXCEPT ![d] = @ + 1]
    /\ past' = [past EXCEPT !.edits = @ + 1]
    /\ UNCHANGED <<up, file, req, scripts>>

\* The settings cannot be loaded, or the page not be rendered.
RenderError(r) ==
    /\ up /\ req[r].stage = "rendering" /\ past.faults < MaxFaults
    /\ req' = [req EXCEPT ![r].stage = "refused"]
    /\ past' = [past EXCEPT !.faults = @ + 1]
    /\ UNCHANGED <<up, version, file, scripts>>

-----------------------------------------------------------------------------
(***************************************************************************)
(* Stops of the process.                                                   *)
(***************************************************************************)

\* All that the process was about to answer is lost.
Stop ==
    /\ up' = FALSE
    /\ req' = [r \in Requests |->
         IF req[r].stage \in UnderWay \cup {"silent"} THEN [Idle EXCEPT !.stage = "lost"]
         ELSE req[r]]
    /\ UNCHANGED <<version, file, scripts>>

\* The writer fails: the callback throws, where nothing catches it.
PdfError(r) ==
    /\ up /\ req[r].stage = "writing" /\ past.faults < MaxFaults
    /\ past' = [past EXCEPT !.faults = @ + 1]
    /\ Stop

\* The file cannot be read on, or the browser goes away, while it is being sent:
\* the callback answers once more, which throws as the headers are out.
SendError(r) ==
    /\ up /\ req[r].stage = "sending" /\ past.faults < MaxFaults
    /\ past' = [past EXCEPT !.faults = @ + 1]
    /\ Stop

\* A login finds the first account of its address, and takes for granted that
\* it has a password, in a call that is not waited for.
FirstHasNoPassword == base.admins # <<>> /\ ~ base.admins[1]

LoginWithoutPassword ==
    /\ up /\ FirstHasNoPassword
    /\ Stop
    /\ UNCHANGED past

Restart ==
    /\ ~ up
    /\ up' = TRUE
    /\ UNCHANGED <<files, scripts, past>>

-----------------------------------------------------------------------------
(***************************************************************************)
(* The scripts.                                                            *)
(***************************************************************************)

RunSetup ==
    /\ script.kind = "none" /\ past.runs < MaxRuns
    /\ script' = [kind |-> "setup", step |-> 1]
    /\ past' = [past EXCEPT !.runs = @ + 1, !.again = @ \/ past.ready, !.ready = TRUE]
    /\ UNCHANGED <<up, files, base>>

RunReset ==
    /\ script.kind = "none" /\ past.runs < MaxRuns
    /\ script' = [kind |-> "reset", step |-> 1]
    /\ past' = [past EXCEPT !.runs = @ + 1, !.ready = FALSE]
    /\ UNCHANGED <<up, files, base>>

\* Account, password, settings, tax and payment mode are stored one by one.
SetupStep(b, n) ==
    CASE n = 1 -> [b EXCEPT !.admins = Append(@, FALSE)]
      [] n = 2 -> [b EXCEPT !.admins[Len(b.admins)] = TRUE]
      [] n = 3 -> [b EXCEPT !.settings = @ + 1]
      [] n = 4 -> [b EXCEPT !.taxes = @ + 1]
      [] n = 5 -> [b EXCEPT !.modes = @ + 1]

\* Mutant: the settings are not removed.
ResetStepKeeps(b, n) ==
    CASE n = 1 -> [b EXCEPT !.admins = <<>>]
      [] n \in {2, 5} -> b
      [] n = 3 -> [b EXCEPT !.modes = 0]
      [] n = 4 -> [b EXCEPT !.taxes = 0]

\* Accounts, passwords, payment modes, taxes and settings are removed.
ResetStep(b, n) ==
    CASE n = 1 -> [b EXCEPT !.admins = <<>>]
      [] n = 2 -> b
      [] n = 3 -> [b EXCEPT !.modes = 0]
      [] n = 4 -> [b EXCEPT !.taxes = 0]
      [] n = 5 -> [b EXCEPT !.settings = 0]

Step ==
    /\ script.kind # "none" /\ script.step < 6
    /\ base' = IF script.kind = "setup" THEN SetupStep(base, script.step)
               ELSE ResetStep(base, script.step)
    /\ script' = [script EXCEPT !.step = @ + 1]
    /\ UNCHANGED <<up, files, past>>

Exit ==
    /\ script.kind # "none" /\ script.step = 6
    /\ script' = [kind |-> "none", step |-> 1]
    /\ UNCHANGED <<up, files, base, past>>

Interrupt ==
    /\ script.kind # "none" /\ past.faults < MaxFaults
    /\ script' = [kind |-> "none", step |-> 1]
    /\ past' = [past EXCEPT !.interrupted = TRUE, !.faults = @ + 1]
    /\ UNCHANGED <<up, files, base>>

-----------------------------------------------------------------------------

Download(r) == Unlink(r) \/ Write(r) \/ Finish(r) \/ Send(r) \/ Sent(r)

Next ==
    \/ \E r \in Requests :
          Download(r) \/ RenderError(r) \/ PdfError(r) \/ SendError(r) \/ \E d \in Docs : Ask(r, d)
    \/ \E d \in Docs : Edit(d)
    \/ LoginWithoutPassword \/ Restart
    \/ RunSetup \/ RunReset \/ Step \/ Exit \/ Interrupt

\* The server works on a download while it runs.  Scripts and users do as they
\* like, and the process may stay down.
Spec == Init /\ [][Next]_vars /\ \A r \in Requests : WF_vars(Download(r))

-----------------------------------------------------------------------------
(***************************************************************************)
(* Properties.                                                             *)
(***************************************************************************)

\* A download sends the whole PDF, of the document as it was when the download
\* began, and finds the file there, however many others of the document overlap with
\* it.  What it cannot stand is that one of them removes or opens the file after it
\* has opened it to write it and before it opens it to send it, or opens it anew
\* while it is being sent; a file that is only removed under the sender is sent whole.
\* (pdfController/index.js:24-79, downloadPdf.js:23-38)
SendsItsDocument ==
    \A r \in Requests :
        req[r].stage \in {"sending", "sent", "missing"} /\ ~ req[r].disturbed =>
            /\ req[r].stage # "missing"
            /\ req[r].got.whole
            /\ req[r].got.version = req[r].version

\* Every download of a document that has a template ends, with the file, with an
\* error or lost with the process.  (One of a kind without template never does.)
DownloadEnds ==
    \A r \in Requests :
        req[r].stage = "found" /\ req[r].doc \notin Untemplated
            ~> req[r].stage \in {"sent", "refused", "missing", "lost"}

\* As long as no script was interrupted, a login can stop the process only at
\* one point of the setup; and once a setup is through, there is one account,
\* with its password, and one of each setting and default entry, unless the
\* setup was started again without a reset.
SetupIsWhole ==
    ~ past.interrupted =>
        /\ FirstHasNoPassword => script = [kind |-> "setup", step |-> 2]
        /\ ~ past.again /\ past.ready /\ script.kind = "none" =>
              base = [admins |-> <<TRUE>>, settings |-> 1, taxes |-> 1, modes |-> 1]
=============================================================================
