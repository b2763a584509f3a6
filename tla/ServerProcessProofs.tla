------------------------ MODULE ServerProcessProofs ------------------------
(***************************************************************************)
(* Theorems about ServerProcess, for all documents, with and without       *)
(* template, and any number of downloads, edits, runs of the scripts and   *)
(* faults.                                                                 *)
(***************************************************************************)
EXTENDS ServerProcess, SequenceTheorems, TLAPS

USE ServerProcessAssumption

-----------------------------------------------------------------------------
(***************************************************************************)
(* Type correctness, and that a download under way is of a document.       *)
(***************************************************************************)

OfADocument == \A r \in Requests : req[r].stage \in UnderWay => req[r].doc \in Docs

TypeInv == TypeOK /\ OfADocument

LEMMA IdleType == Idle \in Req /\ NoFile \in File
BY DEF Idle, NoFile, Req, File

LEMMA InitType == Init => TypeInv
<1> SUFFICES ASSUME Init PROVE TypeInv
  OBVIOUS
<1>1. /\ req \in [Requests -> Req] /\ file \in [Docs -> File]
      /\ \A r \in Requests : req[r].stage = "idle"
  BY IdleType DEF Init, Idle
<1>2. base \in Base /\ script \in Script /\ past \in Past
  BY DEF Init, Base, Empty, Script, Past
<1> QED
  BY <1>1, <1>2 DEF Init, TypeInv, TypeOK, OfADocument, UnderWay

Stages == {"idle", "found", "rendering", "writing", "written", "sending", "sent", "refused",
           "missing", "lost", "silent"}

\* The fields of a download that its next step leaves alone.
SameDownload(p, q) ==
    p.doc = q.doc /\ p.version = q.version /\ (p.disturbed <=> q.disturbed)

\* What a step does to the record of a download.
LEMMA StageStep ==
    ASSUME NEW q \in Req, NEW s \in Stages
    PROVE  /\ [q EXCEPT !.stage = s] \in Req
           /\ [q EXCEPT !.stage = s].stage = s /\ [q EXCEPT !.stage = s].got = q.got
           /\ SameDownload([q EXCEPT !.stage = s], q)
BY DEF Req, Stages, SameDownload

LEMMA SendingStep ==
    ASSUME NEW q \in Req, NEW f \in File
    PROVE  /\ [q EXCEPT !.stage = "sending", !.got = f, !.linked = TRUE] \in Req
           /\ [q EXCEPT !.stage = "sending", !.got = f, !.linked = TRUE].stage = "sending"
           /\ [q EXCEPT !.stage = "sending", !.got = f, !.linked = TRUE].got = f
           /\ SameDownload([q EXCEPT !.stage = "sending", !.got = f, !.linked = TRUE], q)
BY DEF Req, SameDownload

LEMMA SentStep ==
    ASSUME NEW q \in Req
    PROVE  /\ [q EXCEPT !.stage = "sent", !.linked = FALSE] \in Req
           /\ [q EXCEPT !.stage = "sent", !.linked = FALSE].stage = "sent"
           /\ [q EXCEPT !.stage = "sent", !.linked = FALSE].got = q.got
           /\ SameDownload([q EXCEPT !.stage = "sent", !.linked = FALSE], q)
BY DEF Req, SameDownload

\* The file is opened for writing, whether or not that disturbs.
LEMMA OpenedStep ==
    ASSUME NEW q \in Req, NEW b \in BOOLEAN
    PROVE  LET p == [q EXCEPT !.disturbed = b]
           IN  /\ p \in Req /\ p.stage = q.stage /\ p.got = q.got
               /\ p.doc = q.doc /\ p.version = q.version /\ p.disturbed = b
BY DEF Req

\* The content of a file that is being sent is lost.
LEMMA CutStep ==
    ASSUME NEW q \in Req
    PROVE  LET p == [q EXCEPT !.got.whole = FALSE, !.disturbed = TRUE]
           IN  /\ p \in Req /\ p.stage = q.stage /\ p.doc = q.doc /\ p.version = q.version
               /\ p.disturbed
<1>1. q.got \in File
  BY DEF Req
<1>2. [q.got EXCEPT !.whole = FALSE] \in File
  BY <1>1 DEF File
<1> QED
  BY <1>2 DEF Req

-----------------------------------------------------------------------------
(***************************************************************************)
(* Downloads.                                                              *)
(***************************************************************************)

\* What a download that was not disturbed finds in the file of its document.
FileAt(r) ==
    LET q == req[r]
    IN  /\ q.stage = "writing" => file[q.doc].by = r /\ file[q.doc].version = q.version
        /\ q.stage = "written" => /\ file[q.doc].by = r /\ file[q.doc].whole
                                  /\ file[q.doc].version = q.version
        /\ q.stage \in {"sending", "sent"} => q.got.whole /\ q.got.version = q.version
        /\ q.stage # "missing"

FileInv == \A r \in Requests : ~req[r].disturbed => FileAt(r)

DownloadInv == TypeInv /\ FileInv

LEMMA InitDownload == Init => DownloadInv
<1> SUFFICES ASSUME Init PROVE DownloadInv
  OBVIOUS
<1>1. \A r \in Requests : req[r].stage = "idle"
  BY DEF Init, Idle
<1> QED
  BY <1>1, InitType DEF DownloadInv, FileInv, FileAt

\* What has to be shown of a step of download r: no other changes but in what is
\* said of its file, and one that stays undisturbed has got what it had, and finds
\* its file as it was if it still needs it.
LEMMA DownloadKeeps ==
    ASSUME DownloadInv, NEW r \in Requests, req' \in [Requests -> Req],
           file' \in [Docs -> File], UNCHANGED <<up, version, base, script>>, past' \in Past,
           req'[r].doc \in Docs \/ req'[r].stage \notin UnderWay,
           req'[r].disturbed \/ FileAt(r)',
           \A q \in Requests \ {r} :
              /\ req'[q].stage = req[q].stage /\ req'[q].doc = req[q].doc
              /\ req'[q].version = req[q].version
              /\ \/ req'[q].disturbed
                 \/ /\ ~req[q].disturbed /\ req'[q].got = req[q].got
                    /\ Needs(q) => file'[req[q].doc] = file[req[q].doc]
    PROVE  DownloadInv'
<1>1. TypeInv'
  BY DEF DownloadInv, TypeInv, TypeOK, OfADocument
<1>2. FileInv'
  <2> SUFFICES ASSUME NEW q \in Requests, q # r, ~req'[q].disturbed PROVE FileAt(q)'
    BY DEF FileInv
  <2>1. FileAt(q)
    BY DEF DownloadInv, FileInv
  <2>2. /\ req'[q].stage = req[q].stage /\ req'[q].doc = req[q].doc
        /\ req'[q].version = req[q].version /\ req'[q].got = req[q].got
        /\ Needs(q) => file'[req[q].doc] = file[req[q].doc]
    OBVIOUS
  <2> QED
    BY <2>1, <2>2 DEF FileAt, Needs
<1> QED
  BY <1>1, <1>2 DEF DownloadInv

LEMMA AskDownload ==
    ASSUME DownloadInv, NEW r \in Requests, NEW d \in Docs, Ask(r, d)
    PROVE  DownloadInv'
<1> DEFINE new == [Idle EXCEPT !.doc = d, !.version = version[d], !.stage = "found"]
<1>1. new \in Req /\ new.doc = d /\ new.stage = "found"
  BY IdleType DEF Req, Idle, DownloadInv, TypeInv, TypeOK
<1>2. req' = [req EXCEPT ![r] = new] /\ file' = file /\ req \in [Requests -> Req]
  BY DEF Ask, DownloadInv, TypeInv, TypeOK
<1> HIDE DEF new
<1>3. /\ req' \in [Requests -> Req] /\ req'[r] = new
      /\ \A q \in Requests \ {r} : req'[q] = req[q]
  BY <1>1, <1>2
<1>4. FileAt(r)'
  BY <1>1, <1>3 DEF FileAt
<1>5. /\ UNCHANGED <<up, version, base, script>> /\ past' \in Past
      /\ file' \in [Docs -> File]
  BY DEF Ask, scripts, DownloadInv, TypeInv, TypeOK
<1> QED
  BY <1>1, <1>2, <1>3, <1>4, <1>5, DownloadKeeps

-----------------------------------------------------------------------------

LEMMA UnlinkDownload ==
    ASSUME DownloadInv, NEW r \in Requests, Unlink(r)
    PROVE  DownloadInv'
<1> DEFINE d == req[r].doc
           s == IF d \in Untemplated THEN "silent" ELSE "rendering"
<1>1. /\ req[r].stage = "found" /\ d \in Docs /\ req \in [Requests -> Req]
      /\ file \in [Docs -> File]
  BY DEF Unlink, DownloadInv, TypeInv, TypeOK, OfADocument, UnderWay
<1>2. file' \in [Docs -> File] /\ \A e \in Docs \ {d} : file'[e] = file[e]
  BY <1>1, IdleType DEF Unlink, Unlinked
<1>3. req'[r] = [req[r] EXCEPT !.stage = s]
  BY <1>1 DEF Unlink
<1>4. /\ \A q \in Requests \ {r} :
           req'[q] = IF req[q].doc = d
                     THEN [req[q] EXCEPT !.linked = FALSE, !.disturbed = Disturbed(q)]
                     ELSE req[q]
      /\ req' = [q \in Requests |-> req'[q]]
  BY <1>1 DEF Unlink
<1>5. req'[r] \in Req /\ SameDownload(req'[r], req[r]) /\ req'[r].stage = s
  <2>1. s \in Stages /\ req[r] \in Req
    BY <1>1 DEF Stages
  <2> HIDE DEF s
  <2> QED
    BY <1>3, <2>1, StageStep
<1>6. ASSUME NEW q \in Requests \ {r}
      PROVE  /\ req'[q] \in Req /\ req'[q].stage = req[q].stage /\ req'[q].doc = req[q].doc
             /\ req'[q].version = req[q].version
             /\ \/ req'[q].disturbed
                \/ /\ ~req[q].disturbed /\ req'[q].got = req[q].got
                   /\ Needs(q) => file'[req[q].doc] = file[req[q].doc]
  <2>1. req[q] \in Req /\ Disturbed(q) \in BOOLEAN
    BY <1>1 DEF Disturbed
  <2>2. ~Disturbed(q) => ~req[q].disturbed /\ ~Needs(q)
    BY DEF Disturbed
  <2>3. CASE req[q].doc = d
    <3>1. req'[q] = [req[q] EXCEPT !.linked = FALSE, !.disturbed = Disturbed(q)]
      BY <1>4, <2>3
    <3>2. /\ req'[q] \in Req /\ req'[q].stage = req[q].stage /\ req'[q].got = req[q].got
          /\ req'[q].doc = req[q].doc /\ req'[q].version = req[q].version
          /\ req'[q].disturbed = Disturbed(q)
      <4> DEFINE b == Disturbed(q)
                 p == [req[q] EXCEPT !.linked = FALSE, !.disturbed = b]
      <4>1. req'[q] = p
        BY <3>1
      <4>2. b \in BOOLEAN
        BY <2>1
      <4>3. req[q] \in Req
        BY <2>1
      <4> HIDE DEF b
      <4>4. /\ p \in Req /\ p.stage = req[q].stage /\ p.got = req[q].got
            /\ p.doc = req[q].doc /\ p.version = req[q].version /\ p.disturbed = b
        BY <4>3, <4>2 DEF Req
      <4> HIDE DEF p
      <4>5. req'[q].disturbed = b
        BY <4>1, <4>4
      <4> QED
        BY <4>1, <4>4, <4>5 DEF b
    <3> QED
      BY <2>2, <3>2
  <2>4. CASE req[q].doc # d
    <3>1. req'[q] = req[q]
      BY <1>4, <2>4
    <3>2. Needs(q) => req[q].doc \in Docs
      BY DEF Needs, DownloadInv, TypeInv, OfADocument, UnderWay
    <3> QED
      BY <1>2, <2>1, <2>4, <3>1, <3>2
  <2> QED
    BY <2>3, <2>4
<1>7. req' \in [Requests -> Req]
  BY <1>4, <1>5, <1>6
<1>8. FileAt(r)' /\ req'[r].doc \in Docs
  BY <1>1, <1>5 DEF FileAt, SameDownload
<1>9. UNCHANGED <<up, version, base, script>> /\ past' \in Past
  BY DEF Unlink, scripts, DownloadInv, TypeInv, TypeOK
<1> QED
  BY <1>2, <1>6, <1>7, <1>8, <1>9, DownloadKeeps

LEMMA WriteDownload ==
    ASSUME DownloadInv, NEW r \in Requests, Write(r)
    PROVE  DownloadInv'
<1> DEFINE d == req[r].doc
           f == [by |-> r, version |-> req[r].version, whole |-> FALSE]
           cut(q) == req[q].doc = d /\ req[q].stage = "sending" /\ req[q].linked
<1>1. /\ req[r].stage = "rendering" /\ d \in Docs /\ req \in [Requests -> Req]
      /\ file \in [Docs -> File]
  BY DEF Write, DownloadInv, TypeInv, TypeOK, OfADocument, UnderWay
<1>2. f \in File
  BY <1>1 DEF File, Req
<1>3. /\ file' = [file EXCEPT ![d] = f] /\ file' \in [Docs -> File] /\ file'[d] = f
      /\ \A e \in Docs \ {d} : file'[e] = file[e]
  BY <1>1, <1>2 DEF Write
<1>4. req'[r] = [req[r] EXCEPT !.stage = "writing"]
  BY <1>1 DEF Write
<1>5. /\ req' = [q \in Requests |-> req'[q]]
      /\ \A q \in Requests \ {r} :
           req'[q] = IF cut(q) THEN [req[q] EXCEPT !.got.whole = FALSE, !.disturbed = TRUE]
                     ELSE IF req[q].doc = d THEN [req[q] EXCEPT !.disturbed = Disturbed(q)]
                     ELSE req[q]
  BY <1>1 DEF Write
<1>6. req'[r] \in Req /\ SameDownload(req'[r], req[r]) /\ req'[r].stage = "writing"
  <2>1. req[r] \in Req /\ "writing" \in Stages
    BY <1>1 DEF Stages
  <2> QED
    BY <1>4, <2>1, StageStep
<1>7. ASSUME NEW q \in Requests \ {r}
      PROVE  /\ req'[q] \in Req /\ req'[q].stage = req[q].stage /\ req'[q].doc = req[q].doc
             /\ req'[q].version = req[q].version
             /\ \/ req'[q].disturbed
                \/ /\ ~req[q].disturbed /\ req'[q].got = req[q].got
                   /\ Needs(q) => file'[req[q].doc] = file[req[q].doc]
  <2>1. req[q] \in Req /\ Disturbed(q) \in BOOLEAN
    BY <1>1 DEF Disturbed
  <2>2. ~Disturbed(q) => ~req[q].disturbed /\ ~Needs(q)
    BY DEF Disturbed
  <2>3. CASE cut(q)
    <3>1. req'[q] = [req[q] EXCEPT !.got.whole = FALSE, !.disturbed = TRUE]
      BY <1>5, <2>3
    <3> QED
      BY <2>1, <3>1, CutStep
  <2>4. CASE ~cut(q) /\ req[q].doc = d
    <3>1. req'[q] = [req[q] EXCEPT !.disturbed = Disturbed(q)]
      BY <1>5, <2>4
    <3>2. /\ req'[q] \in Req /\ req'[q].stage = req[q].stage /\ req'[q].got = req[q].got
          /\ req'[q].doc = req[q].doc /\ req'[q].version = req[q].version
          /\ req'[q].disturbed = Disturbed(q)
      BY <2>1, <3>1, OpenedStep
    <3> QED
      BY <2>2, <3>2
  <2>5. CASE req[q].doc # d
    <3>1. req'[q] = req[q]
      BY <1>5, <2>5
    <3>2. Needs(q) => req[q].doc \in Docs
      BY DEF Needs, DownloadInv, TypeInv, OfADocument, UnderWay
    <3> QED
      BY <1>3, <2>1, <2>5, <3>1, <3>2
  <2> QED
    BY <2>3, <2>4, <2>5
<1>8. req' \in [Requests -> Req]
  BY <1>5, <1>6, <1>7
<1>9. FileAt(r)' /\ req'[r].doc \in Docs
  BY <1>1, <1>3, <1>6 DEF FileAt, SameDownload
<1>10. UNCHANGED <<up, version, base, script>> /\ past' \in Past
  BY DEF Write, scripts, DownloadInv, TypeInv, TypeOK
<1> QED
  BY <1>3, <1>7, <1>8, <1>9, <1>10, DownloadKeeps

\* A step of download r that touches no other record, nor a file that another
\* download needs.
LEMMA OwnStep ==
    ASSUME DownloadInv, NEW r \in Requests, req[r].stage \in UnderWay, NEW q \in Req,
           req' = [req EXCEPT ![r] = q], SameDownload(q, req[r]),
           file' \in [Docs -> File],
           \A d \in Docs : file'[d] = file[d] \/ file[d].by = r,
           UNCHANGED <<up, version, base, script>>, past' \in Past,
           req[r].disturbed \/ FileAt(r)'
    PROVE  DownloadInv'
<1>1. /\ req'[r] = q /\ req' \in [Requests -> Req] /\ req[r].doc \in Docs
      /\ \A p \in Requests \ {r} : req'[p] = req[p]
  BY DEF DownloadInv, TypeInv, TypeOK, OfADocument
<1>2. ASSUME NEW p \in Requests \ {r}, ~req[p].disturbed, Needs(p)
      PROVE  file'[req[p].doc] = file[req[p].doc]
  <2>1. req[p].doc \in Docs /\ file[req[p].doc].by = p
    BY <1>2 DEF Needs, DownloadInv, TypeInv, OfADocument, UnderWay, FileInv, FileAt
  <2> QED
    BY <2>1
<1>3. q.doc \in Docs /\ (req'[r].disturbed \/ FileAt(r)')
  BY <1>1 DEF SameDownload
<1>4. ASSUME NEW p \in Requests \ {r}
      PROVE  /\ req'[p].stage = req[p].stage /\ req'[p].doc = req[p].doc
             /\ req'[p].version = req[p].version
             /\ \/ req'[p].disturbed
                \/ /\ ~req[p].disturbed /\ req'[p].got = req[p].got
                   /\ Needs(p) => file'[req[p].doc] = file[req[p].doc]
  BY <1>1, <1>2
<1> QED
  BY <1>1, <1>3, <1>4, DownloadKeeps

LEMMA FinishDownload ==
    ASSUME DownloadInv, NEW r \in Requests, Finish(r)
    PROVE  DownloadInv'
<1> DEFINE d == req[r].doc
           q == [req[r] EXCEPT !.stage = "written"]
<1>1. /\ req[r].stage = "writing" /\ d \in Docs /\ req[r] \in Req
      /\ file \in [Docs -> File] /\ file[d] \in File
  BY DEF Finish, DownloadInv, TypeInv, TypeOK, OfADocument, UnderWay
<1>2. q \in Req /\ q.stage = "written" /\ SameDownload(q, req[r])
  BY <1>1, StageStep DEF Stages
<1>3. req' = [req EXCEPT ![r] = q] /\ req'[r] = q
  BY DEF Finish, Called, DownloadInv, TypeInv, TypeOK
<1> HIDE DEF q
<1>4. /\ file' \in [Docs -> File] /\ \A e \in Docs : file'[e] = file[e] \/ file[e].by = r
      /\ file[d].by = r => /\ file'[d].whole /\ file'[d].by = r
                           /\ file'[d].version = file[d].version
  <2>1. CASE file[d].by = r
    <3>1. file' = [file EXCEPT ![d].whole = TRUE]
      BY <2>1 DEF Finish, Finished
    <3>2. /\ file' \in [Docs -> File] /\ \A e \in Docs \ {d} : file'[e] = file[e]
          /\ file'[d].whole /\ file'[d].by = r /\ file'[d].version = file[d].version
      BY <1>1, <2>1, <3>1 DEF File
    <3> QED
      BY <2>1, <3>2
  <2>2. CASE file[d].by # r
    BY <1>1, <2>2 DEF Finish, Finished
  <2> QED
    BY <2>1, <2>2
<1>5. ~req[r].disturbed => FileAt(r)'
  <2>1. ~req[r].disturbed => file[d].by = r /\ file[d].version = req[r].version
    BY <1>1 DEF DownloadInv, FileInv, FileAt
  <2> QED
    BY <1>2, <1>3, <1>4, <2>1 DEF FileAt, SameDownload
<1>6. UNCHANGED <<up, version, base, script>> /\ past' \in Past
  BY DEF Finish, scripts, DownloadInv, TypeInv, TypeOK
<1>7. req[r].stage \in UnderWay
  BY <1>1 DEF UnderWay
<1> QED
  BY <1>2, <1>3, <1>4, <1>5, <1>6, <1>7, OwnStep

LEMMA SendDownload ==
    ASSUME DownloadInv, NEW r \in Requests, Send(r)
    PROVE  DownloadInv'
<1> DEFINE d == req[r].doc
           f == file[d]
<1>1. /\ req[r].stage = "written" /\ d \in Docs /\ req[r] \in Req /\ f \in File
  BY DEF Send, DownloadInv, TypeInv, TypeOK, OfADocument, UnderWay
<1>2. /\ UNCHANGED <<up, version, base, script>> /\ past' \in Past
      /\ file' \in [Docs -> File] /\ file' = file
      /\ req[r].stage \in UnderWay
  BY <1>1 DEF Send, scripts, DownloadInv, TypeInv, TypeOK, UnderWay
<1>3. ~req[r].disturbed => f.by = r /\ f.whole /\ f.version = req[r].version
  BY <1>1 DEF DownloadInv, FileInv, FileAt
<1>4. CASE f.by = None
  <2> DEFINE q == [req[r] EXCEPT !.stage = "missing"]
  <2>1. q \in Req /\ SameDownload(q, req[r])
    BY <1>1, StageStep DEF Stages
  <2>2. req' = [req EXCEPT ![r] = q]
    BY <1>4 DEF Send
  <2>3. req[r].disturbed
    BY <1>3, <1>4
  <2> QED
    BY <1>2, <2>1, <2>2, <2>3, OwnStep
<1>5. CASE f.by # None
  <2> DEFINE q == [req[r] EXCEPT !.stage = "sending", !.got = f, !.linked = TRUE]
  <2>1. q \in Req /\ SameDownload(q, req[r]) /\ q.stage = "sending" /\ q.got = f
    BY <1>1, SendingStep
  <2>2. req' = [req EXCEPT ![r] = q] /\ req'[r] = q
    BY <1>5 DEF Send, DownloadInv, TypeInv, TypeOK
  <2> HIDE DEF q
  <2>3. req[r].disturbed \/ FileAt(r)'
    BY <1>3, <2>1, <2>2 DEF FileAt, SameDownload
  <2> QED
    BY <1>2, <2>1, <2>2, <2>3, OwnStep
<1> QED
  BY <1>4, <1>5

LEMMA SentDownload ==
    ASSUME DownloadInv, NEW r \in Requests, Sent(r)
    PROVE  DownloadInv'
<1> DEFINE q == [req[r] EXCEPT !.stage = "sent", !.linked = FALSE]
<1>1. req[r].stage = "sending" /\ req[r] \in Req
  BY DEF Sent, DownloadInv, TypeInv, TypeOK
<1>2. q \in Req /\ q.stage = "sent" /\ q.got = req[r].got /\ SameDownload(q, req[r])
  BY <1>1, SentStep
<1>3. req' = [req EXCEPT ![r] = q] /\ req'[r] = q
  BY DEF Sent, DownloadInv, TypeInv, TypeOK
<1> HIDE DEF q
<1>4. req[r].disturbed \/ FileAt(r)'
  BY <1>1, <1>2, <1>3 DEF DownloadInv, FileInv, FileAt, SameDownload
<1>5. /\ UNCHANGED <<up, version, base, script>> /\ past' \in Past
      /\ file' \in [Docs -> File] /\ file' = file
      /\ req[r].stage \in UnderWay
  BY <1>1 DEF Sent, scripts, DownloadInv, TypeInv, TypeOK, UnderWay
<1> QED
  BY <1>2, <1>3, <1>4, <1>5, OwnStep

LEMMA RenderErrorDownload ==
    ASSUME DownloadInv, NEW r \in Requests, RenderError(r)
    PROVE  DownloadInv'
<1> DEFINE q == [req[r] EXCEPT !.stage = "refused"]
<1>1. req[r].stage = "rendering" /\ req[r] \in Req
  BY DEF RenderError, DownloadInv, TypeInv, TypeOK
<1>2. q \in Req /\ q.stage = "refused" /\ SameDownload(q, req[r])
  BY <1>1, StageStep DEF Stages
<1>3. req' = [req EXCEPT ![r] = q] /\ req'[r] = q
  BY DEF RenderError, DownloadInv, TypeInv, TypeOK
<1> HIDE DEF q
<1>4. FileAt(r)'
  BY <1>2, <1>3 DEF FileAt
<1>5. /\ UNCHANGED <<up, version, base, script>> /\ past' \in Past
      /\ file' \in [Docs -> File] /\ file' = file
      /\ req[r].stage \in UnderWay
  BY <1>1 DEF RenderError, scripts, DownloadInv, TypeInv, TypeOK, UnderWay, Past
<1> QED
  BY <1>2, <1>3, <1>4, <1>5, OwnStep

\* The process stops: the downloads under way are lost, what was sent stays sent.
LEMMA StopDownload ==
    ASSUME DownloadInv, Stop, past' \in Past
    PROVE  DownloadInv'
<1>1. \A r \in Requests :
        \/ req'[r] = req[r] /\ req[r].stage \notin UnderWay
        \/ req'[r] = [Idle EXCEPT !.stage = "lost"]
  BY DEF Stop
<1>2. /\ [Idle EXCEPT !.stage = "lost"] \in Req
      /\ [Idle EXCEPT !.stage = "lost"].stage = "lost"
  BY IdleType, StageStep DEF Stages
<1>3. \A r \in Requests : req'[r].stage \notin UnderWay
  BY <1>1, <1>2 DEF UnderWay
<1>4. req' \in [Requests -> Req]
  <2>1. \A r \in Requests : req'[r] \in Req
    BY <1>1, <1>2 DEF DownloadInv, TypeInv, TypeOK
  <2> QED
    BY <2>1 DEF Stop
<1>5. TypeInv'
  BY <1>3, <1>4 DEF Stop, scripts, DownloadInv, TypeInv, TypeOK, OfADocument
<1>6. FileInv'
  <2> SUFFICES ASSUME NEW r \in Requests, ~req'[r].disturbed PROVE FileAt(r)'
    BY DEF FileInv
  <2>1. CASE req'[r] = req[r] /\ req[r].stage \notin UnderWay
    BY <2>1 DEF DownloadInv, FileInv, FileAt, UnderWay
  <2>2. CASE req'[r] = [Idle EXCEPT !.stage = "lost"]
    BY <1>2, <2>2 DEF FileAt
  <2> QED
    BY <1>1, <2>1, <2>2
<1> QED
  BY <1>5, <1>6 DEF DownloadInv

LEMMA EditDownload ==
    ASSUME DownloadInv, NEW d \in Docs, Edit(d)
    PROVE  DownloadInv'
<1>1. version' \in [Docs -> Nat] /\ past' \in Past
  BY DEF Edit, DownloadInv, TypeInv, TypeOK, Past
<1>2. UNCHANGED <<up, file, req, base, script>>
  BY DEF Edit, scripts
<1> QED
  BY <1>1, <1>2 DEF DownloadInv, TypeInv, TypeOK, OfADocument, FileInv, FileAt

\* A step of a script or of the environment leaves the downloads as they are.
LEMMA FilesKept ==
    ASSUME DownloadInv, UNCHANGED files, up' \in BOOLEAN, base' \in Base, script' \in Script,
           past' \in Past
    PROVE  DownloadInv'
BY DEF files, DownloadInv, TypeInv, TypeOK, OfADocument, FileInv, FileAt

-----------------------------------------------------------------------------
(***************************************************************************)
(* The scripts.                                                            *)
(***************************************************************************)

\* The flags of the accounts while the setup is at step n: one account, which has
\* its password once the second step is done.
AdminsAt(n) ==
    IF n = 1 THEN base.admins = <<>>
    ELSE Len(base.admins) = 1 /\ IF n > 2 THEN base.admins[1] ELSE ~base.admins[1]

\* How many of an entry are stored at step n, if step m stores one.
Count(n, m) == IF n > m THEN 1 ELSE 0

\* How far a script that was not interrupted has come.
ProgressInv ==
    LET n == script.step
    IN  CASE script.kind = "none" ->
               IF past.ready
               THEN AdminsAt(6) /\ base.settings = 1 /\ base.taxes = 1 /\ base.modes = 1
               ELSE base = Empty
          [] script.kind = "setup" ->
               /\ past.ready /\ AdminsAt(n)
               /\ base.settings = Count(n, 3)
               /\ base.taxes = Count(n, 4) /\ base.modes = Count(n, 5)
          [] script.kind = "reset" ->
               /\ ~past.ready
               /\ n > 1 => base.admins = <<>>
               /\ n > 3 => base.modes = 0
               /\ n > 4 => base.taxes = 0
               /\ n > 5 => base.settings = 0

\* Every account has its password, but for the last one at the second step.
PasswordInv ==
    \A i \in 1 .. Len(base.admins) :
        base.admins[i] \/ (i = Len(base.admins) /\ script = [kind |-> "setup", step |-> 2])

SetupInv == ~past.interrupted => PasswordInv /\ (~past.again => ProgressInv)

LEMMA InitSetup == Init => SetupInv
BY DEF Init, SetupInv, PasswordInv, ProgressInv, Empty

LEMMA ScriptUnchanged ==
    ASSUME SetupInv, UNCHANGED scripts, past'.interrupted = past.interrupted,
           past'.again = past.again, past'.ready = past.ready
    PROVE  SetupInv'
<1>1. base' = base /\ script' = script
  BY DEF scripts
<1>2. PasswordInv => PasswordInv'
  BY <1>1 DEF PasswordInv
<1>3. ProgressInv => ProgressInv'
  BY <1>1 DEF ProgressInv, AdminsAt
<1> QED
  BY <1>2, <1>3 DEF SetupInv

\* The sequence of accounts after the first two steps of the setup.
LEMMA AppendOne ==
    ASSUME NEW S, NEW s \in Seq(S), NEW e \in S
    PROVE  /\ Append(s, e) \in Seq(S) /\ Len(Append(s, e)) = Len(s) + 1
           /\ \A i \in 1 .. Len(s) : Append(s, e)[i] = s[i]
           /\ Append(s, e)[Len(s) + 1] = e
BY AppendProperties, LenProperties

LEMMA ReplaceLast ==
    ASSUME NEW S, NEW s \in Seq(S), NEW e \in S
    PROVE  /\ [s EXCEPT ![Len(s)] = e] \in Seq(S)
           /\ Len([s EXCEPT ![Len(s)] = e]) = Len(s)
           /\ \A i \in 1 .. Len(s) :
                [s EXCEPT ![Len(s)] = e][i] = IF i = Len(s) THEN e ELSE s[i]
<1>1. Len(s) \in Nat /\ DOMAIN s = 1 .. Len(s)
  BY LenProperties
<1>2. CASE Len(s) = 0
  <2>1. [s EXCEPT ![Len(s)] = e] = s
    BY <1>1, <1>2
  <2>2. \A i \in 1 .. Len(s) : FALSE
    BY <1>2
  <2> QED
    BY <2>1, <2>2
<1>3. CASE Len(s) # 0
  <2>1. Len(s) \in 1 .. Len(s)
    BY <1>1, <1>3
  <2> QED
    BY <2>1, ExceptSeq
<1> QED
  BY <1>2, <1>3

\* The accounts after the first and after the second step of the setup.
AccountAdded(s) == Append(s, FALSE)
PasswordAdded(s) == [s EXCEPT ![Len(s)] = TRUE]

LEMMA AccountsType ==
    ASSUME NEW s \in Seq(BOOLEAN)
    PROVE  AccountAdded(s) \in Seq(BOOLEAN) /\ PasswordAdded(s) \in Seq(BOOLEAN)
<1> DEFINE B == BOOLEAN
<1>1. s \in Seq(B) /\ FALSE \in B /\ TRUE \in B
  OBVIOUS
<1> HIDE DEF B
<1>2. Append(s, FALSE) \in Seq(B) /\ [s EXCEPT ![Len(s)] = TRUE] \in Seq(B)
  BY <1>1, AppendOne, ReplaceLast
<1> QED
  BY <1>2 DEF B, AccountAdded, PasswordAdded

\* What each step of the scripts stores.
LEMMA SetupSteps ==
    ASSUME NEW b \in Base
    PROVE  /\ SetupStep(b, 1) = [b EXCEPT !.admins = AccountAdded(b.admins)]
           /\ SetupStep(b, 2) = [b EXCEPT !.admins = PasswordAdded(b.admins)]
           /\ SetupStep(b, 3) = [b EXCEPT !.settings = b.settings + 1]
           /\ SetupStep(b, 4) = [b EXCEPT !.taxes = b.taxes + 1]
           /\ SetupStep(b, 5) = [b EXCEPT !.modes = b.modes + 1]
<1>1. SetupStep(b, 1) = [b EXCEPT !.admins = AccountAdded(b.admins)]
  BY DEF SetupStep, AccountAdded, Base
<1>2. SetupStep(b, 2) = [b EXCEPT !.admins = PasswordAdded(b.admins)]
  BY DEF SetupStep, PasswordAdded, Base
<1>3. /\ SetupStep(b, 3) = [b EXCEPT !.settings = b.settings + 1]
      /\ SetupStep(b, 4) = [b EXCEPT !.taxes = b.taxes + 1]
      /\ SetupStep(b, 5) = [b EXCEPT !.modes = b.modes + 1]
  BY DEF SetupStep, Base
<1> QED
  BY <1>1, <1>2, <1>3

LEMMA ResetSteps ==
    ASSUME NEW b \in Base
    PROVE  /\ ResetStep(b, 1) = [b EXCEPT !.admins = <<>>]
           /\ ResetStep(b, 2) = b
           /\ ResetStep(b, 3) = [b EXCEPT !.modes = 0]
           /\ ResetStep(b, 4) = [b EXCEPT !.taxes = 0]
           /\ ResetStep(b, 5) = [b EXCEPT !.settings = 0]
BY DEF ResetStep, Base

\* The same, with the accounts of any type.
SomeBase(A) == [admins : A, settings : Nat, taxes : Nat, modes : Nat]

\* The fields before and after a step of the setup.
LEMMA SetupFields ==
    ASSUME NEW b \in Base, NEW n \in 1 .. 5
    PROVE  /\ SetupStep(b, n) \in Base
           /\ n = 1 => SetupStep(b, n).admins = AccountAdded(b.admins)
           /\ n = 2 => SetupStep(b, n).admins = PasswordAdded(b.admins)
           /\ n > 2 => SetupStep(b, n).admins = b.admins
           /\ SetupStep(b, n).settings = IF n = 3 THEN b.settings + 1 ELSE b.settings
           /\ SetupStep(b, n).taxes = IF n = 4 THEN b.taxes + 1 ELSE b.taxes
           /\ SetupStep(b, n).modes = IF n = 5 THEN b.modes + 1 ELSE b.modes
<1> DEFINE A == Seq(BOOLEAN)
<1>1. Base = SomeBase(A) /\ (b.admins \in A =>
        AccountAdded(b.admins) \in A /\ PasswordAdded(b.admins) \in A)
  BY AccountsType DEF Base, SomeBase
<1> HIDE DEF A
<1>2. /\ b \in SomeBase(A) /\ AccountAdded(b.admins) \in A /\ PasswordAdded(b.admins) \in A
      /\ b.settings + 1 \in Nat /\ b.taxes + 1 \in Nat /\ b.modes + 1 \in Nat
  BY <1>1 DEF SomeBase
<1>3. CASE n = 1
  <2>1. SetupStep(b, n) = [b EXCEPT !.admins = AccountAdded(b.admins)]
    BY <1>3, SetupSteps
  <2> QED
    BY <1>1, <1>2, <1>3, <2>1 DEF SomeBase
<1>4. CASE n = 2
  <2>1. SetupStep(b, n) = [b EXCEPT !.admins = PasswordAdded(b.admins)]
    BY <1>4, SetupSteps
  <2> QED
    BY <1>1, <1>2, <1>4, <2>1 DEF SomeBase
<1>5. CASE n = 3
  <2>1. SetupStep(b, n) = [b EXCEPT !.settings = b.settings + 1]
    BY <1>5, SetupSteps
  <2> QED
    BY <1>1, <1>2, <1>5, <2>1 DEF SomeBase
<1>6. CASE n = 4
  <2>1. SetupStep(b, n) = [b EXCEPT !.taxes = b.taxes + 1]
    BY <1>6, SetupSteps
  <2> QED
    BY <1>1, <1>2, <1>6, <2>1 DEF SomeBase
<1>7. CASE n = 5
  <2>1. SetupStep(b, n) = [b EXCEPT !.modes = b.modes + 1]
    BY <1>7, SetupSteps
  <2> QED
    BY <1>1, <1>2, <1>7, <2>1 DEF SomeBase
<1> QED
  BY <1>3, <1>4, <1>5, <1>6, <1>7

\* The fields before and after a step of the reset.
LEMMA ResetFields ==
    ASSUME NEW b \in Base, NEW n \in 1 .. 5
    PROVE  /\ ResetStep(b, n) \in Base
           /\ ResetStep(b, n).admins = IF n = 1 THEN <<>> ELSE b.admins
           /\ ResetStep(b, n).modes = IF n = 3 THEN 0 ELSE b.modes
           /\ ResetStep(b, n).taxes = IF n = 4 THEN 0 ELSE b.taxes
           /\ ResetStep(b, n).settings = IF n = 5 THEN 0 ELSE b.settings
<1> DEFINE A == Seq(BOOLEAN)
<1>1. Base = SomeBase(A) /\ <<>> \in A
  BY EmptySeq DEF Base, SomeBase
<1> HIDE DEF A
<1>2. b \in SomeBase(A)
  BY <1>1
<1>3. CASE n = 1
  <2>1. ResetStep(b, n) = [b EXCEPT !.admins = <<>>]
    BY <1>3, ResetSteps
  <2> QED
    BY <1>1, <1>2, <1>3, <2>1 DEF SomeBase
<1>4. CASE n = 2
  BY <1>1, <1>2, <1>4, ResetSteps
<1>5. CASE n = 3
  <2>1. ResetStep(b, n) = [b EXCEPT !.modes = 0]
    BY <1>5, ResetSteps
  <2> QED
    BY <1>1, <1>2, <1>5, <2>1 DEF SomeBase
<1>6. CASE n = 4
  <2>1. ResetStep(b, n) = [b EXCEPT !.taxes = 0]
    BY <1>6, ResetSteps
  <2> QED
    BY <1>1, <1>2, <1>6, <2>1 DEF SomeBase
<1>7. CASE n = 5
  <2>1. ResetStep(b, n) = [b EXCEPT !.settings = 0]
    BY <1>7, ResetSteps
  <2> QED
    BY <1>1, <1>2, <1>7, <2>1 DEF SomeBase
<1> QED
  BY <1>3, <1>4, <1>5, <1>6, <1>7

\* Accounts and their passwords across the first two steps of the setup.
LEMMA AccountMade ==
    ASSUME NEW s \in Seq(BOOLEAN), \A i \in 1 .. Len(s) : s[i]
    PROVE  /\ Len(AccountAdded(s)) = Len(s) + 1
           /\ \A i \in 1 .. Len(s) + 1 : AccountAdded(s)[i] \/ i = Len(s) + 1
           /\ ~AccountAdded(s)[Len(s) + 1]
<1> DEFINE B == BOOLEAN
           e == FALSE
<1>1. s \in Seq(B) /\ e \in B /\ Len(s) \in Nat /\ AccountAdded(s) = Append(s, e)
  BY LenProperties DEF AccountAdded
<1> HIDE DEF B, e
<1>2. /\ Len(AccountAdded(s)) = Len(s) + 1
      /\ \A i \in 1 .. Len(s) : AccountAdded(s)[i] = s[i]
      /\ AccountAdded(s)[Len(s) + 1] = e
  BY <1>1, AppendOne
<1>3. \A i \in 1 .. Len(s) + 1 : i \in 1 .. Len(s) \/ i = Len(s) + 1
  BY <1>1
<1> QED
  BY <1>2, <1>3 DEF e

LEMMA PasswordMade ==
    ASSUME NEW s \in Seq(BOOLEAN), \A i \in 1 .. Len(s) : s[i] \/ i = Len(s)
    PROVE  /\ Len(PasswordAdded(s)) = Len(s)
           /\ \A i \in 1 .. Len(s) : PasswordAdded(s)[i]
<1> DEFINE B == BOOLEAN
           e == TRUE
<1>1. s \in Seq(B) /\ e \in B /\ PasswordAdded(s) = [s EXCEPT ![Len(s)] = e]
  BY DEF PasswordAdded
<1> HIDE DEF B, e
<1>2. /\ Len(PasswordAdded(s)) = Len(s)
      /\ \A i \in 1 .. Len(s) :
           /\ i = Len(s) => PasswordAdded(s)[i] = e
           /\ i # Len(s) => PasswordAdded(s)[i] = s[i]
  BY <1>1, ReplaceLast
<1> QED
  BY <1>2 DEF e

LEMMA RunSetupSetup ==
    ASSUME DownloadInv, SetupInv, RunSetup
    PROVE  SetupInv'
<1>1. /\ script.kind = "none" /\ script' = [kind |-> "setup", step |-> 1] /\ base' = base
      /\ past'.interrupted = past.interrupted /\ past'.ready
      /\ past'.again <=> past.again \/ past.ready
  BY DEF RunSetup, DownloadInv, TypeInv, TypeOK, Past
<1>2. PasswordInv => PasswordInv'
  BY <1>1 DEF PasswordInv
<1>3. ~past.ready /\ ProgressInv => ProgressInv'
  BY <1>1 DEF ProgressInv, AdminsAt, Empty, Count
<1> QED
  BY <1>1, <1>2, <1>3 DEF SetupInv

LEMMA RunResetSetup ==
    ASSUME DownloadInv, SetupInv, RunReset
    PROVE  SetupInv'
<1>1. /\ script.kind = "none" /\ script' = [kind |-> "reset", step |-> 1] /\ base' = base
      /\ past'.interrupted = past.interrupted /\ ~past'.ready /\ past'.again = past.again
  BY DEF RunReset, DownloadInv, TypeInv, TypeOK, Past
<1>2. PasswordInv => PasswordInv'
  BY <1>1 DEF PasswordInv
<1>3. ProgressInv'
  BY <1>1 DEF ProgressInv
<1> QED
  BY <1>1, <1>2, <1>3 DEF SetupInv

\* A step of a script, as its kind and its number tell.
LEMMA StepChange ==
    ASSUME DownloadInv, Step
    PROVE  /\ base \in Base /\ base' \in Base /\ script' \in Script
           /\ script.step \in 1 .. 5 /\ script'.step = script.step + 1
           /\ script'.kind = script.kind /\ UNCHANGED past
           /\ \/ script.kind = "setup" /\ base' = SetupStep(base, script.step)
              \/ script.kind = "reset" /\ base' = ResetStep(base, script.step)
<1>1. base \in Base /\ script \in Script /\ script.step \in 1 .. 5
  BY DEF Step, DownloadInv, TypeInv, TypeOK, Script
<1>2. /\ script' \in Script /\ script'.step = script.step + 1
      /\ script'.kind = script.kind /\ UNCHANGED past
  BY <1>1 DEF Step, Script
<1>3. \/ script.kind = "setup" /\ base' = SetupStep(base, script.step)
      \/ script.kind = "reset" /\ base' = ResetStep(base, script.step)
  BY <1>1 DEF Step, Script
<1> QED
  BY <1>1, <1>2, <1>3, SetupFields, ResetFields

LEMMA SetupStepSetup ==
    ASSUME DownloadInv, SetupInv, Step, script.kind = "setup"
    PROVE  SetupInv'
<1> DEFINE n == script.step
           s == base.admins
<1>1. /\ base \in Base /\ n \in 1 .. 5 /\ script'.step = n + 1 /\ script'.kind = "setup"
      /\ base' = SetupStep(base, n) /\ UNCHANGED past /\ script' \in Script
  BY StepChange
<1>2. s \in Seq(BOOLEAN) /\ Len(s) \in Nat
  BY <1>1, LenProperties DEF Base
<1>3. script = [kind |-> "setup", step |-> n]
  BY DEF DownloadInv, TypeInv, TypeOK, Script
<1>4. CASE n = 1
  <2>1. base'.admins = AccountAdded(s)
    BY <1>1, <1>4, SetupFields
  <2>2. PasswordInv => \A i \in 1 .. Len(s) : s[i]
    BY <1>3, <1>4 DEF PasswordInv
  <2>3. script' = [kind |-> "setup", step |-> 2]
    BY <1>1, <1>4 DEF Script
  <2>4. PasswordInv => PasswordInv'
    BY <1>2, <2>1, <2>2, <2>3, AccountMade DEF PasswordInv
  <2>5. PasswordInv /\ AdminsAt(1) => AdminsAt(2)'
    <3> SUFFICES ASSUME PasswordInv, s = <<>> PROVE AdminsAt(2)'
      BY DEF AdminsAt
    <3>1. Len(s) + 1 = 1
      OBVIOUS
    <3>2. Len(AccountAdded(s)) = Len(s) + 1 /\ ~AccountAdded(s)[Len(s) + 1]
      BY <1>2, <2>2, AccountMade
    <3> QED
      BY <2>1, <3>1, <3>2 DEF AdminsAt
  <2> QED
    BY <1>1, <1>4, <2>4, <2>5, SetupFields DEF SetupInv, ProgressInv, Count
<1>5. CASE n = 2
  <2>1. base'.admins = PasswordAdded(s)
    BY <1>1, <1>5, SetupFields
  <2>2. PasswordInv => \A i \in 1 .. Len(s) : s[i] \/ i = Len(s)
    BY DEF PasswordInv
  <2>3. PasswordInv => PasswordInv'
    BY <1>2, <2>1, <2>2, PasswordMade DEF PasswordInv
  <2>4. PasswordInv /\ AdminsAt(2) => AdminsAt(3)'
    BY <1>2, <2>1, <2>2, PasswordMade DEF AdminsAt
  <2> QED
    BY <1>1, <1>5, <2>3, <2>4, SetupFields DEF SetupInv, ProgressInv, Count
<1>6. CASE n \in 3 .. 5
  <2>1. base'.admins = s
    BY <1>1, <1>6, SetupFields
  <2>2. PasswordInv => PasswordInv'
    BY <1>3, <1>6, <2>1 DEF PasswordInv
  <2>3. AdminsAt(n) => AdminsAt(n)'
    <3>1. n > 2 /\ n' > 2
      BY <1>1, <1>6
    <3> QED
      BY <2>1, <3>1 DEF AdminsAt
  <2> QED
    BY <1>1, <1>6, <2>2, <2>3, SetupFields DEF SetupInv, ProgressInv, Count
<1> QED
  BY <1>1, <1>4, <1>5, <1>6

LEMMA ResetStepSetup ==
    ASSUME DownloadInv, SetupInv, Step, script.kind = "reset"
    PROVE  SetupInv'
<1> DEFINE n == script.step
<1>1. /\ base \in Base /\ n \in 1 .. 5 /\ script'.step = n + 1 /\ script'.kind = "reset"
      /\ base' = ResetStep(base, n) /\ UNCHANGED past
  BY StepChange
<1>2. /\ base'.admins = IF n = 1 THEN <<>> ELSE base.admins
      /\ base'.modes = IF n = 3 THEN 0 ELSE base.modes
      /\ base'.taxes = IF n = 4 THEN 0 ELSE base.taxes
      /\ base'.settings = IF n = 5 THEN 0 ELSE base.settings
  BY <1>1, ResetFields
<1>3. base'.admins = base.admins \/ base'.admins = <<>>
  BY <1>2
<1>4. script # [kind |-> "setup", step |-> 2]
  OBVIOUS
<1>5. PasswordInv => PasswordInv'
  BY <1>3, <1>4 DEF PasswordInv
<1>6. ProgressInv => ProgressInv'
  BY <1>1, <1>2 DEF ProgressInv
<1> QED
  BY <1>1, <1>5, <1>6 DEF SetupInv

\* Nothing of the base is forgotten when a reset is through.
LEMMA ExitSetup ==
    ASSUME DownloadInv, SetupInv, Exit
    PROVE  SetupInv'
<1>1. /\ script.kind \in {"setup", "reset"} /\ script.step = 6 /\ base \in Base
      /\ script' = [kind |-> "none", step |-> 1] /\ base' = base /\ past' = past
      /\ past.ready \in BOOLEAN
  BY DEF Exit, DownloadInv, TypeInv, TypeOK, Script, Past
<1>2. PasswordInv => PasswordInv'
  BY <1>1 DEF PasswordInv
<1>3. ProgressInv => ProgressInv'
  <2>1. CASE script.kind = "setup"
    BY <1>1, <2>1 DEF ProgressInv, AdminsAt, Count
  <2>2. CASE script.kind = "reset"
    BY <1>1, <2>2 DEF ProgressInv, Base, Empty
  <2> QED
    BY <1>1, <2>1, <2>2
<1> QED
  BY <1>1, <1>2, <1>3 DEF SetupInv

-----------------------------------------------------------------------------
(***************************************************************************)
(* Every step, and the theorems.                                           *)
(***************************************************************************)

IInv == DownloadInv /\ SetupInv

\* Downloads, users and the process itself do not touch what the scripts write.
LEMMA ServerStep ==
    ASSUME IInv,
           \/ \E r \in Requests : Download(r) \/ RenderError(r) \/ PdfError(r) \/ SendError(r)
                                \/ \E d \in Docs : Ask(r, d)
           \/ \E d \in Docs : Edit(d)
           \/ LoginWithoutPassword \/ Restart
    PROVE  /\ UNCHANGED scripts /\ past'.interrupted = past.interrupted
           /\ past'.again = past.again /\ past'.ready = past.ready /\ past' \in Past
           /\ past' = past \/ past' = [past EXCEPT !.faults = @ + 1] \/ past' = [past EXCEPT !.edits = @ + 1]
<1>1. past \in Past
  BY DEF IInv, DownloadInv, TypeInv, TypeOK
<1>2. /\ UNCHANGED scripts
      /\ past' = past \/ past' = [past EXCEPT !.faults = @ + 1] \/ past' = [past EXCEPT !.edits = @ + 1]
  BY DEF Download, Unlink, Write, Finish, Send, Sent, RenderError, PdfError, SendError, Stop, Ask, Edit,
         LoginWithoutPassword, Restart
<1> QED
  BY <1>1, <1>2 DEF Past

\* The scripts keep the history in its form.
LEMMA RunHistory ==
    ASSUME NEW p \in Past
    PROVE  /\ [p EXCEPT !.runs = @ + 1, !.again = @ \/ p.ready, !.ready = TRUE] \in Past
           /\ [p EXCEPT !.runs = @ + 1, !.ready = FALSE] \in Past
           /\ [p EXCEPT !.interrupted = TRUE, !.faults = @ + 1] \in Past
<1>1. /\ p.runs + 1 \in Nat /\ p.faults + 1 \in Nat /\ p.again \in BOOLEAN /\ p.ready \in BOOLEAN
      /\ (p.again \/ p.ready) \in BOOLEAN
  BY DEF Past
<1> QED
  BY <1>1 DEF Past

LEMMA NextDownload == IInv /\ [Next]_vars => DownloadInv'
<1> SUFFICES ASSUME IInv, [Next]_vars PROVE DownloadInv'
  OBVIOUS
<1>0. DownloadInv /\ past \in Past /\ base \in Base /\ script \in Script /\ up \in BOOLEAN
  BY DEF IInv, DownloadInv, TypeInv, TypeOK
<1>1. CASE \E r \in Requests : Download(r) \/ RenderError(r) \/ \E d \in Docs : Ask(r, d)
  BY <1>0, <1>1, UnlinkDownload, WriteDownload, FinishDownload, SendDownload, SentDownload,
     RenderErrorDownload, AskDownload DEF Download
<1>2. CASE LoginWithoutPassword \/ \E r \in Requests : PdfError(r) \/ SendError(r)
  <2>1. Stop /\ past' \in Past
    BY <1>2, ServerStep DEF LoginWithoutPassword, PdfError, SendError
  <2> QED
    BY <1>0, <2>1, StopDownload
<1>3. CASE \E d \in Docs : Edit(d)
  BY <1>0, <1>3, EditDownload
<1>4. CASE Restart
  BY <1>0, <1>4, FilesKept DEF Restart, scripts
<1>5. CASE RunSetup \/ RunReset
  <2>1. script' \in Script
    BY <1>5 DEF RunSetup, RunReset, Script
  <2>2. past' \in Past
    BY <1>0, <1>5, RunHistory DEF RunSetup, RunReset
  <2> QED
    BY <1>0, <1>5, <2>1, <2>2, FilesKept DEF RunSetup, RunReset
<1>6. CASE Step
  BY <1>0, <1>6, StepChange, FilesKept DEF Step
<1>7. CASE Exit \/ Interrupt
  <2>1. script' \in Script
    BY <1>7 DEF Exit, Interrupt, Script
  <2>2. past' \in Past
    BY <1>0, <1>7, RunHistory DEF Exit, Interrupt
  <2> QED
    BY <1>0, <1>7, <2>1, <2>2, FilesKept DEF Exit, Interrupt
<1>8. CASE UNCHANGED vars
  BY <1>0, <1>8, FilesKept DEF vars, scripts
<1> QED
  BY <1>1, <1>2, <1>3, <1>4, <1>5, <1>6, <1>7, <1>8 DEF Next

LEMMA NextSetup == IInv /\ [Next]_vars => SetupInv'
<1> SUFFICES ASSUME IInv, [Next]_vars PROVE SetupInv'
  OBVIOUS
<1>0. DownloadInv /\ SetupInv
  BY DEF IInv
<1>1. CASE \/ \E r \in Requests :
                 Download(r) \/ RenderError(r) \/ PdfError(r) \/ SendError(r)
                 \/ \E d \in Docs : Ask(r, d)
           \/ \E d \in Docs : Edit(d)
           \/ LoginWithoutPassword \/ Restart
  <2>1. /\ UNCHANGED scripts /\ past'.interrupted = past.interrupted
        /\ past'.again = past.again /\ past'.ready = past.ready
    BY <1>1, ServerStep
  <2> QED
    BY <1>0, <2>1, ScriptUnchanged
<1>2. CASE RunSetup
  BY <1>0, <1>2, RunSetupSetup
<1>3. CASE RunReset
  BY <1>0, <1>3, RunResetSetup
<1>4. CASE Step
  BY <1>0, <1>4, SetupStepSetup, ResetStepSetup, StepChange
<1>5. CASE Exit
  BY <1>0, <1>5, ExitSetup
<1>6. CASE Interrupt
  <2>1. past'.interrupted
    BY <1>0, <1>6 DEF Interrupt, DownloadInv, TypeInv, TypeOK, Past
  <2> QED
    BY <2>1 DEF SetupInv
<1>7. CASE UNCHANGED vars
  BY <1>0, <1>7, ScriptUnchanged DEF vars
<1> QED
  BY <1>1, <1>2, <1>3, <1>4, <1>5, <1>6, <1>7 DEF Next

\* The state of downloads, files and scripts is what the invariant says, always.
THEOREM Invariant == Spec => []IInv
<1>1. Init => IInv
  BY InitDownload, InitSetup DEF IInv
<1>2. IInv /\ [Next]_vars => IInv'
  BY NextDownload, NextSetup DEF IInv
<1> QED
  BY <1>1, <1>2, PTL DEF Spec

\* Downloads, files and what the scripts write keep their form, whatever stops the
\* process or a script.
THEOREM TypeCorrect == Spec => []TypeOK
<1>1. IInv => TypeOK
  BY DEF IInv, DownloadInv, TypeInv
<1> QED
  BY <1>1, Invariant, PTL

\* generatePdf removes the file, writes it and sends it in callbacks, with nothing
\* that keeps two downloads of one document apart.  A download nevertheless sends the
\* whole file, of the document as it was when it was read, and never answers that
\* there is none, unless another one removed or opened the file while it needed it:
\* however many others there are, whatever is edited meanwhile or stopped halfway with
\* the process, and even if the file is removed while it is being sent.
THEOREM DownloadCorrect == Spec => []SendsItsDocument
<1>1. IInv => SendsItsDocument
  BY DEF IInv, DownloadInv, FileInv, FileAt, SendsItsDocument
<1> QED
  BY <1>1, Invariant, PTL

\* A setup that was not interrupted, and not started twice without a reset, leaves
\* one account with its password and one of each setting and default entry; and a
\* login can meet an account without password, which stops the process, only while
\* a setup is between its first two steps.
THEOREM SetupCorrect == Spec => []SetupIsWhole
<1>1. IInv => SetupIsWhole
  <2> SUFFICES ASSUME IInv, ~past.interrupted PROVE SetupIsWhole
    BY DEF SetupIsWhole
  <2>1. base \in Base /\ base.admins \in Seq(BOOLEAN) /\ Len(base.admins) \in Nat
    BY LenProperties DEF IInv, DownloadInv, TypeInv, TypeOK, Base
  <2>2. FirstHasNoPassword => script = [kind |-> "setup", step |-> 2]
    <3>1. base.admins # <<>> => 1 \in 1 .. Len(base.admins)
      BY <2>1, EmptySeq
    <3> QED
      BY <3>1 DEF FirstHasNoPassword, IInv, SetupInv, PasswordInv
  <2>3. ASSUME ~past.again, past.ready, script.kind = "none"
        PROVE  base = [admins |-> <<TRUE>>, settings |-> 1, taxes |-> 1, modes |-> 1]
    <3>1. /\ Len(base.admins) = 1 /\ base.admins[1]
          /\ base.settings = 1 /\ base.taxes = 1 /\ base.modes = 1
      BY <2>3 DEF IInv, SetupInv, ProgressInv, AdminsAt
    <3>2. base.admins = <<TRUE>>
      <4>1. /\ <<TRUE>> \in Seq(BOOLEAN) /\ Len(<<TRUE>>) = 1 /\ <<TRUE>>[1] = TRUE
        OBVIOUS
      <4>2. \A i \in 1 .. 1 : i = 1
        OBVIOUS
      <4>3. base.admins[1] = TRUE
        <5>1. 1 \in DOMAIN base.admins
          BY <2>1, <3>1, LenProperties
        <5>2. base.admins[1] \in BOOLEAN
          BY <2>1, <3>1, ElementOfSeq
        <5> QED
          BY <3>1, <5>2
      <4> QED
        BY <2>1, <3>1, <4>1, <4>2, <4>3, SeqEqual
    <3> QED
      BY <2>1, <3>1, <3>2 DEF Base
  <2> QED
    BY <2>2, <2>3 DEF SetupIsWhole
<1> QED
  BY <1>1, Invariant, PTL
=============================================================================
