--------------------------- MODULE CollectionProofs ---------------------------
(***************************************************************************)
(* Theorems about MonthCollection and ReportSession, for any vendors,      *)
(* mail and sales, any number of reports, and any number of stages, faults *)
(* and clicks.                                                             *)
(***************************************************************************)
EXTENDS MonthCollection, ReportSession, FiniteSetTheorems, TLAPS

USE SessionBounds, CollectionShape

-----------------------------------------------------------------------------
(***************************************************************************)
(* A set of natural numbers has a least one: of the intervals 0..n that    *)
(* end in it, one has none of the others inside it.                        *)
(***************************************************************************)
LEMMA LeastNumber ==
    ASSUME NEW T, T \subseteq Nat, T # {}
    PROVE  \E x \in T : \A y \in T : x <= y
<1> DEFINE Up == {0..n : n \in T}
<1> DEFINE R == StrictSubsetOrdering(Nat)
<1>1. Up \subseteq FiniteSubsetsOf(Nat) /\ Up # {}
  <2>1. ASSUME NEW n \in T PROVE IsFiniteSet(0..n) /\ 0..n \in SUBSET Nat
    <3>1. n \in Nat
      OBVIOUS
    <3> QED  BY <3>1, FS_Interval
  <2>2. ASSUME NEW n \in T PROVE 0..n \in FiniteSubsetsOf(Nat)
    BY <2>1 DEF FiniteSubsetsOf
  <2>3. Up # {}
    <3>1. PICK n \in T : TRUE
      OBVIOUS
    <3>2. 0..n \in Up
      OBVIOUS
    <3> HIDE DEF Up
    <3> QED  BY <3>2
  <2> QED  BY <2>2, <2>3
<1>2. IsWellFoundedOn(R, FiniteSubsetsOf(Nat))
  BY FS_StrictSubsetOrderingWellFounded
<1>3. \E u \in Up : \A w \in Up : <<w, u>> \notin R
  <2> HIDE DEF Up, R
  <2> QED  BY <1>1, <1>2, WFMin
<1>4. PICK x \in T : \A y \in T : <<0..y, 0..x>> \notin R
  BY <1>3
<1>5. ASSUME NEW y \in T, y < x PROVE FALSE
  <2>1. 0..y \subseteq 0..x /\ 0..y \in SUBSET Nat /\ 0..x \in SUBSET Nat
    BY <1>5
  <2>2. x \in 0..x /\ x \notin 0..y
    BY <1>5
  <2> QED  BY <1>4, <2>1, <2>2 DEF StrictSubsetOrdering
<1> QED  BY <1>5

-----------------------------------------------------------------------------
(***************************************************************************)
(* The browser session.  While the operator has not used Go and no answer  *)
(* was left behind, the page shown, the report captures are filed under    *)
(* and the one the loop is at are the same, and what is on its way from    *)
(* the page to a file belongs to the report it is filed under              *)
(* (fakturownia_reports.py:700).                                           *)
(***************************************************************************)
Quiet == cookie = None /\ ~late

QuietInv ==
    Quiet => /\ shown = active /\ active = current
             /\ \A i \in 1..Len(events) : events[i] = shown
             /\ \A i \in 1..Len(captured) : captured[i].under = captured[i].of

SessionInv ==
    SessionTypeOK /\ QuietInv /\ QuietSessionFilesEach /\ SavedIsHandedOver

\* Where the loop goes on to the next report there is one, the first of those
\* that are open (fakturownia_reports.py:750).
LEMMA NextReport ==
    ASSUME SessionTypeOK, NEW open, open \subseteq Report, open # {}
    PROVE  (CHOOSE r \in open : \A q \in open : r <= q) \in Report
<1>1. open \subseteq Nat
  BY DEF Report
<1>2. \E r \in open : \A q \in open : r <= q
  BY <1>1, LeastNumber
<1> QED  BY <1>2

LEMMA NoReport == None \notin Report
BY DEF None, Report

LEMMA SessionInitHolds == SessionInit => SessionInv
<1> SUFFICES ASSUME SessionInit PROVE SessionInv
  OBVIOUS
<1> USE DEF SessionInit, Report, None
<1>1. SessionTypeOK
  <2>1. events \in Seq(Report) /\ captured \in Seq([under : Report, of : Report])
    OBVIOUS
  <2>2. 1 \in 1..Reports /\ 0 \in 0..MaxAnswers /\ 0 \in 0..MaxClicks
    OBVIOUS
  <2> QED  BY <2>1, <2>2 DEF SessionTypeOK
<1>2. QuietInv
  BY DEF QuietInv, Quiet
<1>3. QuietSessionFilesEach /\ SavedIsHandedOver
  BY DEF QuietSessionFilesEach, SavedIsHandedOver
<1> QED  BY <1>1, <1>2, <1>3 DEF SessionInv

\* The head and the rest of a list belong where the list does.
LEMMA ListParts ==
    ASSUME NEW S, NEW l \in Seq(S), l # << >>
    PROVE  /\ Head(l) \in S /\ Tail(l) \in Seq(S)
           /\ Head(l) = l[1] /\ 1 \in 1..Len(l) /\ Len(l) \in Nat
           /\ Len(Tail(l)) = Len(l) - 1
           /\ \A i \in 1..Len(Tail(l)) : /\ Tail(l)[i] = l[i + 1]
                                         /\ i + 1 \in 1..Len(l)
OBVIOUS

\* Something appended is the last of the list, and the others are as before.
LEMMA ListLonger ==
    ASSUME NEW S, NEW l \in Seq(S), NEW x \in S
    PROVE  /\ Append(l, x) \in Seq(S) /\ Len(l) \in Nat
           /\ Len(Append(l, x)) = Len(l) + 1
           /\ \A i \in 1..Len(Append(l, x)) :
                 Append(l, x)[i] = IF i \in 1..Len(l) THEN l[i] ELSE x
OBVIOUS

LEMMA SessionType ==
    SessionTypeOK /\ [SessionNext]_sessionVars => SessionTypeOK'
<1> SUFFICES ASSUME SessionTypeOK, [SessionNext]_sessionVars
             PROVE  SessionTypeOK'
  OBVIOUS
<1> USE DEF SessionTypeOK, pageVars, loopVars, bounds
<1>1. CASE Answer
  BY <1>1, ListLonger DEF Answer
<1>2. CASE Listen
  <2>1. Head(events) \in Report /\ Tail(events) \in Seq(Report)
    BY <1>2, ListParts DEF Listen
  <2>2. [under |-> active, of |-> Head(events)] \in [under : Report, of : Report]
    BY <2>1
  <2> QED  BY <1>2, <2>1, <2>2, ListLonger DEF Listen
<1>3. CASE Click
  BY <1>3 DEF Click
<1>4. CASE PressDone
  BY <1>4 DEF PressDone
<1>5. CASE ReadActive
  BY <1>5 DEF ReadActive
<1>6. CASE Navigate
  <2> DEFINE open == {r \in Report : Open(r)}
  <2> DEFINE next == CHOOSE r \in open : \A q \in open : r <= q
  <2>1. open # {} => next \in Report
    BY NextReport
  <2>2. current' \in Report /\ active' \in Report /\ shown' \in Report
        /\ late' \in BOOLEAN
    <3>1. CASE Open(current) \/ open = {}
      BY <1>6, <3>1 DEF Navigate
    <3>2. CASE ~(Open(current) \/ open = {})
      <4>1. /\ current' = next /\ active' = next /\ shown' = next
            /\ late' = (late \/ events # << >>)
        BY <1>6, <3>2 DEF Navigate
      <4> QED  BY <2>1, <3>2, <4>1
    <3> QED  BY <3>1, <3>2
  <2> QED  BY <1>6, <2>2 DEF Navigate
<1>7. CASE Fetch
  <2>1. CASE captured = << >>
    BY <1>7, <2>1 DEF Fetch
  <2>2. CASE captured # << >>
    <3>1. /\ Head(captured) \in [under : Report, of : Report]
          /\ Tail(captured) \in Seq([under : Report, of : Report])
      BY <2>2, ListParts
    <3>2. saved' \in [Report -> Report \cup {None}]
      BY <1>7, <2>2, <3>1 DEF Fetch
    <3> QED  BY <1>7, <2>2, <3>1, <3>2 DEF Fetch
  <2> QED  BY <2>1, <2>2
<1>8. CASE MarkDone
  BY <1>8 DEF MarkDone
<1>9. CASE ReadSkips
  BY <1>9 DEF ReadSkips
<1>10. CASE ReadDone
  BY <1>10 DEF ReadDone
<1>11. CASE CloseBrowser
  BY <1>11 DEF CloseBrowser
<1>12. CASE UNCHANGED sessionVars
  BY <1>12 DEF sessionVars
<1> QED
  BY <1>1, <1>2, <1>3, <1>4, <1>5, <1>6, <1>7, <1>8, <1>9, <1>10, <1>11, <1>12
  DEF SessionNext, Poll

\* Go sets the cookie for good, and an answer left behind is not forgotten: a
\* session that is quiet was so before.
LEMMA QuietSteps ==
    ASSUME SessionTypeOK, SessionInv, [SessionNext]_sessionVars, Quiet'
    PROVE  QuietInv' /\ QuietSessionFilesEach'
<1> USE DEF Quiet, pageVars, loopVars, bounds
<1>0. /\ QuietInv /\ QuietSessionFilesEach /\ SessionTypeOK
      /\ events \in Seq(Report) /\ captured \in Seq([under : Report, of : Report])
      /\ shown \in Report /\ active \in Report /\ current \in Report
      /\ saved \in [Report -> Report \cup {None}]
  BY DEF SessionInv, SessionTypeOK
<1> DEFINE Same == /\ shown = active /\ active = current
           Shown == \A i \in 1..Len(events) : events[i] = shown
           Filed == \A i \in 1..Len(captured) :
                        captured[i].under = captured[i].of
           Own == \A r \in Report : saved[r] \in {r, None}
<1>a. Quiet => Same /\ Shown /\ Filed /\ Own
  BY <1>0 DEF QuietInv, QuietSessionFilesEach
<1>z. (Same /\ Shown /\ Filed /\ Own)' => QuietInv' /\ QuietSessionFilesEach'
  BY DEF QuietInv, QuietSessionFilesEach
<1>1. CASE Answer
  <2>1. Same /\ Shown /\ Filed /\ Own
    BY <1>a, <1>1 DEF Answer
  <2>2. Shown'
    <3>1. events' = Append(events, shown) /\ shown' = shown
      BY <1>1 DEF Answer
    <3>2. /\ Len(Append(events, shown)) = Len(events) + 1
          /\ \A i \in 1..Len(Append(events, shown)) :
                Append(events, shown)[i] =
                    IF i \in 1..Len(events) THEN events[i] ELSE shown
      BY <1>0, ListLonger
    <3> QED  BY <2>1, <3>1, <3>2
  <2> QED  BY <1>1, <1>z, <2>1, <2>2 DEF Answer
<1>2. CASE Listen
  <2>1. Same /\ Shown /\ Filed /\ Own
    BY <1>a, <1>2 DEF Listen
  <2> DEFINE new == [under |-> active, of |-> Head(events)]
  <2>2. /\ events # << >> /\ events' = Tail(events) /\ shown' = shown
        /\ captured' = Append(captured, new)
    BY <1>2 DEF Listen
  <2>3. /\ Head(events) = events[1] /\ 1 \in 1..Len(events)
        /\ Head(events) \in Report
        /\ \A i \in 1..Len(Tail(events)) : /\ Tail(events)[i] = events[i + 1]
                                           /\ i + 1 \in 1..Len(events)
    BY <1>0, <2>2, ListParts
  <2>4. new \in [under : Report, of : Report] /\ new.under = new.of
    BY <1>0, <2>1, <2>3
  <2>5. Shown'
    BY <2>1, <2>2, <2>3
  <2>6. Filed'
    <3> HIDE DEF new
    <3>1. /\ Len(Append(captured, new)) = Len(captured) + 1
          /\ \A i \in 1..Len(Append(captured, new)) :
                Append(captured, new)[i] =
                    IF i \in 1..Len(captured) THEN captured[i] ELSE new
      BY <1>0, <2>4, ListLonger
    <3> QED  BY <2>1, <2>2, <2>4, <3>1
  <2> QED  BY <1>2, <1>z, <2>1, <2>5, <2>6 DEF Listen
<1>3. CASE Click
  <2>1. cookie' = cookie
    BY <1>3, NoReport DEF Click
  <2>2. shown' = shown
    BY <1>3, <2>1, NoReport DEF Click
  <2> QED  BY <1>3, <1>a, <1>z, <2>1, <2>2 DEF Click
<1>4. CASE PressDone
  BY <1>4, <1>a, <1>z DEF PressDone
<1>5. CASE ReadActive
  BY <1>5, <1>a, <1>z DEF ReadActive
<1>6. CASE Navigate
  <2> DEFINE open == {r \in Report : Open(r)}
  <2> DEFINE next == CHOOSE r \in open : \A q \in open : r <= q
  <2>1. CASE Open(current) \/ open = {}
    BY <1>6, <1>a, <1>z, <2>1 DEF Navigate
  <2>2. CASE ~(Open(current) \/ open = {})
    <3>1. /\ current' = next /\ active' = next /\ shown' = next
          /\ late' = (late \/ events # << >>)
          /\ UNCHANGED <<cookie, events, captured, saved>>
      BY <1>6, <2>2 DEF Navigate
    <3> HIDE DEF next
    <3>2. events = << >> /\ Quiet
      BY <3>1
    <3> QED  BY <1>a, <1>z, <3>1, <3>2
  <2> QED  BY <2>1, <2>2
<1>7. CASE Fetch
  <2>1. Same /\ Shown /\ Filed /\ Own
    BY <1>a, <1>7 DEF Fetch
  <2>2. UNCHANGED <<shown, active, current, events>>
    BY <1>7 DEF Fetch
  <2>3. CASE captured = << >>
    BY <1>7, <1>z, <2>1, <2>2, <2>3 DEF Fetch
  <2>4. CASE captured # << >>
    <3>1. /\ captured' = Tail(captured)
          /\ \/ UNCHANGED saved
             \/ saved' = [saved EXCEPT ![Head(captured).under] = Head(captured).of]
      BY <1>7, <2>4 DEF Fetch
    <3>2. /\ Head(captured) = captured[1] /\ 1 \in 1..Len(captured)
          /\ \A i \in 1..Len(Tail(captured)) :
                /\ Tail(captured)[i] = captured[i + 1]
                /\ i + 1 \in 1..Len(captured)
      BY <1>0, <2>4, ListParts
    <3>3. Filed'
      BY <2>1, <3>1, <3>2
    <3>4. Own'
      <4>1. Head(captured).under = Head(captured).of
        BY <2>1, <3>2
      <4> QED  BY <1>0, <2>1, <3>1, <4>1
    <3> QED  BY <1>z, <2>1, <2>2, <3>3, <3>4
  <2> QED  BY <2>3, <2>4
<1>8. CASE MarkDone
  BY <1>8, <1>a, <1>z DEF MarkDone
<1>9. CASE ReadSkips
  BY <1>9, <1>a, <1>z DEF ReadSkips
<1>10. CASE ReadDone
  BY <1>10, <1>a, <1>z DEF ReadDone
<1>11. CASE CloseBrowser
  BY <1>11, <1>a, <1>z DEF CloseBrowser
<1>12. CASE UNCHANGED sessionVars
  BY <1>12, <1>a, <1>z DEF sessionVars
<1> QED
  BY <1>1, <1>2, <1>3, <1>4, <1>5, <1>6, <1>7, <1>8, <1>9, <1>10, <1>11, <1>12
  DEF SessionNext, Poll

\* A file is saved only between two readings of the files that have appeared.
LEMMA SavedSteps ==
    ASSUME SessionTypeOK, SavedIsHandedOver, [SessionNext]_sessionVars
    PROVE  SavedIsHandedOver'
<1> USE DEF SavedIsHandedOver, pageVars, loopVars, bounds
<1>1. CASE Answer \/ Listen \/ Click \/ PressDone
  BY <1>1 DEF Answer, Listen, Click, PressDone
<1>2. CASE ReadActive \/ ReadDone \/ CloseBrowser
  BY <1>2 DEF ReadActive, ReadDone, CloseBrowser
<1>3. CASE Navigate
  BY <1>3 DEF Navigate
<1>4. CASE Fetch
  BY <1>4 DEF Fetch
<1>5. CASE MarkDone
  BY <1>5 DEF MarkDone, Open
<1>6. CASE ReadSkips
  BY <1>6 DEF ReadSkips
<1>7. CASE UNCHANGED sessionVars
  BY <1>7 DEF sessionVars
<1> QED
  BY <1>1, <1>2, <1>3, <1>4, <1>5, <1>6, <1>7 DEF SessionNext, Poll

(***************************************************************************)
(* In a session of any length, with any number of answers and clicks,      *)
(* every file holds its own report unless the operator used Go or a page   *)
(* was left with an answer of it still to come, and a saved file reaches   *)
(* the stage that uploads it (fakturownia_reports.py:700).                 *)
(***************************************************************************)
THEOREM ReportsAreOwn == SessionSpec => []ReportsAreTheirOwn
<1>1. SessionInv /\ [SessionNext]_sessionVars => SessionInv'
  <2> SUFFICES ASSUME SessionInv, [SessionNext]_sessionVars PROVE SessionInv'
    OBVIOUS
  <2>1. SessionTypeOK'
    BY SessionType DEF SessionInv
  <2>2. Quiet' => QuietInv' /\ QuietSessionFilesEach'
    BY QuietSteps DEF SessionInv
  <2>3. ~Quiet' => QuietInv' /\ QuietSessionFilesEach'
    BY DEF Quiet, QuietInv, QuietSessionFilesEach
  <2>4. SavedIsHandedOver'
    BY SavedSteps DEF SessionInv
  <2> QED  BY <2>1, <2>2, <2>3, <2>4 DEF SessionInv
<1>2. SessionInv => ReportsAreTheirOwn
  BY DEF SessionInv, ReportsAreTheirOwn
<1> QED  BY <1>1, <1>2, SessionInitHolds, PTL DEF SessionSpec

-----------------------------------------------------------------------------
(***************************************************************************)
(* The documents of a month.  What a directory and the storage may hold:   *)
(* half a file only after a kill, a second edition only of an upload.      *)
(***************************************************************************)
ContentInv ==
    /\ "killed" \notin collectionCauses
          => \A f \in File : local[f] # "half" /\ blob[f] # "half"
    /\ \A f \in File : f.kind # "manual"
          => local[f] # "corrected" /\ blob[f] # "corrected"

(***************************************************************************)
(* A stage lists files the directory has, of the source it is working on.  *)
(***************************************************************************)
ListedInv ==
    /\ stage.pc \in {"idle", "copy", "inputs", "download"} => stage.paths = {}
    /\ stage.pc = "fakturownia"
          => \A f \in stage.paths : /\ f.kind \in {"render", "original"}
                                    /\ Has(local, f)
    /\ stage.pc = "mail"
          => \A f \in stage.paths : /\ f.kind = "mail" /\ Has(local, f)
                                    /\ Route[f.of.vendor] # "manual"
    /\ stage.pc = "report" => \A f \in stage.paths : f.kind = "mail"
    /\ stage.pc = "download"
          => \A s \in stage.list : FileOf[Number[s]] \notin stage.todo
                => Has(local, Pdf(FileOf[Number[s]]))

(***************************************************************************)
(* A vendor counted as found has a document in the directory, and one      *)
(* found by mail keeps one that the gate did not reject.                   *)
(***************************************************************************)
FoundInv ==
    \/ Despite({"killed"})
    \/ /\ \/ stage.pc \in {"inputs", "fakturownia", "mail"}
          \/ stage.pc = "report" /\ ~Despite({"browser_rejected"})
          => \A v \in stage.found : CostsOf(v, local) # {}
       /\ stage.pc = "report"
          => \A v \in stage.found :
                Route[v] = "mail" /\ (\E f \in stage.paths : f.of.vendor = v)
                => \E f \in stage.paths : f.of.vendor = v /\ Has(local, f)

(***************************************************************************)
(* What the sheet of the last cost stage says is so in storage until the   *)
(* renders of the next stage are dropped, and what came by mail for good.  *)
(***************************************************************************)
SheetInv ==
    \/ Despite({"killed", "upload_failed"})
    \/ /\ \/ Despite({"browser_rejected"})
          \/ stage.pc \in {"mail", "report"}
          \/ \A v \in sheet.found : CostsOf(v, blob) # {}
       /\ \A v \in sheet.mailed : \E f \in CostsOf(v, blob) : f.kind = "mail"

(***************************************************************************)
(* What the gate rejects is in the directory only while it is listed, and  *)
(* never gets any further.                                                 *)
(***************************************************************************)
Unfit(f) == f.kind = "mail" /\ f.of.text # "invoice"

GateInv ==
    \/ Despite({"killed", "unlisted"})
    \/ \A f \in File : Unfit(f) =>
          /\ Has(local, f) => stage.pc = "mail" /\ f \in stage.paths
          /\ ~Has(blob, f) /\ ~Has(package, f)

(***************************************************************************)
(* An original drives out the render, but for the time between the fetch   *)
(* of the original and the end of the fetching.                            *)
(***************************************************************************)
SourceCause ==
    {"killed", "fallback", "refused", "render_kept", "upload_failed", "restarted"}

Fetched(v) == stage.pc = "fakturownia" /\ Original(v) \in stage.paths

SourceInv ==
    \/ Despite(SourceCause)
    \/ \A v \in Vendor :
          /\ Has(local, Original(v)) /\ ~Fetched(v)
                => ~Has(local, Render(v)) /\ ~Has(blob, Render(v))
          /\ Has(blob, Original(v))
                => ~Has(blob, Render(v)) /\ ~Has(local, Render(v))

(***************************************************************************)
(* The latest upload is in the inbox or in storage, and on its way from    *)
(* one to the other in the directory; a directory that has an upload has   *)
(* what the storage has.                                                   *)
(***************************************************************************)
UploadInv ==
    \/ Despite({"killed", "upload_failed", "same_name"})
    \/ \A v \in Vendor :
          /\ inbox[v] # "none" => inbox[v] = uploaded[v]
          /\ stage.pc # "inputs" =>
                /\ Has(local, Manual(v)) => blob[Manual(v)] = local[Manual(v)]
                /\ uploaded[v] # "none"
                      => uploaded[v] \in {inbox[v], blob[Manual(v)]}
          /\ stage.pc = "inputs" /\ uploaded[v] # "none" =>
                \/ uploaded[v] \in {inbox[v], local[Manual(v)]}
                \/ ~Has(local, Manual(v)) /\ uploaded[v] = blob[Manual(v)]

CollectionInv ==
    /\ CollectionTypeOK /\ ContentInv /\ ListedInv /\ FoundInv /\ SheetInv
    /\ GateInv /\ SourceInv /\ UploadInv /\ UnwarnedIsComplete

-----------------------------------------------------------------------------
(***************************************************************************)
(* Files are told apart by their kind and by whose they are.               *)
(***************************************************************************)
LEMMA VendorFiles ==
    ASSUME NEW v \in Vendor
    PROVE  /\ Render(v) \in File /\ Render(v).kind = "render" /\ Render(v).of = v
           /\ Original(v) \in File /\ Original(v).kind = "original"
           /\ Original(v).of = v
           /\ Manual(v) \in File /\ Manual(v).kind = "manual" /\ Manual(v).of = v
BY DEF File, Render, Original, Manual

LEMMA OtherFiles ==
    /\ \A a \in Mail : /\ Attached(a) \in File /\ Attached(a).kind = "mail"
                       /\ Attached(a).of = a
    /\ \A n \in Name : /\ Pdf(n) \in File /\ Pdf(n).kind = "sale"
                       /\ Pdf(n).of = n
BY DEF File, Attached, Pdf

LEMMA FileShape ==
    ASSUME NEW f \in File
    PROVE  /\ f.kind \in {"render", "original", "manual", "mail", "sale"}
           /\ f.kind = "render" => f.of \in Vendor /\ f = Render(f.of)
           /\ f.kind = "original" => f.of \in Vendor /\ f = Original(f.of)
           /\ f.kind = "manual" => f.of \in Vendor /\ f = Manual(f.of)
           /\ f.kind = "mail" => f.of \in Mail /\ f = Attached(f.of)
           /\ f.kind = "sale" => f.of \in Name /\ f = Pdf(f.of)
BY DEF File, Render, Original, Manual, Attached, Pdf

\* What With leaves alone and what it changes.
LEMMA WithAt ==
    ASSUME NEW files \in [File -> Content], NEW fs, NEW c \in Content
    PROVE  /\ With(files, fs, c) \in [File -> Content]
           /\ \A f \in File : With(files, fs, c)[f] = IF f \in fs THEN c
                                                      ELSE files[f]
BY DEF With

LEMMA NameOf == \A s \in Sale : FileOf[Number[s]] \in Name
BY DEF Name

LEMMA Contents == Content = {"none", "half", "whole", "corrected"}
                  /\ Edition \subseteq Content
BY DEF Content, Edition

\* A copy brings the storage what the directory has; it falls short of one of
\* the files only where the failure is noted (orchestrator.py:165).
LEMMA Uploads ==
    ASSUME CollectionTypeOK, NEW files, files \subseteq File, UploadAll(files)
    PROVE  /\ blob' \in [File -> Content] /\ faults' \in 0..MaxFaults
           /\ \A f \in File : \/ blob'[f] = blob[f]
                              \/ /\ f \in files /\ Has(local, f)
                                 /\ blob'[f] = local[f]
           /\ collectionCauses \subseteq collectionCauses'
           /\ collectionCauses' \subseteq Cause
           /\ collectionCauses' \subseteq collectionCauses \cup {"upload_failed"}
           /\ "upload_failed" \notin collectionCauses' =>
                \A f \in files : Has(local, f) => blob'[f] = local[f]
<1> USE DEF CollectionTypeOK
<1>1. ASSUME NEW kept
      PROVE  /\ Copied(files, kept) \in [File -> Content]
             /\ \A f \in File : Copied(files, kept)[f] =
                   IF f \in files /\ Has(local, f) /\ f \notin kept
                   THEN local[f] ELSE blob[f]
  BY DEF Copied
<1>2. CASE /\ blob' = Copied(files, {})
           /\ UNCHANGED <<faults, collectionCauses>>
  BY <1>1, <1>2
<1>3. CASE \E f \in files :
             /\ Has(local, f) /\ local[f] # blob[f] /\ Fails
             /\ blob' = Copied(files, {f}) /\ Because({"upload_failed"})
  <2>1. PICK f \in files : /\ Fails /\ blob' = Copied(files, {f})
                           /\ Because({"upload_failed"})
    BY <1>3
  <2>2. faults' \in 0..MaxFaults
    BY <2>1 DEF Fails
  <2>3. collectionCauses' = collectionCauses \cup {"upload_failed"}
    BY <2>1 DEF Because
  <2> QED  BY <1>1, <2>1, <2>2, <2>3 DEF Cause
<1> QED  BY <1>2, <1>3 DEF UploadAll

-----------------------------------------------------------------------------
(***************************************************************************)
(* The types.                                                              *)
(***************************************************************************)
LEMMA CollectionInitType == CollectionInit => CollectionTypeOK
<1> SUFFICES ASSUME CollectionInit PROVE CollectionTypeOK
  OBVIOUS
<1> USE DEF CollectionInit
<1>1. issued \subseteq Sale
  <2> DEFINE T == {Number[s] : s \in Sale}
  <2>1. T \subseteq Nat /\ T # {}
    OBVIOUS
  <2>2. \E x \in T : \A y \in T : x <= y
    BY <2>1, LeastNumber
  <2>3. \E s \in Sale : \A t \in Sale : Number[s] <= Number[t]
    BY <2>2
  <2> QED  BY <2>3
<1>2. /\ local \in [File -> Content] /\ blob \in [File -> Content]
      /\ package \in [File -> Content]
  BY DEF NoFiles, Content
<1>3. stage \in Stage
  BY DEF IdleStage, Stage
<1>4. inbox \in [Vendor -> Edition] /\ uploaded \in [Vendor -> Edition]
  BY DEF Edition
<1>5. /\ sheet \in [found : SUBSET Vendor, mailed : SUBSET Vendor,
                    missing : SUBSET Vendor]
      /\ sales \in [list : SUBSET Sale, warned : BOOLEAN]
  BY DEF NoSheet, NoSales
<1>6. cost \in [Vendor -> {"none", "render", "pdf", "xml"}]
  OBVIOUS
<1>7. news \in 0..MaxNews /\ stages \in 0..MaxStages /\ faults \in 0..MaxFaults
  OBVIOUS
<1> QED  BY <1>1, <1>2, <1>3, <1>4, <1>5, <1>6, <1>7 DEF CollectionTypeOK

\* A stage with other fields is a stage.
LEMMA StageFields ==
    ASSUME NEW st \in Stage
    PROVE  /\ st = [pc |-> st.pc, todo |-> st.todo, found |-> st.found,
                    paths |-> st.paths, list |-> st.list]
           /\ st.pc \in {"idle", "copy", "inputs", "fakturownia", "mail",
                         "report", "download"}
           /\ st.todo \subseteq Vendor \cup Name /\ st.found \subseteq Vendor
           /\ st.paths \subseteq File /\ st.list \subseteq Sale
BY DEF Stage

LEMMA IdleIsStage ==
    /\ IdleStage \in Stage
    /\ IdleStage.pc = "idle" /\ IdleStage.todo = {} /\ IdleStage.found = {}
    /\ IdleStage.paths = {} /\ IdleStage.list = {}
BY DEF IdleStage, Stage

-----------------------------------------------------------------------------
(***************************************************************************)
(* What each step of a stage does, file by file.                           *)
(***************************************************************************)
Keeps(fs) == \A f \in File : f \notin fs => local'[f] = local[f]
Turns(fs, content) == \A f \in fs : local'[f] = content

\* where a stage goes, with the lists it has by then
Moves(pc, found, paths) ==
    /\ stage' \in Stage
    /\ stage'.pc = pc /\ stage'.found = found /\ stage'.paths = paths

LEMMA BeginCostsStep ==
    ASSUME CollectionTypeOK, BeginCosts
    PROVE  /\ Moves("copy", {}, {}) /\ stage.pc = "idle"
           /\ stages' \in 0..MaxStages
<1>1. stage' = [pc |-> "copy", todo |-> {}, found |-> {}, paths |-> {},
                list |-> {}]
  BY DEF BeginCosts, IdleStage
<1>2. stages' \in 0..MaxStages
  BY DEF BeginCosts, CollectionTypeOK
<1>3. stage' \in Stage
  BY <1>1 DEF Stage
<1>4. stage'.pc = "copy" /\ stage'.found = {} /\ stage'.paths = {}
  BY <1>1
<1>5. stage.pc = "idle"
  BY DEF BeginCosts
<1> QED  BY <1>2, <1>3, <1>4, <1>5 DEF Moves

LEMMA BeginSalesStep ==
    ASSUME CollectionTypeOK, BeginSales
    PROVE  /\ Moves("download", {}, {}) /\ stage.pc = "idle"
           /\ stage'.list = issued
           /\ stage'.todo = {FileOf[Number[s]] : s \in issued}
           /\ stages' \in 0..MaxStages
<1>1. stage' = [pc |-> "download", todo |-> {FileOf[Number[s]] : s \in issued},
                found |-> {}, paths |-> {}, list |-> issued]
  BY DEF BeginSales, IdleStage
<1>2. stages' \in 0..MaxStages
  BY DEF BeginSales, CollectionTypeOK
<1>3. issued \subseteq Sale /\ {FileOf[Number[s]] : s \in issued} \subseteq Name
  BY DEF CollectionTypeOK, Name
<1>4. stage' \in Stage
  BY <1>1, <1>3 DEF Stage
<1>5. /\ stage'.pc = "download" /\ stage'.found = {} /\ stage'.paths = {}
      /\ stage'.list = issued
      /\ stage'.todo = {FileOf[Number[s]] : s \in issued}
  BY <1>1
<1>6. stage.pc = "idle"
  BY DEF BeginSales
<1> QED  BY <1>2, <1>4, <1>5, <1>6 DEF Moves

LEMMA TakeUploadsStep ==
    ASSUME CollectionTypeOK, TakeUploads
    PROVE  /\ Moves("inputs", {v \in Vendor : inbox[v] # "none"}, stage.paths)
           /\ stage.pc = "copy"
           /\ local' \in [File -> Content] /\ inbox' \in [Vendor -> Edition]
           /\ \A v \in Vendor :
                 /\ inbox'[v] = "none"
                 /\ local'[Manual(v)] = IF inbox[v] # "none" /\ ~Has(local, Manual(v))
                                        THEN inbox[v] ELSE local[Manual(v)]
           /\ Keeps({Manual(v) : v \in Vendor})
           /\ collectionCauses \subseteq collectionCauses'
           /\ collectionCauses' \subseteq collectionCauses \cup {"same_name"}
           /\ collectionCauses' \subseteq Cause
           /\ "same_name" \notin collectionCauses'
                => \A v \in Vendor : inbox[v] # "none" /\ Has(local, Manual(v))
                      => local[Manual(v)] = inbox[v]
<1> DEFINE taken == {v \in Vendor : inbox[v] # "none"}
           new == {v \in taken : ~Has(local, Manual(v))}
<1> USE DEF CollectionTypeOK
<1>1. /\ stage.pc = "copy"
      /\ local' = [f \in File |-> IF \E v \in new : f = Manual(v)
                                   THEN inbox[f.of] ELSE local[f]]
      /\ inbox' = [v \in Vendor |-> "none"]
      /\ stage' = [stage EXCEPT !.pc = "inputs", !.found = taken]
      /\ Because(IF \E v \in taken \ new : local[Manual(v)] # inbox[v]
                  THEN {"same_name"} ELSE {})
  BY DEF TakeUploads
<1>2. Moves("inputs", taken, stage.paths)
  BY <1>1 DEF Moves, Stage
<1>3. ASSUME NEW f \in File
      PROVE  /\ (\E v \in new : f = Manual(v)) => f.of \in new /\ f = Manual(f.of)
             /\ local'[f] \in Content
  <2>1. (\E v \in new : f = Manual(v)) => f.of \in new /\ f = Manual(f.of)
    BY VendorFiles
  <2>2. local'[f] = IF \E v \in new : f = Manual(v) THEN inbox[f.of] ELSE local[f]
    BY <1>1
  <2>3. (\E v \in new : f = Manual(v)) => inbox[f.of] \in Content
    BY <2>1, Contents
  <2> QED  BY <2>1, <2>2, <2>3
<1>4. local' \in [File -> Content]
  BY <1>1, <1>3
<1>5. inbox' \in [Vendor -> Edition]
  BY <1>1 DEF Edition
<1>6. ASSUME NEW v \in Vendor
      PROVE  /\ inbox'[v] = "none"
             /\ local'[Manual(v)] = IF inbox[v] # "none" /\ ~Has(local, Manual(v))
                                    THEN inbox[v] ELSE local[Manual(v)]
  <2>1. Manual(v) \in File /\ Manual(v).of = v
    BY VendorFiles
  <2>2. (\E w \in new : Manual(v) = Manual(w)) <=> v \in new
    BY VendorFiles
  <2> QED  BY <1>1, <2>1, <2>2
<1>7. Keeps({Manual(v) : v \in Vendor})
  BY <1>1 DEF Keeps
<1>8. collectionCauses' = collectionCauses
          \cup (IF \E v \in taken \ new : local[Manual(v)] # inbox[v]
                THEN {"same_name"} ELSE {})
  BY <1>1 DEF Because
<1>9. /\ collectionCauses \subseteq collectionCauses'
      /\ collectionCauses' \subseteq collectionCauses \cup {"same_name"}
      /\ collectionCauses' \subseteq Cause
  BY <1>8 DEF Cause
<1>10. ASSUME "same_name" \notin collectionCauses', NEW v \in Vendor,
              inbox[v] # "none", Has(local, Manual(v))
       PROVE  local[Manual(v)] = inbox[v]
  BY <1>8, <1>10
<1> HIDE DEF new
<1> QED  BY <1>1, <1>2, <1>4, <1>5, <1>6, <1>7, <1>9, <1>10

LEMMA StoreUploadsStep ==
    ASSUME CollectionTypeOK, StoreUploads
    PROVE  /\ Moves("fakturownia", stage.found, stage.paths)
           /\ stage.pc = "inputs" /\ UploadAll(CostFile)
<1>1. /\ stage.pc = "inputs" /\ UploadAll(CostFile)
      /\ stage' = [stage EXCEPT !.pc = "fakturownia",
                              !.todo = {v \in Vendor : cost[v] # "none"}]
  BY DEF StoreUploads
<1> QED  BY <1>1 DEF Moves, Stage, CollectionTypeOK

LEMMA FetchOriginalStep ==
    ASSUME CollectionTypeOK, NEW v \in Vendor, FetchOriginal(v)
    PROVE  /\ stage.pc = "fakturownia"
           /\ Moves("fakturownia", stage.found \cup {v},
                    stage.paths \cup {Original(v)})
           /\ local' \in [File -> Content]
           /\ Keeps({Original(v)}) /\ Turns({Original(v)}, "whole")
<1> USE DEF CollectionTypeOK
<1>1. /\ stage.pc = "fakturownia" /\ local' = With(local, {Original(v)}, "whole")
      /\ Took(v, Original(v))
  BY DEF FetchOriginal
<1>2. Original(v) \in File
  BY VendorFiles
<1>3. stage' = [stage EXCEPT !.todo = @ \ {v}, !.found = @ \cup {v},
                             !.paths = @ \cup {Original(v)}]
  BY <1>1 DEF Took
<1>4. Moves("fakturownia", stage.found \cup {v}, stage.paths \cup {Original(v)})
  <2> HIDE DEF CollectionTypeOK
  <2>1. stage \in Stage
    BY DEF CollectionTypeOK
  <2> QED  BY <1>1, <1>2, <1>3, <2>1 DEF Moves, Stage
<1> QED  BY <1>1, <1>2, <1>4, WithAt, Contents DEF Keeps, Turns

LEMMA RefuseStep ==
    ASSUME CollectionTypeOK, NEW v \in Vendor, Refuse(v)
    PROVE  /\ Moves("idle", {}, {}) /\ stage.pc = "fakturownia"
           /\ faults' \in 0..MaxFaults
           /\ collectionCauses' = collectionCauses \cup {"refused"}
<1>1. stage' = IdleStage /\ stage.pc = "fakturownia" /\ Because({"refused"})
  BY DEF Refuse
<1>2. faults' \in 0..MaxFaults
  BY DEF Refuse, Fails, CollectionTypeOK
<1> QED  BY <1>1, <1>2, IdleIsStage DEF Moves, Because

LEMMA FetchRenderStep ==
    ASSUME CollectionTypeOK, NEW v \in Vendor, FetchRender(v)
    PROVE  /\ stage.pc = "fakturownia"
           /\ Moves("fakturownia", stage.found \cup {v},
                    stage.paths \cup {Render(v)})
           /\ local' \in [File -> Content]
           /\ Keeps({Render(v)})
           /\ local'[Render(v)] = IF Has(local, Render(v)) THEN local[Render(v)]
                                  ELSE "whole"
           /\ faults' \in 0..MaxFaults
           /\ collectionCauses' = collectionCauses \cup
                 (IF Has(local, Original(v)) \/ Has(blob, Original(v))
                  THEN {"fallback"} ELSE {})
<1> USE DEF CollectionTypeOK
<1>1. /\ stage.pc = "fakturownia" /\ Took(v, Render(v))
      /\ local' = IF Has(local, Render(v)) THEN local
                  ELSE With(local, {Render(v)}, "whole")
      /\ Because(IF Has(local, Original(v)) \/ Has(blob, Original(v))
                 THEN {"fallback"} ELSE {})
  BY DEF FetchRender
<1>2. Render(v) \in File
  BY VendorFiles
<1>3. stage' = [stage EXCEPT !.todo = @ \ {v}, !.found = @ \cup {v},
                             !.paths = @ \cup {Render(v)}]
  BY <1>1 DEF Took
<1>4. Moves("fakturownia", stage.found \cup {v}, stage.paths \cup {Render(v)})
  <2> HIDE DEF CollectionTypeOK
  <2>1. stage \in Stage
    BY DEF CollectionTypeOK
  <2> QED  BY <1>1, <1>2, <1>3, <2>1 DEF Moves, Stage
<1>5. faults' \in 0..MaxFaults
  BY DEF FetchRender, Fails
<1>6. /\ local' \in [File -> Content] /\ Keeps({Render(v)})
      /\ local'[Render(v)] = IF Has(local, Render(v)) THEN local[Render(v)]
                             ELSE "whole"
  BY <1>1, <1>2, WithAt, Contents DEF Keeps
<1> QED  BY <1>1, <1>4, <1>5, <1>6 DEF Because

LEMMA PassOverStep ==
    ASSUME CollectionTypeOK, NEW v \in Vendor, PassOver(v)
    PROVE  Moves("fakturownia", stage.found, stage.paths)
           /\ stage.pc = "fakturownia"
BY DEF PassOver, Moves, Stage, CollectionTypeOK

Renders == {Render(f.of) : f \in {g \in stage.paths : g.kind = "original"}}

LEMMA DropRendersStep ==
    ASSUME CollectionTypeOK, DropRenders
    PROVE  /\ stage.pc = "fakturownia" /\ Moves("mail", stage.found, {})
           /\ local' \in [File -> Content] /\ blob' \in [File -> Content]
           /\ Keeps(Renders) /\ Renders \subseteq File
           /\ \A f \in Renders : f.kind = "render" /\ local'[f] = "none"
                                 /\ Original(f.of) \in stage.paths
           /\ \A f \in File : blob'[f] = blob[f]
                              \/ (f \in Renders /\ blob'[f] = "none")
           /\ collectionCauses \subseteq collectionCauses'
           /\ collectionCauses' \subseteq collectionCauses \cup {"render_kept"}
           /\ "render_kept" \notin collectionCauses'
                => \A f \in Renders : blob'[f] = "none"
           /\ faults' \in 0..MaxFaults
<1> USE DEF CollectionTypeOK
<1>1. /\ stage.pc = "fakturownia"
      /\ local' = With(local, Renders, "none")
      /\ \/ blob' = With(blob, Renders, "none")
            /\ UNCHANGED <<faults, collectionCauses>>
         \/ Fails /\ UNCHANGED blob /\ Because({"render_kept"})
      /\ stage' = [stage EXCEPT !.pc = "mail", !.paths = {},
          !.todo = {v \in Vendor : Route[v] # "manual"} \ stage.found]
  BY DEF DropRenders, Renders
<1>2. \A f \in Renders : /\ f \in File /\ f.kind = "render"
                         /\ Original(f.of) \in stage.paths
  <2>1. ASSUME NEW g \in stage.paths, g.kind = "original"
        PROVE  /\ Render(g.of) \in File /\ Render(g.of).kind = "render"
               /\ Original(Render(g.of).of) \in stage.paths
    <3>1. g \in File
      BY StageFields
    <3>2. g.of \in Vendor /\ g = Original(g.of)
      BY <2>1, <3>1, FileShape
    <3> QED  BY <3>2, VendorFiles
  <2> QED  BY <2>1 DEF Renders
<1>3. Moves("mail", stage.found, {})
  BY <1>1 DEF Moves, Stage
<1>4. /\ local' \in [File -> Content] /\ Keeps(Renders)
      /\ \A f \in Renders : local'[f] = "none"
  BY <1>1, <1>2, WithAt, Contents DEF Keeps
<1>5. CASE blob' = With(blob, Renders, "none")
           /\ UNCHANGED <<faults, collectionCauses>>
  <2>1. /\ blob' \in [File -> Content]
        /\ \A f \in File : blob'[f] = IF f \in Renders THEN "none" ELSE blob[f]
    BY <1>5, WithAt, Contents
  <2> QED  BY <1>1, <1>2, <1>3, <1>4, <1>5, <2>1
<1>6. CASE Fails /\ UNCHANGED blob /\ Because({"render_kept"})
  <2>1. faults' \in 0..MaxFaults
    BY <1>6 DEF Fails
  <2>2. collectionCauses' = collectionCauses \cup {"render_kept"}
    BY <1>6 DEF Because
  <2> QED  BY <1>1, <1>2, <1>3, <1>4, <1>6, <2>1, <2>2
<1> QED  BY <1>1, <1>5, <1>6

\* what is new from a vendor's mail
LEMMA NewMail ==
    ASSUME CollectionTypeOK, NEW v \in Vendor
    PROVE  /\ FromMail(v) \subseteq Mail
           /\ \A a \in FromMail(v) : a.vendor = v
BY DEF FromMail, CollectionTypeOK

Attachments(as) == {Attached(a) : a \in as}

LEMMA AttachmentFiles ==
    ASSUME NEW as, as \subseteq Mail
    PROVE  /\ Attachments(as) \subseteq File
           /\ \A f \in Attachments(as) : f.kind = "mail" /\ f.of \in as
           /\ \A a \in as : Attached(a) \in Attachments(as)
           /\ \A f \in File : f.kind = "mail" /\ f.of \in as => f \in Attachments(as)
<1>1. Attachments(as) \subseteq File
      /\ \A f \in Attachments(as) : f.kind = "mail" /\ f.of \in as
  <2>1. ASSUME NEW a \in as
        PROVE  Attached(a) \in File /\ Attached(a).kind = "mail"
               /\ Attached(a).of \in as
    BY OtherFiles
  <2> QED  BY <2>1 DEF Attachments
<1>2. \A a \in as : Attached(a) \in Attachments(as)
  BY DEF Attachments
<1>3. ASSUME NEW f \in File, f.kind = "mail", f.of \in as
      PROVE  f \in Attachments(as)
  BY <1>2, <1>3, FileShape
<1> QED  BY <1>1, <1>2, <1>3

\* Mail that is saved and listed, and a render that gives way to it.
LEMMA FileMailStep ==
    ASSUME CollectionTypeOK, stage.pc = "mail", NEW v \in Vendor,
           NEW saved_, saved_ \subseteq FromMail(v), NEW listed, listed \subseteq saved_,
           FileMail(v, saved_, listed)
    PROVE  /\ Moves("mail", IF listed = {} THEN stage.found
                            ELSE stage.found \cup {v},
                    stage.paths \cup Attachments(listed))
           /\ local' \in [File -> Content] /\ blob' \in [File -> Content]
           /\ hashes' \subseteq Mail
           /\ Keeps(Attachments(saved_) \cup {Render(v)})
           /\ Turns(Attachments(saved_), "whole")
           /\ local'[Render(v)] \in {local[Render(v)], "none"}
           /\ \A f \in File : blob'[f] = blob[f]
                              \/ (f = Render(v) /\ blob'[f] = "none")
           /\ listed = {} => local'[Render(v)] = local[Render(v)]
           /\ UNCHANGED <<worldVars, inbox, reportVars, stages>>
<1> DEFINE renders == IF listed # {} /\ v \in Required /\ cost[v] # "none"
                      THEN {Render(v)} ELSE {}
<1> DEFINE mid == With(local, Attachments(saved_), "whole")
<1>1. /\ local' = With(mid, renders, "none")
      /\ blob' = With(blob, renders, "none")
      /\ hashes' = hashes \cup saved_
      /\ stage' = [stage EXCEPT !.todo = @ \ {v},
          !.paths = @ \cup Attachments(listed),
          !.found = IF listed = {} THEN @ ELSE @ \cup {v}]
      /\ UNCHANGED <<worldVars, inbox, reportVars, stages>>
  BY DEF FileMail, Attachments
<1>2. /\ local \in [File -> Content] /\ blob \in [File -> Content]
      /\ stage \in Stage /\ hashes \subseteq Mail
  BY DEF CollectionTypeOK
<1>3. /\ saved_ \subseteq Mail /\ listed \subseteq Mail
      /\ Attachments(saved_) \subseteq File /\ Attachments(listed) \subseteq File
      /\ Render(v) \in File /\ Render(v).kind = "render"
      /\ \A f \in Attachments(saved_) : f.kind = "mail"
  BY NewMail, AttachmentFiles, VendorFiles
<1>4. Moves("mail", IF listed = {} THEN stage.found ELSE stage.found \cup {v},
            stage.paths \cup Attachments(listed))
  BY <1>1, <1>2, <1>3 DEF Moves, Stage
<1>5. /\ mid \in [File -> Content]
      /\ \A f \in File : mid[f] = IF f \in Attachments(saved_) THEN "whole"
                                  ELSE local[f]
  BY <1>2, WithAt, Contents
<1>6. /\ local' \in [File -> Content]
      /\ \A f \in File : local'[f] = IF f \in renders THEN "none" ELSE mid[f]
  <2> HIDE DEF mid, renders
  <2> QED  BY <1>1, <1>5, WithAt, Contents
<1>7. /\ blob' \in [File -> Content]
      /\ \A f \in File : blob'[f] = IF f \in renders THEN "none" ELSE blob[f]
  <2> HIDE DEF mid, renders
  <2> QED  BY <1>1, <1>2, WithAt, Contents
<1>8. renders \subseteq {Render(v)} /\ (listed = {} => renders = {})
  OBVIOUS
<1> HIDE DEF mid, renders
<1>9. Render(v) \notin Attachments(saved_)
  BY <1>3
<1>10. /\ Keeps(Attachments(saved_) \cup {Render(v)})
       /\ Turns(Attachments(saved_), "whole")
  BY <1>3, <1>5, <1>6, <1>8, <1>9 DEF Keeps, Turns
<1>11. /\ local'[Render(v)] \in {local[Render(v)], "none"}
       /\ listed = {} => local'[Render(v)] = local[Render(v)]
  BY <1>3, <1>5, <1>6, <1>8, <1>9
<1>12. \A f \in File : blob'[f] = blob[f]
                       \/ (f = Render(v) /\ blob'[f] = "none")
  BY <1>7, <1>8
<1>13. hashes' \subseteq Mail
  BY <1>1, <1>2, <1>3
<1> QED  BY <1>1, <1>4, <1>6, <1>7, <1>10, <1>11, <1>12, <1>13

LEMMA BrowseStep ==
    ASSUME CollectionTypeOK, NEW v \in Vendor, Browse(v)
    PROVE  /\ stage.pc = "mail" /\ Route[v] = "browser"
           /\ local' \in [File -> Content] /\ faults' \in 0..MaxFaults
           /\ \E named \in SUBSET {a \in mail : a.vendor = v} :
                \E new \in SUBSET named :
                  /\ \A a \in named \ new : Has(local, Attached(a))
                  /\ Moves("mail", IF named = {} THEN stage.found
                                   ELSE stage.found \cup {v},
                           stage.paths \cup Attachments(new))
                  /\ Keeps(Attachments(new)) /\ Turns(Attachments(new), "whole")
<1>1. PICK named \in SUBSET {a \in mail : a.vendor = v} :
         LET new == {a \in named : ~Has(local, Attached(a))} IN
         /\ \/ named = {a \in mail : a.vendor = v} /\ UNCHANGED faults
            \/ Fails
         /\ local' = With(local, {Attached(a) : a \in new}, "whole")
         /\ stage' = [stage EXCEPT !.todo = @ \ {v},
               !.paths = @ \cup {Attached(a) : a \in new},
               !.found = IF named = {} THEN @ ELSE @ \cup {v}]
  BY DEF Browse
<1> DEFINE new == {a \in named : ~Has(local, Attached(a))}
<1>2. /\ local' = With(local, Attachments(new), "whole")
      /\ stage' = [stage EXCEPT !.todo = @ \ {v},
               !.paths = @ \cup Attachments(new),
               !.found = IF named = {} THEN @ ELSE @ \cup {v}]
  BY <1>1 DEF Attachments
<1>3. new \in SUBSET named /\ \A a \in named \ new : Has(local, Attached(a))
  OBVIOUS
<1>4. faults' \in 0..MaxFaults
  BY <1>1 DEF Fails, CollectionTypeOK
<1>5. stage.pc = "mail" /\ Route[v] = "browser"
  BY DEF Browse
<1>6. local \in [File -> Content] /\ stage \in Stage /\ mail \subseteq Mail
  BY DEF CollectionTypeOK
<1> HIDE DEF new
<1>7. new \subseteq Mail /\ Attachments(new) \subseteq File
  BY <1>3, <1>6, AttachmentFiles
<1>8. Moves("mail", IF named = {} THEN stage.found ELSE stage.found \cup {v},
            stage.paths \cup Attachments(new))
  BY <1>2, <1>5, <1>6, <1>7 DEF Moves, Stage
<1>9. /\ local' \in [File -> Content]
      /\ Keeps(Attachments(new)) /\ Turns(Attachments(new), "whole")
  BY <1>2, <1>6, <1>7, WithAt, Contents DEF Keeps, Turns
<1> QED  BY <1>3, <1>4, <1>5, <1>8, <1>9

LEMMA GateStep ==
    ASSUME CollectionTypeOK, Gate
    PROVE  LET out == Rejected(stage.paths)
               of(v) == {f \in stage.paths : f.of.vendor = v}
               lost == {v \in stage.found : /\ Route[v] = "mail" /\ of(v) # {}
                                            /\ of(v) \subseteq out} IN
           /\ stage.pc = "mail" /\ Moves("report", stage.found \ lost, stage.paths)
           /\ local' \in [File -> Content]
           /\ out \subseteq stage.paths /\ out \subseteq File
           /\ Keeps(out) /\ Turns(out, "none")
           /\ collectionCauses \subseteq collectionCauses'
           /\ collectionCauses' \subseteq collectionCauses \cup {"browser_rejected"}
           /\ "browser_rejected" \notin collectionCauses'
                 => \A f \in out : Route[f.of.vendor] # "browser"
<1> DEFINE out == Rejected(stage.paths)
           of(v) == {f \in stage.paths : f.of.vendor = v}
           lost == {v \in stage.found : /\ Route[v] = "mail" /\ of(v) # {}
                                        /\ of(v) \subseteq out}
           noted == IF \E f \in out : Route[f.of.vendor] = "browser"
                    THEN {"browser_rejected"} ELSE {}
<1>1. /\ stage.pc = "mail" /\ local' = With(local, out, "none")
      /\ stage' = [stage EXCEPT !.pc = "report", !.found = @ \ lost]
      /\ Because(noted)
  BY DEF Gate
<1>2. out \subseteq stage.paths
  BY DEF Rejected
<1>3. local \in [File -> Content] /\ stage \in Stage
  BY DEF CollectionTypeOK
<1>4. /\ noted \subseteq {"browser_rejected"}
      /\ "browser_rejected" \notin noted
            => \A f \in out : Route[f.of.vendor] # "browser"
  OBVIOUS
<1> HIDE DEF out, noted
<1>5. out \subseteq File
  BY <1>2, <1>3, StageFields
<1>6. lost \subseteq stage.found
  OBVIOUS
<1>7. Moves("report", stage.found \ lost, stage.paths)
  <2> HIDE DEF lost
  <2> QED  BY <1>1, <1>3, <1>6 DEF Moves, Stage
<1>8. local' \in [File -> Content] /\ Keeps(out) /\ Turns(out, "none")
  BY <1>1, <1>3, <1>5, WithAt, Contents DEF Keeps, Turns
<1>9. collectionCauses' = collectionCauses \cup noted
  BY <1>1 DEF Because
<1>10. /\ stage.pc = "mail" /\ Moves("report", stage.found \ lost, stage.paths)
       /\ local' \in [File -> Content]
       /\ out \subseteq stage.paths /\ out \subseteq File
       /\ Keeps(out) /\ Turns(out, "none")
       /\ collectionCauses \subseteq collectionCauses'
       /\ collectionCauses' \subseteq collectionCauses \cup {"browser_rejected"}
       /\ "browser_rejected" \notin collectionCauses'
             => \A f \in out : Route[f.of.vendor] # "browser"
  <2> HIDE DEF lost
  <2> QED  BY <1>1, <1>2, <1>4, <1>5, <1>7, <1>8, <1>9
<1> QED  BY <1>10 DEF out

LEMMA CostFiles ==
    /\ CostFile \subseteq File
    /\ \A f \in File : f \in CostFile <=> f.kind # "sale"
BY DEF CostFile

LEMMA ReportCostsStep ==
    ASSUME CollectionTypeOK, ReportCosts
    PROVE  /\ stage.pc = "report" /\ Moves("idle", {}, {}) /\ UploadAll(CostFile)
           /\ sheet' \in [found : SUBSET Vendor, mailed : SUBSET Vendor,
                          missing : SUBSET Vendor]
           /\ sheet'.found = stage.found
           /\ sheet'.mailed = {v \in Required \cap stage.found :
                                 \E f \in stage.paths : f.of.vendor = v}
<1>1. /\ stage.pc = "report" /\ UploadAll(CostFile) /\ stage' = IdleStage
      /\ sheet' = [found |-> stage.found, missing |-> Vendor \ stage.found,
                 mailed |-> {v \in Required \cap stage.found :
                                \E f \in stage.paths : f.of.vendor = v}]
  BY DEF ReportCosts
<1>2. stage.found \subseteq Vendor
  BY StageFields DEF CollectionTypeOK
<1>3. Moves("idle", {}, {})
  BY <1>1, IdleIsStage DEF Moves
<1>4. sheet' \in [found : SUBSET Vendor, mailed : SUBSET Vendor,
                  missing : SUBSET Vendor]
  BY <1>1, <1>2
<1> QED  BY <1>1, <1>3, <1>4

LEMMA DownloadStep ==
    ASSUME CollectionTypeOK, NEW n \in Name, Download(n)
    PROVE  /\ stage.pc = "download" /\ Moves("download", stage.found, stage.paths)
           /\ stage'.list = stage.list /\ stage'.todo = stage.todo \ {n}
           /\ local' \in [File -> Content] /\ Keeps({Pdf(n)})
           /\ local'[Pdf(n)] = IF Has(local, Pdf(n)) THEN local[Pdf(n)]
                               ELSE "whole"
<1>1. /\ stage.pc = "download" /\ stage' = [stage EXCEPT !.todo = @ \ {n}]
      /\ local' = IF Has(local, Pdf(n)) THEN local
                  ELSE With(local, {Pdf(n)}, "whole")
  BY DEF Download
<1>2. Pdf(n) \in File
  BY OtherFiles
<1>3. local \in [File -> Content] /\ stage \in Stage
  BY DEF CollectionTypeOK
<1>4. /\ local' \in [File -> Content] /\ Keeps({Pdf(n)})
      /\ local'[Pdf(n)] = IF Has(local, Pdf(n)) THEN local[Pdf(n)]
                          ELSE "whole"
  BY <1>1, <1>2, <1>3, WithAt, Contents DEF Keeps
<1>5. /\ Moves("download", stage.found, stage.paths)
      /\ stage'.list = stage.list /\ stage'.todo = stage.todo \ {n}
  BY <1>1, <1>3 DEF Moves, Stage
<1> QED  BY <1>1, <1>4, <1>5

SaleFiles(list) == {Pdf(FileOf[Number[s]]) : s \in list}

LEMMA SalesDoneStep ==
    ASSUME CollectionTypeOK, SalesDone
    PROVE  /\ stage.pc = "download" /\ stage.todo = {} /\ Moves("idle", {}, {})
           /\ SaleFiles(stage.list) \subseteq File
           /\ \A f \in SaleFiles(stage.list) : f.kind = "sale"
           /\ UploadAll(SaleFiles(stage.list))
           /\ sales' \in [list : SUBSET Sale, warned : BOOLEAN]
           /\ sales'.list = stage.list /\ sales'.warned = Short(stage.list)
<1>1. /\ stage.pc = "download" /\ stage.todo = {} /\ stage' = IdleStage
      /\ UploadAll(SaleFiles(stage.list))
      /\ sales' = [list |-> stage.list, warned |-> Short(stage.list)]
  BY DEF SalesDone, SaleFiles
<1>2. stage.list \subseteq Sale
  BY StageFields DEF CollectionTypeOK
<1>3. /\ SaleFiles(stage.list) \subseteq File
      /\ \A f \in SaleFiles(stage.list) : f.kind = "sale"
  <2>1. ASSUME NEW s \in stage.list
        PROVE  Pdf(FileOf[Number[s]]) \in File
               /\ Pdf(FileOf[Number[s]]).kind = "sale"
    <3>1. FileOf[Number[s]] \in Name
      BY <1>2, NameOf
    <3> QED  BY <3>1, OtherFiles
  <2> QED  BY <2>1 DEF SaleFiles
<1>4. Moves("idle", {}, {})
  BY <1>1, IdleIsStage DEF Moves
<1>5. Short(stage.list) \in BOOLEAN
  BY DEF Short
<1>6. sales'.list = stage.list /\ sales'.warned = Short(stage.list)
  BY <1>1
<1>7. sales' \in [list : SUBSET Sale, warned : BOOLEAN]
  BY <1>1, <1>2, <1>5
<1> QED  BY <1>1, <1>3, <1>4, <1>6, <1>7

LEMMA KillStep ==
    ASSUME CollectionTypeOK, Kill
    PROVE  /\ Moves("idle", {}, {}) /\ stage.pc # "idle"
           /\ local' \in [File -> Content] /\ hashes' \subseteq Mail
           /\ faults' \in 0..MaxFaults
           /\ "killed" \in collectionCauses' /\ collectionCauses' \subseteq Cause
           /\ collectionCauses \subseteq collectionCauses'
           /\ \A f \in File : local'[f] \in {local[f], "none", "half"}
<1> USE DEF CollectionTypeOK
<1>1. stage' = IdleStage /\ Fails /\ stage.pc # "idle"
  BY DEF Kill
<1>2. faults' \in 0..MaxFaults
  BY <1>1 DEF Fails
<1>3. /\ "killed" \in collectionCauses' /\ collectionCauses' \subseteq Cause
      /\ collectionCauses \subseteq collectionCauses'
  <2>1. \/ Because({"killed"})
        \/ Because({"killed", "restarted"})
    BY DEF Kill
  <2> QED  BY <2>1 DEF Because, Cause
<1>4. hashes' \subseteq Mail
  BY DEF Kill
<1>5. /\ local' \in [File -> Content]
      /\ \A f \in File : local'[f] \in {local[f], "none", "half"}
  <2>1. \/ \E f \in File : local' = With(local, {f}, "half")
        \/ UNCHANGED local
        \/ local' = NoFiles
    <3>1. \/ \E v \in Vendor : local' = With(local, {Render(v)}, "half")
          \/ \E n \in Name : local' = With(local, {Pdf(n)}, "half")
          \/ UNCHANGED local
          \/ local' = NoFiles
      BY DEF Kill
    <3> QED  BY <3>1, VendorFiles, OtherFiles
  <2>2. ASSUME NEW f \in File, local' = With(local, {f}, "half")
        PROVE  /\ local' \in [File -> Content]
               /\ \A g \in File : local'[g] \in {local[g], "none", "half"}
    BY <2>2, WithAt, Contents
  <2>3. CASE local' = NoFiles
    BY <2>3, Contents DEF NoFiles
  <2> QED  BY <2>1, <2>2, <2>3
<1>6. Moves("idle", {}, {})
  BY <1>1, IdleIsStage DEF Moves
<1> QED  BY <1>1, <1>2, <1>3, <1>4, <1>5, <1>6

LEMMA RestartStep ==
    ASSUME CollectionTypeOK, Restart
    PROVE  /\ stage.pc = "idle" /\ local' \in [File -> Content]
           /\ \A f \in File : local'[f] = "none"
           /\ collectionCauses' = collectionCauses \cup {"restarted"}
           /\ faults' \in 0..MaxFaults /\ hashes' = {}
<1>1. stage.pc = "idle" /\ local' = NoFiles /\ Fails /\ Because({"restarted"})
      /\ hashes' = {}
  BY DEF Restart
<1>2. faults' \in 0..MaxFaults
  BY <1>1 DEF Fails, CollectionTypeOK
<1>3. local' \in [File -> Content] /\ \A f \in File : local'[f] = "none"
  BY <1>1, Contents DEF NoFiles
<1> QED  BY <1>1, <1>2, <1>3 DEF Because

(***************************************************************************)
(* Issues, arrivals, attachments and stutters touch no document.           *)
(***************************************************************************)
Outside ==
    UNCHANGED <<local, blob, stage, sheet, sales, package, inbox, uploaded,
                collectionCauses>>

Aside ==
    \/ (\E s \in Sale : Issue(s)) \/ (\E a \in Mail : Arrive(a))
    \/ (\E v \in Vendor, kind \in {"pdf", "xml"} : Attach(v, kind))
    \/ UNCHANGED collectionVars

LEMMA AsideIsOutside == Aside => Outside
BY DEF Aside, Issue, Arrive, Attach, Outside, collectionVars, reportVars

\* A step is one of these.
LEMMA CollectionSteps ==
    ASSUME [CollectionNext]_collectionVars
    PROVE  \/ Aside \/ (\E v \in Vendor : Upload(v))
           \/ BeginCosts \/ TakeUploads \/ StoreUploads \/ DropRenders \/ Gate
           \/ ReportCosts
           \/ (\E v \in Vendor : FetchOriginal(v) \/ Refuse(v) \/ FetchRender(v))
           \/ (\E v \in Vendor : PassOver(v) \/ SearchMail(v) \/ SearchFault(v)
                                 \/ Browse(v))
           \/ BeginSales \/ (\E n \in Name : Download(n)) \/ SalesDone
           \/ Kill \/ Restart \/ Package
BY DEF CollectionNext, World, Costs, Sales, Aside

\* What both ways of searching the mail have in common.
LEMMA SearchStep ==
    ASSUME CollectionTypeOK, NEW v \in Vendor, SearchMail(v) \/ SearchFault(v)
    PROVE  /\ stage.pc = "mail" /\ Route[v] = "mail"
           /\ faults' \in 0..MaxFaults
           /\ \E saved_ \in SUBSET FromMail(v) : \E listed \in SUBSET saved_ :
                 /\ FileMail(v, saved_, listed)
                 /\ collectionCauses' = collectionCauses \cup
                       (IF saved_ # listed THEN {"unlisted"} ELSE {})
<1>1. CASE SearchMail(v)
  <2>1. /\ stage.pc = "mail" /\ Route[v] = "mail"
        /\ FileMail(v, FromMail(v), FromMail(v))
        /\ UNCHANGED <<faults, collectionCauses>>
    BY <1>1 DEF SearchMail
  <2> QED  BY <2>1 DEF CollectionTypeOK
<1>2. CASE SearchFault(v)
  <2>1. /\ stage.pc = "mail" /\ Route[v] = "mail" /\ Fails
        /\ \E saved_ \in SUBSET FromMail(v) : \E listed \in SUBSET saved_ :
              /\ FileMail(v, saved_, listed)
              /\ Because(IF saved_ # listed THEN {"unlisted"} ELSE {})
    BY <1>2 DEF SearchFault
  <2>2. faults' \in 0..MaxFaults
    BY <2>1 DEF Fails, CollectionTypeOK
  <2> QED  BY <2>1, <2>2 DEF Because
<1> QED  BY <1>1, <1>2

(***************************************************************************)
(* Every step keeps the types.                                             *)
(***************************************************************************)
LEMMA CollectionType ==
    CollectionTypeOK /\ [CollectionNext]_collectionVars => CollectionTypeOK'
<1> SUFFICES ASSUME CollectionTypeOK, [CollectionNext]_collectionVars
             PROVE  CollectionTypeOK'
  OBVIOUS
<1> USE DEF worldVars, reportVars, boundVars
<1>0. /\ CostFile \subseteq File
      /\ collectionCauses \subseteq Cause
      /\ "fallback" \in Cause /\ "refused" \in Cause /\ "render_kept" \in Cause
      /\ "unlisted" \in Cause /\ "browser_rejected" \in Cause
      /\ "restarted" \in Cause
  BY CostFiles DEF CollectionTypeOK, Cause
<1>1. CASE Aside
  <2>1. Outside
    BY <1>1, AsideIsOutside
  <2>2. /\ issued' \subseteq Sale /\ mail' \subseteq Mail /\ news' \in 0..MaxNews
        /\ cost' \in [Vendor -> {"none", "render", "pdf", "xml"}]
        /\ UNCHANGED <<hashes, stages, faults>>
    BY <1>1 DEF Aside, Issue, Arrive, Attach, Comes, CollectionTypeOK,
                collectionVars
  <2> QED  BY <2>1, <2>2 DEF Outside, CollectionTypeOK
<1>2. ASSUME NEW v \in Vendor, Upload(v) PROVE CollectionTypeOK'
  <2>1. /\ uploaded' = [uploaded EXCEPT ![v] =
                           IF @ = "none" THEN "whole" ELSE "corrected"]
        /\ inbox' = [inbox EXCEPT ![v] = uploaded'[v]]
        /\ news' \in 0..MaxNews
    BY <1>2 DEF Upload, Comes, CollectionTypeOK
  <2>2. uploaded' \in [Vendor -> Edition]
    BY <2>1 DEF CollectionTypeOK, Edition
  <2>3. inbox' \in [Vendor -> Edition]
    BY <2>1, <2>2 DEF CollectionTypeOK
  <2> QED  BY <1>2, <2>1, <2>2, <2>3 DEF Upload, CollectionTypeOK
<1>3. CASE BeginCosts
  BY <1>3, BeginCostsStep DEF BeginCosts, Moves, CollectionTypeOK
<1>4. CASE TakeUploads
  BY <1>4, TakeUploadsStep DEF TakeUploads, Moves, CollectionTypeOK
<1>5. CASE StoreUploads
  BY <1>0, <1>5, StoreUploadsStep, Uploads DEF StoreUploads, Moves, CollectionTypeOK
<1>6. CASE DropRenders
  BY <1>0, <1>6, DropRendersStep DEF DropRenders, Moves, CollectionTypeOK
<1>7. CASE Gate
  BY <1>0, <1>7, GateStep DEF Gate, Moves, CollectionTypeOK
<1>8. CASE ReportCosts
  BY <1>0, <1>8, ReportCostsStep, Uploads DEF ReportCosts, Moves, CollectionTypeOK
<1>9. ASSUME NEW v \in Vendor, FetchOriginal(v) PROVE CollectionTypeOK'
  BY <1>9, FetchOriginalStep DEF FetchOriginal, Moves, CollectionTypeOK
<1>10. ASSUME NEW v \in Vendor, Refuse(v) PROVE CollectionTypeOK'
  BY <1>0, <1>10, RefuseStep DEF Refuse, Moves, CollectionTypeOK
<1>11. ASSUME NEW v \in Vendor, FetchRender(v) PROVE CollectionTypeOK'
  BY <1>0, <1>11, FetchRenderStep DEF FetchRender, Moves, CollectionTypeOK
<1>12. ASSUME NEW v \in Vendor, PassOver(v) PROVE CollectionTypeOK'
  BY <1>12, PassOverStep DEF PassOver, Moves, CollectionTypeOK
<1>13. ASSUME NEW v \in Vendor, SearchMail(v) \/ SearchFault(v)
       PROVE  CollectionTypeOK'
  <2>1. /\ stage.pc = "mail" /\ faults' \in 0..MaxFaults
    BY <1>13, SearchStep
  <2>2. PICK saved_ \in SUBSET FromMail(v) : \E listed \in SUBSET saved_ :
                 /\ FileMail(v, saved_, listed)
                 /\ collectionCauses' = collectionCauses \cup
                       (IF saved_ # listed THEN {"unlisted"} ELSE {})
    BY <1>13, SearchStep
  <2>3. PICK listed \in SUBSET saved_ :
                 /\ FileMail(v, saved_, listed)
                 /\ collectionCauses' = collectionCauses \cup
                       (IF saved_ # listed THEN {"unlisted"} ELSE {})
    BY <2>2
  <2>4. /\ stage' \in Stage
        /\ local' \in [File -> Content] /\ blob' \in [File -> Content]
        /\ hashes' \subseteq Mail
        /\ UNCHANGED <<worldVars, inbox, reportVars, stages>>
    BY <2>1, <2>3, FileMailStep DEF Moves
  <2>5. collectionCauses' \subseteq Cause
    BY <1>0, <2>3
  <2> QED  BY <2>1, <2>4, <2>5 DEF CollectionTypeOK
<1>14. ASSUME NEW v \in Vendor, Browse(v) PROVE CollectionTypeOK'
  BY <1>14, BrowseStep DEF Browse, Moves, CollectionTypeOK
<1>15. CASE BeginSales
  BY <1>15, BeginSalesStep DEF BeginSales, Moves, CollectionTypeOK
<1>16. ASSUME NEW n \in Name, Download(n) PROVE CollectionTypeOK'
  BY <1>16, DownloadStep DEF Download, Moves, CollectionTypeOK
<1>17. CASE SalesDone
  BY <1>17, SalesDoneStep, Uploads DEF SalesDone, Moves, CollectionTypeOK
<1>18. CASE Kill
  BY <1>18, KillStep DEF Kill, Moves, CollectionTypeOK
<1>19. CASE Restart
  BY <1>0, <1>19, RestartStep DEF Restart, CollectionTypeOK
<1>20. CASE Package
  BY <1>20 DEF Package, CollectionTypeOK
<1> QED
  BY <1>1, <1>2, <1>3, <1>4, <1>5, <1>6, <1>7, <1>8, <1>9, <1>10, <1>11, <1>12,
     <1>13, <1>14, <1>15, <1>16, <1>17, <1>18, <1>19, <1>20, CollectionSteps

-----------------------------------------------------------------------------
(***************************************************************************)
(* A cause is never forgotten.                                             *)
(***************************************************************************)
LEMMA CausesStay ==
    ASSUME CollectionTypeOK, [CollectionNext]_collectionVars
    PROVE  collectionCauses \subseteq collectionCauses'
<1> USE DEF worldVars, reportVars, boundVars
<1>1. CASE Aside
  BY <1>1, AsideIsOutside DEF Outside
<1>2. ASSUME NEW v \in Vendor, Upload(v)
      PROVE  collectionCauses \subseteq collectionCauses'
  BY <1>2 DEF Upload
<1>3. CASE BeginCosts
  BY <1>3 DEF BeginCosts
<1>4. CASE TakeUploads
  BY <1>4, TakeUploadsStep
<1>5. CASE StoreUploads
  BY <1>5, StoreUploadsStep, Uploads, CostFiles
<1>6. CASE DropRenders
  BY <1>6, DropRendersStep
<1>7. CASE Gate
  BY <1>7, GateStep
<1>8. CASE ReportCosts
  BY <1>8, ReportCostsStep, Uploads, CostFiles
<1>9. ASSUME NEW v \in Vendor, FetchOriginal(v) \/ PassOver(v) \/ Browse(v)
      PROVE  collectionCauses \subseteq collectionCauses'
  BY <1>9 DEF FetchOriginal, PassOver, Browse
<1>10. ASSUME NEW v \in Vendor, Refuse(v)
       PROVE  collectionCauses \subseteq collectionCauses'
  BY <1>10, RefuseStep
<1>11. ASSUME NEW v \in Vendor, FetchRender(v)
       PROVE  collectionCauses \subseteq collectionCauses'
  BY <1>11, FetchRenderStep
<1>12. ASSUME NEW v \in Vendor, SearchMail(v) \/ SearchFault(v)
       PROVE  collectionCauses \subseteq collectionCauses'
  BY <1>12, SearchStep
<1>13. CASE BeginSales
  BY <1>13 DEF BeginSales
<1>14. ASSUME NEW n \in Name, Download(n)
       PROVE  collectionCauses \subseteq collectionCauses'
  BY <1>14 DEF Download
<1>15. CASE SalesDone
  BY <1>15, SalesDoneStep, Uploads
<1>16. CASE Kill
  BY <1>16, KillStep
<1>17. CASE Restart
  BY <1>17, RestartStep
<1>18. CASE Package
  BY <1>18 DEF Package
<1> QED
  BY <1>1, <1>2, <1>3, <1>4, <1>5, <1>6, <1>7, <1>8, <1>9, <1>10, <1>11, <1>12,
     <1>13, <1>14, <1>15, <1>16, <1>17, <1>18, CollectionSteps

\* What was excused stays excused.
LEMMA StillDespite ==
    ASSUME CollectionTypeOK, [CollectionNext]_collectionVars, NEW excuses
    PROVE  Despite(excuses) => collectionCauses' \cap excuses # {}
BY CausesStay DEF Despite

(***************************************************************************)
(* What comes into a file: nothing, what another place has, or all of a    *)
(* document, an upload in its edition.                                     *)
(***************************************************************************)
LEMMA FileFrom ==
    ASSUME CollectionTypeOK, [CollectionNext]_collectionVars, NEW f \in File
    PROVE  /\ \/ local'[f] \in {local[f], "none", "whole"}
              \/ local'[f] = "half" /\ "killed" \in collectionCauses'
              \/ local'[f] \in Edition /\ f.kind = "manual"
           /\ blob'[f] \in {blob[f], "none", local[f]}
<1> USE DEF worldVars, reportVars, boundVars
<1> DEFINE Goal ==
           /\ \/ local'[f] \in {local[f], "none", "whole"}
              \/ local'[f] = "half" /\ "killed" \in collectionCauses'
              \/ local'[f] \in Edition /\ f.kind = "manual"
           /\ blob'[f] \in {blob[f], "none", local[f]}
<1>1. CASE Aside
  BY <1>1, AsideIsOutside DEF Outside
<1>2. ASSUME NEW v \in Vendor, Upload(v) PROVE Goal
  BY <1>2 DEF Upload
<1>3. CASE BeginCosts
  BY <1>3 DEF BeginCosts
<1>4. CASE TakeUploads
  <2>1. UNCHANGED blob
    BY <1>4 DEF TakeUploads
  <2>2. CASE \E v \in Vendor : f = Manual(v)
    <3>1. PICK v \in Vendor : f = Manual(v)
      BY <2>2
    <3>2. local'[f] \in {local[f], inbox[v]} /\ inbox[v] \in Edition
      BY <1>4, <3>1, TakeUploadsStep DEF CollectionTypeOK
    <3> QED  BY <2>1, <3>1, <3>2, VendorFiles
  <2>3. CASE ~\E v \in Vendor : f = Manual(v)
    <3>1. local'[f] = local[f]
      BY <1>4, <2>3, TakeUploadsStep DEF Keeps
    <3> QED  BY <2>1, <3>1
  <2> QED  BY <2>2, <2>3
<1>5. CASE StoreUploads
  <2>1. UNCHANGED local
    BY <1>5 DEF StoreUploads
  <2> QED  BY <1>5, <2>1, StoreUploadsStep, Uploads, CostFiles
<1>6. CASE DropRenders
  BY <1>6, DropRendersStep DEF Keeps
<1>7. CASE Gate
  <2>1. UNCHANGED blob
    BY <1>7 DEF Gate
  <2> QED  BY <1>7, <2>1, GateStep DEF Keeps, Turns
<1>8. CASE ReportCosts
  <2>1. UNCHANGED local
    BY <1>8 DEF ReportCosts
  <2> QED  BY <1>8, <2>1, ReportCostsStep, Uploads, CostFiles
<1>9. ASSUME NEW v \in Vendor, FetchOriginal(v) PROVE Goal
  <2>1. UNCHANGED blob
    BY <1>9 DEF FetchOriginal
  <2> QED  BY <1>9, <2>1, FetchOriginalStep DEF Keeps, Turns
<1>10. ASSUME NEW v \in Vendor, Refuse(v) \/ PassOver(v) PROVE Goal
  BY <1>10 DEF Refuse, PassOver
<1>11. ASSUME NEW v \in Vendor, FetchRender(v) PROVE Goal
  <2>1. UNCHANGED blob
    BY <1>11 DEF FetchRender
  <2> QED  BY <1>11, <2>1, FetchRenderStep DEF Keeps
<1>12. ASSUME NEW v \in Vendor, SearchMail(v) \/ SearchFault(v) PROVE Goal
  <2>1. PICK saved_ \in SUBSET FromMail(v) : \E listed \in SUBSET saved_ :
                 FileMail(v, saved_, listed)
    BY <1>12, SearchStep
  <2>2. PICK listed \in SUBSET saved_ : FileMail(v, saved_, listed)
    BY <2>1
  <2>3. stage.pc = "mail"
    BY <1>12, SearchStep
  <2>4. /\ Keeps(Attachments(saved_) \cup {Render(v)})
        /\ Turns(Attachments(saved_), "whole")
        /\ local'[Render(v)] \in {local[Render(v)], "none"}
        /\ blob'[f] = blob[f] \/ blob'[f] = "none"
    BY <2>2, <2>3, FileMailStep
  <2> QED  BY <2>4 DEF Keeps, Turns
<1>13. ASSUME NEW v \in Vendor, Browse(v) PROVE Goal
  <2>1. UNCHANGED blob
    BY <1>13 DEF Browse
  <2>2. PICK new : Keeps(Attachments(new)) /\ Turns(Attachments(new), "whole")
    BY <1>13, BrowseStep
  <2> QED  BY <2>1, <2>2 DEF Keeps, Turns
<1>14. CASE BeginSales
  BY <1>14 DEF BeginSales
<1>15. ASSUME NEW n \in Name, Download(n) PROVE Goal
  <2>1. UNCHANGED blob
    BY <1>15 DEF Download
  <2> QED  BY <1>15, <2>1, DownloadStep DEF Keeps
<1>16. CASE SalesDone
  <2>1. UNCHANGED local
    BY <1>16 DEF SalesDone
  <2> QED  BY <1>16, <2>1, SalesDoneStep, Uploads
<1>17. CASE Kill
  <2>1. UNCHANGED blob
    BY <1>17 DEF Kill
  <2> QED  BY <1>17, <2>1, KillStep
<1>18. CASE Restart
  <2>1. UNCHANGED blob
    BY <1>18 DEF Restart
  <2> QED  BY <1>18, <2>1, RestartStep
<1>19. CASE Package
  BY <1>19 DEF Package
<1> QED
  BY <1>1, <1>2, <1>3, <1>4, <1>5, <1>6, <1>7, <1>8, <1>9, <1>10, <1>11, <1>12,
     <1>13, <1>14, <1>15, <1>16, <1>17, <1>18, <1>19, CollectionSteps

LEMMA ContentSteps ==
    ASSUME CollectionTypeOK, ContentInv, [CollectionNext]_collectionVars
    PROVE  ContentInv'
<1>1. ASSUME "killed" \notin collectionCauses', NEW f \in File
      PROVE  local'[f] # "half" /\ blob'[f] # "half"
  <2>1. local[f] # "half" /\ blob[f] # "half"
    BY <1>1, CausesStay DEF ContentInv
  <2> QED  BY <1>1, <2>1, FileFrom DEF Edition
<1>2. ASSUME NEW f \in File, f.kind # "manual"
      PROVE  local'[f] # "corrected" /\ blob'[f] # "corrected"
  BY <1>2, FileFrom DEF ContentInv
<1> QED  BY <1>1, <1>2 DEF ContentInv

(***************************************************************************)
(* Listed files stay in the directory until the gate.                      *)
(***************************************************************************)
LEMMA ListedSteps ==
    ASSUME CollectionTypeOK, ListedInv, [CollectionNext]_collectionVars
    PROVE  ListedInv'
<1> USE DEF worldVars, reportVars, boundVars
<1>0. /\ stage.paths \subseteq File /\ stage.list \subseteq Sale
  BY StageFields DEF CollectionTypeOK
<1>1. CASE Aside
  BY <1>1, AsideIsOutside DEF Outside, ListedInv, Has
<1>2. ASSUME NEW v \in Vendor, Upload(v) PROVE ListedInv'
  BY <1>2 DEF Upload, ListedInv, Has
<1>3. CASE BeginCosts
  BY <1>3, BeginCostsStep DEF Moves, ListedInv
<1>4. CASE TakeUploads
  BY <1>4, TakeUploadsStep DEF Moves, ListedInv
<1>5. CASE StoreUploads
  BY <1>5, StoreUploadsStep DEF Moves, ListedInv
<1>6. CASE DropRenders
  BY <1>6, DropRendersStep DEF Moves, ListedInv
<1>7. CASE Gate
  BY <1>7, GateStep DEF Moves, ListedInv
<1>8. CASE ReportCosts
  BY <1>8, ReportCostsStep DEF Moves, ListedInv
<1>9. ASSUME NEW v \in Vendor, FetchOriginal(v) PROVE ListedInv'
  <2>1. /\ stage.pc = "fakturownia" /\ stage'.pc = "fakturownia"
        /\ stage'.paths = stage.paths \cup {Original(v)}
        /\ \A f \in File : f # Original(v) => local'[f] = local[f]
        /\ local'[Original(v)] = "whole"
    BY <1>9, FetchOriginalStep DEF Moves, Keeps, Turns
  <2>2. \A f \in stage'.paths : /\ f.kind \in {"render", "original"}
                                /\ local'[f] # "none"
    BY <1>0, <2>1, VendorFiles DEF ListedInv, Has
  <2> QED  BY <2>1, <2>2 DEF ListedInv, Has
<1>10. ASSUME NEW v \in Vendor, Refuse(v) PROVE ListedInv'
  BY <1>10, RefuseStep DEF Moves, ListedInv
<1>11. ASSUME NEW v \in Vendor, FetchRender(v) PROVE ListedInv'
  <2>1. /\ stage.pc = "fakturownia" /\ stage'.pc = "fakturownia"
        /\ stage'.paths = stage.paths \cup {Render(v)}
        /\ \A f \in File : f # Render(v) => local'[f] = local[f]
        /\ local'[Render(v)] = IF Has(local, Render(v)) THEN local[Render(v)]
                               ELSE "whole"
    BY <1>11, FetchRenderStep DEF Moves, Keeps
  <2>2. \A f \in stage'.paths : /\ f.kind \in {"render", "original"}
                                /\ local'[f] # "none"
    BY <1>0, <2>1, VendorFiles DEF ListedInv, Has
  <2> QED  BY <2>1, <2>2 DEF ListedInv, Has
<1>12. ASSUME NEW v \in Vendor, PassOver(v) PROVE ListedInv'
  <2>1. UNCHANGED local
    BY <1>12 DEF PassOver
  <2> QED  BY <1>12, <2>1, PassOverStep DEF Moves, ListedInv, Has
<1>13. ASSUME NEW v \in Vendor, SearchMail(v) \/ SearchFault(v) PROVE ListedInv'
  <2>1. PICK saved_ \in SUBSET FromMail(v) : \E listed \in SUBSET saved_ :
                 FileMail(v, saved_, listed)
    BY <1>13, SearchStep
  <2>2. PICK listed \in SUBSET saved_ : FileMail(v, saved_, listed)
    BY <2>1
  <2>3. stage.pc = "mail" /\ Route[v] = "mail"
    BY <1>13, SearchStep
  <2>4. /\ stage'.pc = "mail"
        /\ stage'.paths = stage.paths \cup Attachments(listed)
        /\ Keeps(Attachments(saved_) \cup {Render(v)})
        /\ Turns(Attachments(saved_), "whole")
    BY <2>2, <2>3, FileMailStep DEF Moves
  <2>5. /\ saved_ \subseteq Mail /\ listed \subseteq Mail
        /\ \A a \in listed : a.vendor = v /\ a \in saved_
    BY NewMail
  <2>6. \A f \in Attachments(listed) :
           /\ f \in File /\ f.kind = "mail" /\ f.of.vendor = v
           /\ f \in Attachments(saved_)
    BY <2>5, AttachmentFiles
  <2>7. ASSUME NEW f \in stage'.paths
        PROVE  /\ f.kind = "mail" /\ local'[f] # "none"
               /\ Route[f.of.vendor] # "manual"
    <3>1. CASE f \in Attachments(listed)
      BY <2>3, <2>4, <2>6, <3>1 DEF Turns
    <3>2. CASE f \notin Attachments(listed)
      <4>1. /\ f \in stage.paths /\ f \in File /\ f.kind = "mail"
            /\ local[f] # "none" /\ Route[f.of.vendor] # "manual"
        BY <1>0, <2>3, <2>4, <3>2 DEF ListedInv, Has
      <4>2. f # Render(v)
        BY <4>1, VendorFiles
      <4> QED  BY <2>4, <4>1, <4>2 DEF Keeps, Turns
    <3> QED  BY <3>1, <3>2
  <2> QED  BY <2>4, <2>7 DEF ListedInv, Has
<1>14. ASSUME NEW v \in Vendor, Browse(v) PROVE ListedInv'
  <2>1. PICK named \in SUBSET {a \in mail : a.vendor = v} :
           \E new \in SUBSET named :
              /\ Moves("mail", IF named = {} THEN stage.found
                               ELSE stage.found \cup {v},
                       stage.paths \cup Attachments(new))
              /\ Keeps(Attachments(new)) /\ Turns(Attachments(new), "whole")
    BY <1>14, BrowseStep
  <2>2. PICK new \in SUBSET named :
              /\ Moves("mail", IF named = {} THEN stage.found
                               ELSE stage.found \cup {v},
                       stage.paths \cup Attachments(new))
              /\ Keeps(Attachments(new)) /\ Turns(Attachments(new), "whole")
    BY <2>1
  <2>3. stage.pc = "mail" /\ Route[v] = "browser"
    BY <1>14, BrowseStep
  <2>4. /\ stage'.pc = "mail"
        /\ stage'.paths = stage.paths \cup Attachments(new)
    BY <2>2 DEF Moves
  <2>5. new \subseteq Mail /\ \A a \in new : a.vendor = v
    BY DEF CollectionTypeOK
  <2>6. \A f \in Attachments(new) :
           f \in File /\ f.kind = "mail" /\ f.of.vendor = v
    BY <2>5, AttachmentFiles
  <2>7. ASSUME NEW f \in stage'.paths
        PROVE  /\ f.kind = "mail" /\ local'[f] # "none"
               /\ Route[f.of.vendor] # "manual"
    <3>1. CASE f \in Attachments(new)
      BY <2>2, <2>3, <2>6, <3>1 DEF Turns
    <3>2. CASE f \notin Attachments(new)
      <4>1. /\ f \in stage.paths /\ f \in File /\ f.kind = "mail"
            /\ local[f] # "none" /\ Route[f.of.vendor] # "manual"
        BY <1>0, <2>3, <2>4, <3>2 DEF ListedInv, Has
      <4> QED  BY <2>2, <3>2, <4>1 DEF Keeps
    <3> QED  BY <3>1, <3>2
  <2> QED  BY <2>4, <2>7 DEF ListedInv, Has
<1>15. CASE BeginSales
  <2>1. /\ stage'.pc = "download" /\ stage'.paths = {} /\ stage'.list = issued
        /\ stage'.todo = {FileOf[Number[s]] : s \in issued}
    BY <1>15, BeginSalesStep DEF Moves
  <2> QED  BY <2>1 DEF ListedInv
<1>16. ASSUME NEW n \in Name, Download(n) PROVE ListedInv'
  <2>1. /\ stage.pc = "download" /\ stage'.pc = "download"
        /\ stage'.paths = stage.paths
        /\ stage'.list = stage.list /\ stage'.todo = stage.todo \ {n}
        /\ \A f \in File : f # Pdf(n) => local'[f] = local[f]
        /\ local'[Pdf(n)] = IF Has(local, Pdf(n)) THEN local[Pdf(n)]
                            ELSE "whole"
    BY <1>16, DownloadStep DEF Moves, Keeps
  <2>2. ASSUME NEW s \in stage.list, FileOf[Number[s]] \notin stage.todo \ {n}
        PROVE  local'[Pdf(FileOf[Number[s]])] # "none"
    <3>1. Pdf(FileOf[Number[s]]) \in File
      BY <1>0, NameOf, OtherFiles
    <3>2. CASE FileOf[Number[s]] = n
      BY <2>1, <3>2 DEF Has
    <3>3. CASE FileOf[Number[s]] # n
      <4>1. local[Pdf(FileOf[Number[s]])] # "none"
        BY <2>1, <2>2, <3>3 DEF ListedInv, Has
      <4> QED  BY <2>1, <3>1, <4>1 DEF Has
    <3> QED  BY <3>2, <3>3
  <2> QED  BY <2>1, <2>2 DEF ListedInv, Has
<1>17. CASE SalesDone
  BY <1>17, SalesDoneStep DEF Moves, ListedInv
<1>18. CASE Kill
  BY <1>18, KillStep DEF Moves, ListedInv
<1>19. CASE Restart
  <2>1. UNCHANGED stage
    BY <1>19 DEF Restart
  <2> QED  BY <1>19, <2>1, RestartStep DEF ListedInv
<1>20. CASE Package
  BY <1>20 DEF Package, ListedInv, Has
<1> QED
  BY <1>1, <1>2, <1>3, <1>4, <1>5, <1>6, <1>7, <1>8, <1>9, <1>10, <1>11, <1>12,
     <1>13, <1>14, <1>15, <1>16, <1>17, <1>18, <1>19, <1>20, CollectionSteps

(***************************************************************************)
(* A vendor that is found has a document.                                  *)
(***************************************************************************)
LEMMA CostDocument ==
    ASSUME NEW v, NEW files, NEW f \in File
    PROVE  f \in CostsOf(v, files) <=>
              /\ f.kind # "sale" /\ files[f] \notin {"none", "half"}
              /\ (IF f.kind = "mail" THEN f.of.vendor ELSE f.of) = v
BY DEF CostsOf, CostFile

LEMMA FoundSteps ==
    ASSUME CollectionTypeOK, ContentInv, ListedInv, FoundInv,
           [CollectionNext]_collectionVars
    PROVE  FoundInv'
<1> USE DEF worldVars, reportVars, boundVars
<1> DEFINE Documents(files) == \A v \in stage.found : CostsOf(v, files) # {}
<1>0. /\ stage.paths \subseteq File /\ stage.found \subseteq Vendor
      /\ local \in [File -> Content]
  BY StageFields DEF CollectionTypeOK
<1>a. CASE "killed" \in collectionCauses'
  BY <1>a DEF FoundInv, Despite
<1>b. CASE "killed" \notin collectionCauses'
  <2> DEFINE Kept == stage'.pc \in {"inputs", "fakturownia", "mail"}
                        /\ \A v \in stage'.found : CostsOf(v, local') # {}
  <2>0. /\ ~Despite({"killed"})
        /\ \A f \in File : local[f] # "half"
    BY <1>b, CausesStay DEF ContentInv, Despite
  <2>z. Kept => FoundInv'
    BY DEF FoundInv
  <2>y. stage'.pc \notin {"inputs", "fakturownia", "mail", "report"} => FoundInv'
    BY DEF FoundInv
  <2>x. stage.pc \in {"inputs", "fakturownia", "mail"}
           => \A v \in stage.found : \E f \in File : f \in CostsOf(v, local)
    <3>1. \A v : CostsOf(v, local) \subseteq File
      BY DEF CostsOf, CostFile
    <3> QED  BY <2>0, <3>1 DEF FoundInv
  <2>1. CASE Aside
    BY <2>1, AsideIsOutside DEF Outside, FoundInv, Despite, Has
  <2>2. ASSUME NEW v \in Vendor, Upload(v) PROVE FoundInv'
    BY <2>2 DEF Upload, FoundInv, Despite, Has
  <2>3. CASE BeginCosts
    BY <2>3, <2>y, BeginCostsStep DEF Moves
  <2>4. CASE TakeUploads
    <3>1. /\ stage'.pc = "inputs"
          /\ stage'.found = {v \in Vendor : inbox[v] # "none"}
          /\ \A v \in Vendor :
                local'[Manual(v)] = IF inbox[v] # "none" /\ ~Has(local, Manual(v))
                                    THEN inbox[v] ELSE local[Manual(v)]
          /\ inbox \in [Vendor -> Edition]
      BY <2>4, TakeUploadsStep DEF Moves, CollectionTypeOK
    <3>2. ASSUME NEW v \in stage'.found PROVE CostsOf(v, local') # {}
      <4>1. local'[Manual(v)] \notin {"none", "half"}
        <5>1. v \in Vendor /\ inbox[v] # "none" /\ inbox[v] # "half"
          BY <3>1 DEF Edition
        <5>2. local[Manual(v)] # "half"
          BY <2>0, <5>1, VendorFiles
        <5> QED  BY <3>1, <5>1, <5>2 DEF Has
      <4>2. /\ Manual(v) \in File /\ Manual(v).kind = "manual"
            /\ Manual(v).of = v
        BY <3>1, VendorFiles
      <4> QED  BY <4>1, <4>2, CostDocument
    <3> QED  BY <2>z, <3>1, <3>2
  <2>5. CASE StoreUploads
    <3>1. /\ stage.pc = "inputs" /\ stage'.pc = "fakturownia"
          /\ stage'.found = stage.found /\ local' = local
      BY <2>5, StoreUploadsStep DEF Moves, StoreUploads
    <3> QED  BY <2>0, <2>z, <3>1 DEF FoundInv
  <2>6. CASE DropRenders
    <3>1. /\ stage.pc = "fakturownia" /\ stage'.pc = "mail"
          /\ stage'.found = stage.found /\ Keeps(Renders)
          /\ \A f \in Renders : f.kind = "render" /\ Original(f.of) \in stage.paths
      BY <2>6, DropRendersStep DEF Moves
    <3>2. ASSUME NEW v \in stage'.found PROVE CostsOf(v, local') # {}
      <4>1. PICK f \in File : f \in CostsOf(v, local)
        BY <2>x, <3>1
      <4>2. CASE f \in Renders
        <5>1. v \in Vendor /\ Original(v) \in stage.paths
          BY <1>0, <3>1, <4>1, <4>2, CostDocument
        <5>2. /\ Original(v) \in File /\ Original(v).kind = "original"
              /\ Original(v).of = v
          BY <5>1, VendorFiles
        <5>3. local[Original(v)] \notin {"none", "half"}
          BY <2>0, <3>1, <5>1, <5>2 DEF ListedInv, Has
        <5>4. local'[Original(v)] = local[Original(v)]
          BY <3>1, <5>2 DEF Keeps
        <5> QED  BY <5>2, <5>3, <5>4, CostDocument
      <4>3. CASE f \notin Renders
        <5>1. local'[f] = local[f]
          BY <3>1, <4>3 DEF Keeps
        <5> QED  BY <4>1, <5>1, CostDocument
      <4> QED  BY <4>2, <4>3
    <3> QED  BY <2>z, <3>1, <3>2
  <2>7. CASE Gate
    <3> DEFINE out == Rejected(stage.paths)
               of(v) == {f \in stage.paths : f.of.vendor = v}
               lost == {v \in stage.found : /\ Route[v] = "mail" /\ of(v) # {}
                                            /\ of(v) \subseteq out}
    <3>1. /\ stage.pc = "mail" /\ stage'.pc = "report"
          /\ stage'.found = stage.found \ lost /\ stage'.paths = stage.paths
          /\ out \subseteq stage.paths /\ Keeps(out)
          /\ "browser_rejected" \notin collectionCauses'
                => \A f \in out : Route[f.of.vendor] # "browser"
      BY <2>7, GateStep DEF Moves
    <3> HIDE DEF out
    <3>2. \A f \in stage.paths : /\ f \in File /\ f.kind = "mail"
                                 /\ local[f] \notin {"none", "half"}
                                 /\ Route[f.of.vendor] # "manual"
      BY <1>0, <2>0, <3>1 DEF ListedInv, Has
    <3>3. ASSUME NEW v \in stage'.found, Route[v] = "mail",
                 \E f \in stage.paths : f.of.vendor = v
          PROVE  \E f \in stage.paths : /\ f.of.vendor = v /\ f \in File
                                        /\ local'[f] = local[f]
      <4>1. PICK f \in stage.paths : f.of.vendor = v /\ f \notin out
        BY <3>1, <3>3
      <4> QED  BY <3>1, <3>2, <4>1 DEF Keeps
    <3>4. ASSUME "browser_rejected" \notin collectionCauses', NEW v \in stage'.found
          PROVE  CostsOf(v, local') # {}
      <4>1. PICK f \in File : f \in CostsOf(v, local)
        BY <2>x, <3>1
      <4>2. CASE f \in out
        <5>1. f \in stage.paths /\ f.kind = "mail" /\ f.of.vendor = v
          BY <3>1, <3>2, <4>1, <4>2, CostDocument
        <5>2. v \in Vendor /\ Route[v] = "mail"
          BY <1>0, <3>1, <3>2, <3>4, <4>2, <5>1
        <5>3. PICK g \in stage.paths : /\ g.of.vendor = v /\ g \in File
                                       /\ local'[g] = local[g]
          BY <3>3, <5>1, <5>2
        <5> QED  BY <3>2, <5>3, CostDocument
      <4>3. CASE f \notin out
        <5>1. local'[f] = local[f]
          BY <3>1, <4>3 DEF Keeps
        <5> QED  BY <4>1, <5>1, CostDocument
      <4> QED  BY <4>2, <4>3
    <3>5. \A v \in stage'.found :
             Route[v] = "mail" /\ (\E f \in stage'.paths : f.of.vendor = v)
                => \E f \in stage'.paths : f.of.vendor = v /\ local'[f] # "none"
      BY <3>1, <3>2, <3>3
    <3> QED  BY <3>1, <3>4, <3>5 DEF FoundInv, Despite, Has
  <2>8. CASE ReportCosts
    BY <2>8, <2>y, ReportCostsStep DEF Moves
  <2>9. ASSUME NEW w \in Vendor, FetchOriginal(w) PROVE FoundInv'
    <3>1. /\ stage.pc = "fakturownia" /\ stage'.pc = "fakturownia"
          /\ stage'.found = stage.found \cup {w}
          /\ Keeps({Original(w)}) /\ local'[Original(w)] = "whole"
      BY <2>9, FetchOriginalStep DEF Moves, Turns
    <3>2. ASSUME NEW v \in stage'.found PROVE CostsOf(v, local') # {}
      <4>1. CASE v = w
        <5>1. /\ Original(w) \in File /\ Original(w).kind = "original"
              /\ Original(w).of = w
          BY VendorFiles
        <5> QED  BY <3>1, <4>1, <5>1, CostDocument
      <4>2. CASE v # w
        <5>1. PICK f \in File : f \in CostsOf(v, local)
          BY <2>x, <3>1, <4>2
        <5>2. local'[f] = local[f] \/ local'[f] = "whole"
          BY <3>1 DEF Keeps
        <5> QED  BY <5>1, <5>2, CostDocument
      <4> QED  BY <4>1, <4>2
    <3> QED  BY <2>z, <3>1, <3>2
  <2>10. ASSUME NEW w \in Vendor, Refuse(w) PROVE FoundInv'
    BY <2>10, <2>y, RefuseStep DEF Moves
  <2>11. ASSUME NEW w \in Vendor, FetchRender(w) PROVE FoundInv'
    <3>1. /\ stage.pc = "fakturownia" /\ stage'.pc = "fakturownia"
          /\ stage'.found = stage.found \cup {w}
          /\ Keeps({Render(w)})
          /\ local'[Render(w)] = IF Has(local, Render(w)) THEN local[Render(w)]
                                 ELSE "whole"
      BY <2>11, FetchRenderStep DEF Moves
    <3>2. local'[Render(w)] \notin {"none", "half"}
      BY <2>0, <3>1, VendorFiles DEF Has
    <3>3. ASSUME NEW v \in stage'.found PROVE CostsOf(v, local') # {}
      <4>1. CASE v = w
        <5>1. /\ Render(w) \in File /\ Render(w).kind = "render"
              /\ Render(w).of = w
          BY VendorFiles
        <5> QED  BY <3>2, <4>1, <5>1, CostDocument
      <4>2. CASE v # w
        <5>1. PICK f \in File : f \in CostsOf(v, local)
          BY <2>x, <3>1, <4>2
        <5>2. local'[f] = local[f] \/ local'[f] \notin {"none", "half"}
          BY <3>1, <3>2 DEF Keeps
        <5> QED  BY <5>1, <5>2, CostDocument
      <4> QED  BY <4>1, <4>2
    <3> QED  BY <2>z, <3>1, <3>3
  <2>12. ASSUME NEW w \in Vendor, PassOver(w) PROVE FoundInv'
    <3>1. /\ stage.pc = "fakturownia" /\ stage'.pc = "fakturownia"
          /\ stage'.found = stage.found /\ local' = local
      BY <2>12, PassOverStep DEF Moves, PassOver
    <3> QED  BY <2>0, <2>z, <3>1 DEF FoundInv
  <2>13. ASSUME NEW w \in Vendor, SearchMail(w) \/ SearchFault(w) PROVE FoundInv'
    <3>1. PICK saved_ \in SUBSET FromMail(w) : \E listed \in SUBSET saved_ :
                 FileMail(w, saved_, listed)
      BY <2>13, SearchStep
    <3>2. PICK listed \in SUBSET saved_ : FileMail(w, saved_, listed)
      BY <3>1
    <3>3. stage.pc = "mail"
      BY <2>13, SearchStep
    <3>4. /\ stage'.pc = "mail"
          /\ stage'.found = IF listed = {} THEN stage.found ELSE stage.found \cup {w}
          /\ Keeps(Attachments(saved_) \cup {Render(w)})
          /\ Turns(Attachments(saved_), "whole")
          /\ listed = {} => local'[Render(w)] = local[Render(w)]
      BY <3>2, <3>3, FileMailStep DEF Moves
    <3>5. /\ saved_ \subseteq Mail
          /\ \A a \in listed : a.vendor = w /\ a \in saved_
      BY NewMail
    <3>6. listed # {} => CostsOf(w, local') # {}
      <4> SUFFICES ASSUME listed # {} PROVE CostsOf(w, local') # {}
        OBVIOUS
      <4>1. PICK a \in listed : a.vendor = w /\ a \in saved_ /\ a \in Mail
        BY <3>5
      <4>2. /\ Attached(a) \in File /\ Attached(a).kind = "mail"
            /\ Attached(a).of.vendor = w
        BY <4>1, OtherFiles
      <4>3. local'[Attached(a)] = "whole"
        BY <3>4, <3>5, <4>1, AttachmentFiles DEF Turns
      <4> QED  BY <4>2, <4>3, CostDocument
    <3>7. ASSUME NEW v \in stage'.found PROVE CostsOf(v, local') # {}
      <4>1. CASE v = w /\ listed # {}
        BY <3>6, <4>1
      <4>2. CASE ~(v = w /\ listed # {})
        <5>1. PICK f \in File : f \in CostsOf(v, local)
          BY <2>x, <3>3, <3>4, <4>2
        <5>2. CASE f = Render(w)
          <6>1. v = w
            BY <5>1, <5>2, VendorFiles, CostDocument
          <6>2. local'[f] = local[f]
            BY <3>4, <4>2, <5>2, <6>1
          <6> QED  BY <5>1, <6>2, CostDocument
        <5>3. CASE f # Render(w)
          <6>1. local'[f] = local[f] \/ local'[f] = "whole"
            BY <3>4, <5>3 DEF Keeps, Turns
          <6> QED  BY <5>1, <6>1, CostDocument
        <5> QED  BY <5>2, <5>3
      <4> QED  BY <4>1, <4>2
    <3> QED  BY <2>z, <3>4, <3>7
  <2>14. ASSUME NEW w \in Vendor, Browse(w) PROVE FoundInv'
    <3>1. PICK named \in SUBSET {a \in mail : a.vendor = w} :
             \E new \in SUBSET named :
                /\ \A a \in named \ new : Has(local, Attached(a))
                /\ Moves("mail", IF named = {} THEN stage.found
                                 ELSE stage.found \cup {w},
                         stage.paths \cup Attachments(new))
                /\ Keeps(Attachments(new)) /\ Turns(Attachments(new), "whole")
      BY <2>14, BrowseStep
    <3>2. PICK new \in SUBSET named :
                /\ \A a \in named \ new : Has(local, Attached(a))
                /\ Moves("mail", IF named = {} THEN stage.found
                                 ELSE stage.found \cup {w},
                         stage.paths \cup Attachments(new))
                /\ Keeps(Attachments(new)) /\ Turns(Attachments(new), "whole")
      BY <3>1
    <3>3. stage.pc = "mail"
      BY <2>14, BrowseStep
    <3>4. /\ stage'.pc = "mail"
          /\ stage'.found = IF named = {} THEN stage.found ELSE stage.found \cup {w}
      BY <3>2 DEF Moves
    <3>5. new \subseteq Mail /\ \A a \in named : a \in Mail /\ a.vendor = w
      BY DEF CollectionTypeOK
    <3>6. named # {} => CostsOf(w, local') # {}
      <4> SUFFICES ASSUME named # {} PROVE CostsOf(w, local') # {}
        OBVIOUS
      <4>1. PICK a \in named : a \in Mail /\ a.vendor = w
        BY <3>5
      <4>2. /\ Attached(a) \in File /\ Attached(a).kind = "mail"
            /\ Attached(a).of = a
        BY <4>1, OtherFiles
      <4>3. local'[Attached(a)] \notin {"none", "half"}
        <5>1. CASE a \in new
          BY <3>2, <3>5, <5>1, AttachmentFiles DEF Turns
        <5>2. CASE a \notin new
          <6>1. Attached(a) \notin Attachments(new)
            BY <3>5, <4>2, <5>2, AttachmentFiles
          <6>2. local'[Attached(a)] = local[Attached(a)]
            BY <3>2, <4>2, <6>1 DEF Keeps
          <6>3. local[Attached(a)] # "none"
            BY <3>2, <4>1, <5>2 DEF Has
          <6> QED  BY <2>0, <4>2, <6>2, <6>3
        <5> QED  BY <5>1, <5>2
      <4> QED  BY <4>1, <4>2, <4>3, CostDocument
    <3>7. ASSUME NEW v \in stage'.found PROVE CostsOf(v, local') # {}
      <4>1. CASE v = w /\ named # {}
        BY <3>6, <4>1
      <4>2. CASE ~(v = w /\ named # {})
        <5>1. PICK f \in File : f \in CostsOf(v, local)
          BY <2>x, <3>3, <3>4, <4>2
        <5>2. local'[f] = local[f] \/ local'[f] = "whole"
          BY <3>2 DEF Keeps, Turns
        <5> QED  BY <5>1, <5>2, CostDocument
      <4> QED  BY <4>1, <4>2
    <3> QED  BY <2>z, <3>4, <3>7
  <2>15. CASE BeginSales
    BY <2>15, <2>y, BeginSalesStep DEF Moves
  <2>16. ASSUME NEW n \in Name, Download(n) PROVE FoundInv'
    BY <2>16, <2>y, DownloadStep DEF Moves
  <2>17. CASE SalesDone
    BY <2>17, <2>y, SalesDoneStep DEF Moves
  <2>18. CASE Kill
    BY <2>18, <2>y, KillStep DEF Moves
  <2>19. CASE Restart
    BY <2>19, <2>y, RestartStep DEF Restart
  <2>20. CASE Package
    BY <2>20 DEF Package, FoundInv, Despite, Has
  <2> QED
    BY <2>1, <2>2, <2>3, <2>4, <2>5, <2>6, <2>7, <2>8, <2>9, <2>10, <2>11,
       <2>12, <2>13, <2>14, <2>15, <2>16, <2>17, <2>18, <2>19, <2>20,
       CollectionSteps
<1> QED  BY <1>a, <1>b

(***************************************************************************)
(* What the sheet says was found is in storage.                            *)
(***************************************************************************)
LEMMA SheetSteps ==
    ASSUME CollectionTypeOK, ContentInv, ListedInv, FoundInv, SheetInv,
           [CollectionNext]_collectionVars
    PROVE  SheetInv'
<1> USE DEF worldVars, reportVars, boundVars
<1>a. CASE collectionCauses' \cap {"killed", "upload_failed"} # {}
  BY <1>a DEF SheetInv, Despite
<1>b. CASE collectionCauses' \cap {"killed", "upload_failed"} = {}
  <2>0. /\ ~Despite({"killed", "upload_failed"}) /\ ~Despite({"killed"})
        /\ \A f \in File : local[f] # "half"
        /\ "killed" \notin collectionCauses' /\ "upload_failed" \notin collectionCauses'
    BY <1>b, CausesStay DEF ContentInv, Despite
  <2>1. Despite({"browser_rejected"}) => collectionCauses' \cap {"browser_rejected"} # {}
    BY StillDespite
  \* a step after which every document that is no render is still there, and
  \* outside the search for mail the renders too
  <2>2. ASSUME UNCHANGED sheet,
               \A f \in File : \/ blob'[f] = blob[f] \/ blob'[f] \notin {"none", "half"}
                               \/ f.kind = "render" /\ stage'.pc \in {"mail", "report"},
               stage.pc \in {"mail", "report"} => stage'.pc \in {"mail", "report"}
        PROVE  SheetInv'
    <3>1. ASSUME NEW v \in sheet.found, ~(collectionCauses' \cap {"browser_rejected"} # {}),
                 stage'.pc \notin {"mail", "report"}
          PROVE  CostsOf(v, blob') # {}
      <4>1. CostsOf(v, blob) # {} /\ CostsOf(v, blob) \subseteq File
        BY <2>0, <2>1, <2>2, <3>1 DEF SheetInv, CostsOf, CostFile
      <4>2. PICK f \in File : f \in CostsOf(v, blob)
        BY <4>1
      <4> QED  BY <2>2, <3>1, <4>2, CostDocument
    <3>2. ASSUME NEW v \in sheet.mailed
          PROVE  \E f \in CostsOf(v, blob') : f.kind = "mail"
      <4>1. PICK f \in CostsOf(v, blob) : f.kind = "mail"
        BY <2>0 DEF SheetInv
      <4>2. f \in File
        BY DEF CostsOf, CostFile
      <4> QED  BY <2>2, <4>1, <4>2, CostDocument
    <3> QED  BY <2>2, <3>1, <3>2 DEF SheetInv, Despite
  <2>3. CASE Aside
    BY <2>2, <2>3, AsideIsOutside DEF Outside
  <2>4. ASSUME NEW v \in Vendor, Upload(v) PROVE SheetInv'
    BY <2>2, <2>4 DEF Upload
  <2>5. CASE BeginCosts
    <3>1. UNCHANGED <<sheet, blob>>
      BY <2>5 DEF BeginCosts
    <3> QED  BY <2>2, <2>5, <3>1, BeginCostsStep DEF Moves
  <2>6. CASE TakeUploads
    <3>1. UNCHANGED <<sheet, blob>>
      BY <2>6 DEF TakeUploads
    <3> QED  BY <2>2, <2>6, <3>1, TakeUploadsStep DEF Moves
  <2>7. CASE StoreUploads
    <3>1. UNCHANGED sheet
      BY <2>7 DEF StoreUploads
    <3>2. \A f \in File : blob'[f] = blob[f] \/ blob'[f] \notin {"none", "half"}
      BY <2>0, <2>7, StoreUploadsStep, Uploads, CostFiles DEF Has
    <3> QED  BY <2>2, <2>7, <3>1, <3>2, StoreUploadsStep DEF Moves
  <2>8. CASE DropRenders
    <3>1. UNCHANGED sheet
      BY <2>8 DEF DropRenders
    <3>2. /\ stage'.pc = "mail"
          /\ \A f \in File : blob'[f] = blob[f] \/ f.kind = "render"
      BY <2>8, DropRendersStep DEF Moves
    <3> QED  BY <2>2, <3>1, <3>2
  <2>9. CASE Gate
    <3>1. UNCHANGED <<sheet, blob>>
      BY <2>9 DEF Gate
    <3>2. stage'.pc = "report"
      BY <2>9, GateStep DEF Moves
    <3> QED  BY <2>2, <3>1, <3>2
  <2>10. CASE ReportCosts
    <3>1. /\ stage.pc = "report" /\ UploadAll(CostFile)
          /\ sheet'.found = stage.found
          /\ sheet'.mailed = {v \in Required \cap stage.found :
                                 \E f \in stage.paths : f.of.vendor = v}
      BY <2>10, ReportCostsStep
    <3>2. \A f \in CostFile : Has(local, f) => blob'[f] = local[f]
      BY <2>0, <3>1, Uploads, CostFiles
    <3>3. ASSUME NEW v \in stage.found, ~(collectionCauses' \cap {"browser_rejected"} # {})
          PROVE  CostsOf(v, blob') # {}
      <4>1. CostsOf(v, local) # {} /\ CostsOf(v, local) \subseteq File
        BY <2>0, <2>1, <3>1, <3>3 DEF FoundInv, CostsOf, CostFile
      <4>2. PICK f \in File : f \in CostsOf(v, local)
        BY <4>1
      <4>3. f \in CostFile /\ blob'[f] = local[f]
        BY <3>2, <4>2, CostDocument, CostFiles DEF Has
      <4> QED  BY <4>2, <4>3, CostDocument
    <3>4. ASSUME NEW v \in sheet'.mailed
          PROVE  \E f \in CostsOf(v, blob') : f.kind = "mail"
      <4>1. /\ v \in stage.found /\ Route[v] = "mail"
            /\ \E f \in stage.paths : f.of.vendor = v
        BY <3>1
      <4>2. PICK f \in stage.paths : f.of.vendor = v /\ Has(local, f)
        BY <2>0, <3>1, <4>1 DEF FoundInv
      <4>3. f \in File /\ f.kind = "mail"
        BY <3>1, StageFields DEF CollectionTypeOK, ListedInv
      <4>4. blob'[f] \notin {"none", "half"}
        BY <2>0, <3>2, <4>2, <4>3, CostFiles DEF Has
      <4> QED  BY <4>2, <4>3, <4>4, CostDocument
    <3> QED  BY <3>1, <3>3, <3>4 DEF SheetInv, Despite
  <2>11. ASSUME NEW v \in Vendor, FetchOriginal(v) PROVE SheetInv'
    <3>1. UNCHANGED <<sheet, blob>>
      BY <2>11 DEF FetchOriginal
    <3> QED  BY <2>2, <2>11, <3>1, FetchOriginalStep DEF Moves
  <2>12. ASSUME NEW v \in Vendor, Refuse(v) PROVE SheetInv'
    <3>1. UNCHANGED <<sheet, blob>>
      BY <2>12 DEF Refuse
    <3> QED  BY <2>2, <2>12, <3>1, RefuseStep DEF Moves
  <2>13. ASSUME NEW v \in Vendor, FetchRender(v) PROVE SheetInv'
    <3>1. UNCHANGED <<sheet, blob>>
      BY <2>13 DEF FetchRender
    <3> QED  BY <2>2, <2>13, <3>1, FetchRenderStep DEF Moves
  <2>14. ASSUME NEW v \in Vendor, PassOver(v) PROVE SheetInv'
    <3>1. UNCHANGED <<sheet, blob>>
      BY <2>14 DEF PassOver
    <3> QED  BY <2>2, <2>14, <3>1, PassOverStep DEF Moves
  <2>15. ASSUME NEW v \in Vendor, SearchMail(v) \/ SearchFault(v) PROVE SheetInv'
    <3>1. PICK saved_ \in SUBSET FromMail(v) : \E listed \in SUBSET saved_ :
                 FileMail(v, saved_, listed)
      BY <2>15, SearchStep
    <3>2. PICK listed \in SUBSET saved_ : FileMail(v, saved_, listed)
      BY <3>1
    <3>3. stage.pc = "mail"
      BY <2>15, SearchStep
    <3>4. /\ stage'.pc = "mail" /\ UNCHANGED sheet
          /\ \A f \in File : blob'[f] = blob[f] \/ f = Render(v)
      BY <3>2, <3>3, FileMailStep DEF Moves
    <3> QED  BY <2>2, <3>4, VendorFiles
  <2>16. ASSUME NEW v \in Vendor, Browse(v) PROVE SheetInv'
    <3>1. UNCHANGED <<sheet, blob>>
      BY <2>16 DEF Browse
    <3>2. stage'.pc = "mail"
      BY <2>16, BrowseStep DEF Moves
    <3> QED  BY <2>2, <3>1, <3>2
  <2>17. CASE BeginSales
    <3>1. UNCHANGED <<sheet, blob>>
      BY <2>17 DEF BeginSales
    <3> QED  BY <2>2, <2>17, <3>1, BeginSalesStep DEF Moves
  <2>18. ASSUME NEW n \in Name, Download(n) PROVE SheetInv'
    <3>1. UNCHANGED <<sheet, blob>>
      BY <2>18 DEF Download
    <3> QED  BY <2>2, <2>18, <3>1, DownloadStep DEF Moves
  <2>19. CASE SalesDone
    <3>1. UNCHANGED sheet
      BY <2>19 DEF SalesDone
    <3>2. \A f \in File : blob'[f] = blob[f] \/ blob'[f] \notin {"none", "half"}
      BY <2>0, <2>19, SalesDoneStep, Uploads DEF Has
    <3> QED  BY <2>2, <2>19, <3>1, <3>2, SalesDoneStep DEF Moves
  <2>20. CASE Kill
    BY <2>0, <2>20, KillStep
  <2>21. CASE Restart
    BY <2>2, <2>21 DEF Restart
  <2>22. CASE Package
    BY <2>2, <2>22 DEF Package
  <2> QED
    BY <2>3, <2>4, <2>5, <2>6, <2>7, <2>8, <2>9, <2>10, <2>11, <2>12, <2>13,
       <2>14, <2>15, <2>16, <2>17, <2>18, <2>19, <2>20, <2>21, <2>22,
       CollectionSteps
<1> QED  BY <1>a, <1>b

(***************************************************************************)
(* What is unfit does not get past the gate.                               *)
(***************************************************************************)
LEMMA UnfitIsRejected ==
    ASSUME CollectionTypeOK, NEW f \in stage.paths, Unfit(f)
    PROVE  f \in Rejected(stage.paths)
<1>1. f \in File /\ f.kind = "mail"
  BY StageFields DEF CollectionTypeOK, Unfit
<1>2. f.of \in Mail
  BY <1>1, FileShape
<1>3. f.of.text \in {"early", "unworded", "other"}
  BY <1>2 DEF Unfit, Text
<1> QED  BY <1>3 DEF Rejected

LEMMA GateSteps ==
    ASSUME CollectionTypeOK, ListedInv, GateInv, [CollectionNext]_collectionVars
    PROVE  GateInv'
<1> USE DEF worldVars, reportVars, boundVars
<1>a. CASE collectionCauses' \cap {"killed", "unlisted"} # {}
  BY <1>a DEF GateInv, Despite
<1>b. CASE collectionCauses' \cap {"killed", "unlisted"} = {}
  <2>0. /\ "killed" \notin collectionCauses' /\ "unlisted" \notin collectionCauses'
        /\ ~Despite({"killed", "unlisted"})
    BY <1>b, CausesStay DEF Despite
  <2> SUFFICES ASSUME NEW f \in File, Unfit(f)
               PROVE  /\ Has(local', f) => stage'.pc = "mail" /\ f \in stage'.paths
                      /\ ~Has(blob', f) /\ ~Has(package', f)
    BY DEF GateInv, Has, Unfit
  <2> DEFINE Goal == /\ local'[f] # "none" => stage'.pc = "mail" /\ f \in stage'.paths
                     /\ blob'[f] = "none" /\ package'[f] = "none"
  <2> SUFFICES Goal
    BY DEF Has
  <2>1. /\ local[f] # "none" => stage.pc = "mail" /\ f \in stage.paths
        /\ blob[f] = "none" /\ package[f] = "none"
        /\ f.kind = "mail" /\ f.of \in Mail /\ f = Attached(f.of)
    BY <2>0, FileShape DEF GateInv, Has, Unfit
  <2>2. CASE Aside
    BY <2>1, <2>2, AsideIsOutside DEF Outside
  <2>3. ASSUME NEW v \in Vendor, Upload(v) PROVE Goal
    BY <2>1, <2>3 DEF Upload
  <2>4. CASE BeginCosts
    BY <2>1, <2>4, BeginCostsStep DEF BeginCosts
  <2>5. CASE TakeUploads
    <3>1. f \notin {Manual(v) : v \in Vendor}
      BY <2>1, VendorFiles
    <3>2. local'[f] = local[f] /\ stage.pc = "copy"
      BY <2>5, <3>1, TakeUploadsStep DEF Keeps
    <3> QED  BY <2>1, <2>5, <3>2 DEF TakeUploads
  <2>6. CASE StoreUploads
    <3>1. stage.pc = "inputs" /\ UNCHANGED <<local, package>>
      BY <2>6 DEF StoreUploads
    <3>2. blob'[f] = blob[f] \/ blob'[f] = local[f]
      BY <2>6, StoreUploadsStep, Uploads, CostFiles
    <3> QED  BY <2>1, <3>1, <3>2
  <2>7. CASE DropRenders
    <3>1. stage.pc = "fakturownia" /\ UNCHANGED package
      BY <2>7 DEF DropRenders
    <3>2. local'[f] = local[f] /\ blob'[f] = blob[f]
      BY <2>1, <2>7, DropRendersStep DEF Keeps
    <3> QED  BY <2>1, <3>1, <3>2
  <2>8. CASE Gate
    <3>1. UNCHANGED <<blob, package>>
      BY <2>8 DEF Gate
    <3>2. f \in stage.paths => f \in Rejected(stage.paths)
      BY UnfitIsRejected
    <3>3. /\ Keeps(Rejected(stage.paths))
          /\ Turns(Rejected(stage.paths), "none")
      BY <2>8, GateStep
    <3>4. local'[f] = "none"
      BY <2>1, <3>2, <3>3 DEF Keeps, Turns
    <3> QED  BY <2>1, <3>1, <3>4
  <2>9. CASE ReportCosts
    <3>1. stage.pc = "report" /\ UNCHANGED <<local, package>>
      BY <2>9 DEF ReportCosts
    <3>2. blob'[f] = blob[f] \/ blob'[f] = local[f]
      BY <2>9, ReportCostsStep, Uploads, CostFiles
    <3> QED  BY <2>1, <3>1, <3>2
  <2>10. ASSUME NEW v \in Vendor, FetchOriginal(v) PROVE Goal
    <3>1. stage.pc = "fakturownia" /\ UNCHANGED <<blob, package>>
      BY <2>10 DEF FetchOriginal
    <3>2. f # Original(v)
      BY <2>1, VendorFiles
    <3>3. local'[f] = local[f]
      BY <2>10, <3>2, FetchOriginalStep DEF Keeps
    <3> QED  BY <2>1, <3>1, <3>3
  <2>11. ASSUME NEW v \in Vendor, Refuse(v) PROVE Goal
    BY <2>1, <2>11, RefuseStep DEF Refuse
  <2>12. ASSUME NEW v \in Vendor, FetchRender(v) PROVE Goal
    <3>1. stage.pc = "fakturownia" /\ UNCHANGED <<blob, package>>
      BY <2>12 DEF FetchRender
    <3>2. f # Render(v)
      BY <2>1, VendorFiles
    <3>3. local'[f] = local[f]
      BY <2>12, <3>2, FetchRenderStep DEF Keeps
    <3> QED  BY <2>1, <3>1, <3>3
  <2>13. ASSUME NEW v \in Vendor, PassOver(v) PROVE Goal
    BY <2>1, <2>13, PassOverStep DEF PassOver
  <2>14. ASSUME NEW v \in Vendor, SearchMail(v) \/ SearchFault(v) PROVE Goal
    <3>1. PICK saved_ \in SUBSET FromMail(v) : \E listed \in SUBSET saved_ :
                 /\ FileMail(v, saved_, listed)
                 /\ collectionCauses' = collectionCauses \cup
                       (IF saved_ # listed THEN {"unlisted"} ELSE {})
      BY <2>14, SearchStep
    <3>2. FileMail(v, saved_, saved_)
      BY <2>0, <3>1
    <3>3. stage.pc = "mail"
      BY <2>14, SearchStep
    <3>4. /\ stage'.pc = "mail" /\ UNCHANGED package
          /\ stage'.paths = stage.paths \cup Attachments(saved_)
          /\ Keeps(Attachments(saved_) \cup {Render(v)})
          /\ blob'[f] = blob[f] \/ blob'[f] = "none"
      BY <3>2, <3>3, FileMailStep DEF Moves
    <3>5. f # Render(v)
      BY <2>1, VendorFiles
    <3>6. f \in Attachments(saved_) \/ local'[f] = local[f]
      BY <3>4, <3>5 DEF Keeps
    <3> QED  BY <2>1, <3>4, <3>6
  <2>15. ASSUME NEW v \in Vendor, Browse(v) PROVE Goal
    <3>1. UNCHANGED <<blob, package>>
      BY <2>15 DEF Browse
    <3>2. PICK new, fs : /\ Moves("mail", fs, stage.paths \cup Attachments(new))
                         /\ Keeps(Attachments(new))
      BY <2>15, BrowseStep
    <3>3. stage'.pc = "mail" /\ stage'.paths = stage.paths \cup Attachments(new)
      BY <3>2 DEF Moves
    <3> QED  BY <2>1, <3>1, <3>2, <3>3 DEF Keeps
  <2>16. CASE BeginSales
    BY <2>1, <2>16, BeginSalesStep DEF BeginSales
  <2>17. ASSUME NEW n \in Name, Download(n) PROVE Goal
    <3>1. stage.pc = "download" /\ UNCHANGED <<blob, package>>
      BY <2>17 DEF Download
    <3>2. local'[f] = local[f]
      BY <2>1, <2>17, DownloadStep, OtherFiles DEF Keeps
    <3> QED  BY <2>1, <3>1, <3>2
  <2>18. CASE SalesDone
    <3>1. stage.pc = "download" /\ UNCHANGED <<local, package>>
      BY <2>18 DEF SalesDone
    <3>2. blob'[f] = blob[f] \/ blob'[f] = local[f]
      BY <2>18, SalesDoneStep, Uploads
    <3> QED  BY <2>1, <3>1, <3>2
  <2>19. CASE Kill
    BY <2>0, <2>19, KillStep
  <2>20. CASE Restart
    BY <2>1, <2>20, RestartStep DEF Restart
  <2>21. CASE Package
    BY <2>1, <2>21 DEF Package
  <2> QED
    BY <2>2, <2>3, <2>4, <2>5, <2>6, <2>7, <2>8, <2>9, <2>10, <2>11, <2>12,
       <2>13, <2>14, <2>15, <2>16, <2>17, <2>18, <2>19, <2>20, <2>21,
       CollectionSteps
<1> QED  BY <1>a, <1>b

(***************************************************************************)
(* An original drives out the render.                                      *)
(***************************************************************************)
LEMMA SourceSteps ==
    ASSUME CollectionTypeOK, SourceInv, [CollectionNext]_collectionVars
    PROVE  SourceInv'
<1> USE DEF worldVars, reportVars, boundVars
<1>a. CASE collectionCauses' \cap SourceCause # {}
  BY <1>a DEF SourceInv, Despite, SourceCause
<1>b. CASE collectionCauses' \cap SourceCause = {}
  <2>0. /\ \A c \in SourceCause : c \notin collectionCauses'
        /\ ~Despite(SourceCause)
        /\ "killed" \in SourceCause /\ "fallback" \in SourceCause
        /\ "refused" \in SourceCause /\ "render_kept" \in SourceCause
        /\ "restarted" \in SourceCause /\ "upload_failed" \in SourceCause
    BY <1>b, CausesStay DEF Despite, SourceCause
  <2> SUFFICES ASSUME NEW v \in Vendor
               PROVE  /\ Has(local', Original(v)) /\ ~Fetched(v)'
                            => ~Has(local', Render(v)) /\ ~Has(blob', Render(v))
                      /\ Has(blob', Original(v))
                            => ~Has(blob', Render(v)) /\ ~Has(local', Render(v))
    BY DEF SourceInv, Fetched, Has, Original, Render
  <2> DEFINE o == Original(v)
             r == Render(v)
             there == stage'.pc = "fakturownia" /\ o \in stage'.paths
             Goal == /\ local'[o] # "none" /\ ~there
                           => local'[r] = "none" /\ blob'[r] = "none"
                     /\ blob'[o] # "none"
                           => blob'[r] = "none" /\ local'[r] = "none"
  <2> SUFFICES Goal
    BY DEF Has, Fetched, Original
  <2>1. /\ local[o] # "none" /\ ~(stage.pc = "fakturownia" /\ o \in stage.paths)
               => local[r] = "none" /\ blob[r] = "none"
        /\ blob[o] # "none" => blob[r] = "none" /\ local[r] = "none"
    BY <2>0 DEF SourceInv, Fetched, Has
  <2>2. /\ o \in File /\ r \in File /\ o.kind = "original" /\ r.kind = "render"
        /\ o.of = v /\ r.of = v /\ o # r /\ o \in CostFile /\ r \in CostFile
    BY VendorFiles, CostFiles
  <2>3. /\ \A w \in Vendor : /\ o \notin {Manual(w), Render(w)}
                             /\ o = Original(w) => w = v
                             /\ r \notin {Manual(w), Original(w)}
                             /\ r = Render(w) => w = v
    BY <2>2, VendorFiles
  \* a step that changes neither, nor what is fetched
  <2>4. ASSUME local'[o] = local[o], local'[r] \in {local[r], "none"},
               blob'[o] = blob[o], blob'[r] \in {blob[r], "none"},
               stage.pc # "fakturownia" \/ (stage'.pc = "fakturownia"
                                            /\ stage.paths \subseteq stage'.paths)
        PROVE  Goal
    <3> HIDE DEF o, r
    <3> QED  BY <2>1, <2>4
  \* a copy made of a directory in which nothing is fetched
  <2>5. ASSUME NEW files, files \subseteq File, UploadAll(files), UNCHANGED local,
               stage.pc # "fakturownia"
        PROVE  Goal
    <3> HIDE DEF o, r
    <3>1. \A f \in File : \/ blob'[f] = blob[f]
                          \/ Has(local, f) /\ blob'[f] = local[f]
      BY <2>5, Uploads
    <3>2. /\ blob'[o] = blob[o] \/ (local[o] # "none" /\ blob'[o] = local[o])
          /\ blob'[r] = blob[r] \/ (local[r] # "none" /\ blob'[r] = local[r])
      BY <2>2, <3>1 DEF Has
    <3> QED  BY <2>1, <2>5, <3>2
  <2> HIDE DEF Goal
  <2>6. CASE Aside
    BY <2>1, <2>6, AsideIsOutside DEF Outside, Goal
  <2>7. ASSUME NEW w \in Vendor, Upload(w) PROVE Goal
    BY <2>1, <2>7 DEF Upload, Goal
  <2>8. CASE BeginCosts
    BY <2>4, <2>8, BeginCostsStep DEF BeginCosts
  <2>9. CASE TakeUploads
    <3>1. stage.pc = "copy" /\ UNCHANGED blob
      BY <2>9 DEF TakeUploads
    <3>2. local'[o] = local[o] /\ local'[r] = local[r]
      BY <2>2, <2>3, <2>9, TakeUploadsStep DEF Keeps
    <3> QED  BY <2>4, <3>1, <3>2
  <2>10. CASE StoreUploads
    <3>1. stage.pc = "inputs" /\ UNCHANGED local /\ UploadAll(CostFile)
      BY <2>10 DEF StoreUploads
    <3> QED  BY <2>5, <3>1, CostFiles
  <2>11. CASE DropRenders
    <3>1. /\ stage.pc = "fakturownia" /\ stage'.pc = "mail"
          /\ Keeps(Renders) /\ \A f \in Renders : local'[f] = "none"
          /\ \A f \in File : blob'[f] = blob[f]
                             \/ (f \in Renders /\ blob'[f] = "none")
          /\ \A f \in Renders : f.kind = "render" /\ blob'[f] = "none"
      BY <2>0, <2>11, DropRendersStep DEF Moves
    <3>2. o \in stage.paths => r \in Renders
      BY <2>2 DEF Renders
    <3>3. local'[o] = local[o] /\ blob'[o] = blob[o]
      BY <2>2, <3>1 DEF Keeps
    <3>4. /\ r \in Renders => local'[r] = "none" /\ blob'[r] = "none"
          /\ local'[r] \in {local[r], "none"} /\ blob'[r] \in {blob[r], "none"}
      BY <2>2, <3>1 DEF Keeps
    <3> HIDE DEF o, r
    <3> QED  BY <2>1, <3>2, <3>3, <3>4 DEF Goal
  <2>12. CASE Gate
    <3>1. /\ stage.pc = "mail" /\ UNCHANGED blob
      BY <2>12 DEF Gate
    <3>2. Keeps(Rejected(stage.paths)) /\ Turns(Rejected(stage.paths), "none")
      BY <2>12, GateStep
    <3>3. /\ local'[o] \in {local[o], "none"} /\ local'[r] \in {local[r], "none"}
      BY <2>2, <3>2 DEF Keeps, Turns
    <3> HIDE DEF o, r
    <3> QED  BY <2>1, <3>1, <3>3 DEF Goal
  <2>13. CASE ReportCosts
    <3>1. stage.pc = "report" /\ UNCHANGED local /\ UploadAll(CostFile)
      BY <2>13 DEF ReportCosts
    <3> QED  BY <2>5, <3>1, CostFiles
  <2>14. ASSUME NEW w \in Vendor, FetchOriginal(w) PROVE Goal
    <3>1. /\ stage.pc = "fakturownia" /\ stage'.pc = "fakturownia"
          /\ stage'.paths = stage.paths \cup {Original(w)}
          /\ Keeps({Original(w)}) /\ UNCHANGED blob
      BY <2>14, FetchOriginalStep DEF Moves, FetchOriginal
    <3>2. CASE w = v
      <4>1. local'[r] = local[r]
        BY <2>2, <2>3, <3>1 DEF Keeps
      <4> QED  BY <2>1, <3>1, <3>2, <4>1 DEF Goal
    <3>3. CASE w # v
      <4>1. local'[r] = local[r] /\ local'[o] = local[o]
        BY <2>2, <2>3, <3>1, <3>3 DEF Keeps
      <4> QED  BY <2>4, <3>1, <4>1
    <3> QED  BY <3>2, <3>3
  <2>15. ASSUME NEW w \in Vendor, Refuse(w) PROVE Goal
    BY <2>0, <2>15, RefuseStep
  <2>16. ASSUME NEW w \in Vendor, FetchRender(w) PROVE Goal
    <3>1. /\ stage.pc = "fakturownia" /\ stage'.pc = "fakturownia"
          /\ stage'.paths = stage.paths \cup {Render(w)}
          /\ Keeps({Render(w)}) /\ UNCHANGED blob
          /\ local[Original(w)] = "none" /\ blob[Original(w)] = "none"
      BY <2>0, <2>16, FetchRenderStep DEF Moves, FetchRender, Has
    <3>2. local'[o] = local[o]
      BY <2>2, <2>3, <3>1 DEF Keeps
    <3>3. CASE w = v
      BY <3>1, <3>2, <3>3 DEF Goal
    <3>4. CASE w # v
      <4>1. local'[r] = local[r]
        BY <2>2, <2>3, <3>1, <3>4 DEF Keeps
      <4> QED  BY <2>4, <3>1, <3>2, <4>1
    <3> QED  BY <3>3, <3>4
  <2>17. ASSUME NEW w \in Vendor, PassOver(w) PROVE Goal
    <3>1. /\ stage.pc = "fakturownia" /\ stage'.pc = "fakturownia"
          /\ stage'.paths = stage.paths /\ UNCHANGED <<local, blob>>
      BY <2>17, PassOverStep DEF Moves, PassOver
    <3> QED  BY <2>4, <3>1
  <2>18. ASSUME NEW w \in Vendor, SearchMail(w) \/ SearchFault(w) PROVE Goal
    <3>1. PICK saved_ \in SUBSET FromMail(w) : \E listed \in SUBSET saved_ :
                 FileMail(w, saved_, listed)
      BY <2>18, SearchStep
    <3>2. PICK listed \in SUBSET saved_ : FileMail(w, saved_, listed)
      BY <3>1
    <3>3. stage.pc = "mail"
      BY <2>18, SearchStep
    <3>4. /\ Keeps(Attachments(saved_) \cup {Render(w)})
          /\ local'[Render(w)] \in {local[Render(w)], "none"}
          /\ \A f \in File : blob'[f] = blob[f]
                             \/ (f = Render(w) /\ blob'[f] = "none")
      BY <3>2, <3>3, FileMailStep
    <3>5. o \notin Attachments(saved_) /\ r \notin Attachments(saved_)
      <4>1. saved_ \subseteq Mail
        BY NewMail
      <4> QED  BY <2>2, <4>1, AttachmentFiles
    <3>6. /\ local'[o] = local[o] /\ local'[r] \in {local[r], "none"}
      BY <2>2, <2>3, <3>4, <3>5 DEF Keeps
    <3>7. /\ blob'[o] = blob[o] /\ blob'[r] \in {blob[r], "none"}
      BY <2>2, <2>3, <3>4
    <3> QED  BY <2>4, <3>3, <3>6, <3>7
  <2>19. ASSUME NEW w \in Vendor, Browse(w) PROVE Goal
    <3>1. stage.pc = "mail" /\ UNCHANGED blob
      BY <2>19 DEF Browse
    <3>2. PICK named \in SUBSET {a \in mail : a.vendor = w} :
             \E new \in SUBSET named : Keeps(Attachments(new))
      BY <2>19, BrowseStep
    <3>3. PICK new \in SUBSET named : Keeps(Attachments(new))
      BY <3>2
    <3>4. new \subseteq Mail
      BY DEF CollectionTypeOK
    <3>5. o \notin Attachments(new) /\ r \notin Attachments(new)
      BY <2>2, <3>4, AttachmentFiles
    <3>6. local'[o] = local[o] /\ local'[r] = local[r]
      BY <2>2, <3>3, <3>5 DEF Keeps
    <3> QED  BY <2>4, <3>1, <3>6
  <2>20. CASE BeginSales
    BY <2>4, <2>20, BeginSalesStep DEF BeginSales
  <2>21. ASSUME NEW n \in Name, Download(n) PROVE Goal
    <3>1. stage.pc = "download" /\ UNCHANGED blob
      BY <2>21 DEF Download
    <3>2. o # Pdf(n) /\ r # Pdf(n)
      BY <2>2, OtherFiles
    <3>3. local'[o] = local[o] /\ local'[r] = local[r]
      BY <2>2, <2>21, <3>2, DownloadStep DEF Keeps
    <3> QED  BY <2>4, <3>1, <3>3
  <2>22. CASE SalesDone
    <3>1. stage.pc = "download" /\ UNCHANGED local
      BY <2>22 DEF SalesDone
    <3> QED  BY <2>5, <2>22, <3>1, SalesDoneStep
  <2>23. CASE Kill
    BY <2>0, <2>23, KillStep
  <2>24. CASE Restart
    BY <2>0, <2>24, RestartStep
  <2>25. CASE Package
    BY <2>1, <2>25 DEF Package, Goal
  <2> QED
    BY <2>6, <2>7, <2>8, <2>9, <2>10, <2>11, <2>12, <2>13, <2>14, <2>15, <2>16,
       <2>17, <2>18, <2>19, <2>20, <2>21, <2>22, <2>23, <2>24, <2>25,
       CollectionSteps
<1> QED  BY <1>a, <1>b

(***************************************************************************)
(* Uploads and sales.  A file that is not the cost stage's own to write    *)
(* gets into storage only from the directory.                              *)
(***************************************************************************)
LEMMA UploadSteps ==
    ASSUME CollectionTypeOK, ListedInv, UploadInv, [CollectionNext]_collectionVars
    PROVE  UploadInv'
<1> USE DEF worldVars, reportVars, boundVars
<1> DEFINE Excused == {"killed", "upload_failed", "same_name"}
<1>a. CASE collectionCauses' \cap Excused # {}
  BY <1>a DEF UploadInv, Despite
<1>b. CASE collectionCauses' \cap Excused = {}
  <2>0. /\ "killed" \notin collectionCauses'
        /\ "upload_failed" \notin collectionCauses'
        /\ "same_name" \notin collectionCauses'
        /\ ~Despite(Excused)
    BY <1>b, CausesStay DEF Despite
  <2> HIDE DEF Excused
  <2> SUFFICES ASSUME NEW v \in Vendor
               PROVE  /\ inbox'[v] # "none" => inbox'[v] = uploaded'[v]
                      /\ stage'.pc # "inputs" =>
                            /\ Has(local', Manual(v))
                                  => blob'[Manual(v)] = local'[Manual(v)]
                            /\ uploaded'[v] # "none"
                                  => uploaded'[v] \in {inbox'[v], blob'[Manual(v)]}
                      /\ stage'.pc = "inputs" /\ uploaded'[v] # "none" =>
                            \/ uploaded'[v] \in {inbox'[v], local'[Manual(v)]}
                            \/ /\ ~Has(local', Manual(v))
                               /\ uploaded'[v] = blob'[Manual(v)]
    BY DEF UploadInv, Has, Manual
  <2> DEFINE m == Manual(v)
             Goal == /\ inbox'[v] # "none" => inbox'[v] = uploaded'[v]
                     /\ stage'.pc # "inputs" =>
                           /\ local'[m] # "none" => blob'[m] = local'[m]
                           /\ uploaded'[v] # "none"
                                 => uploaded'[v] \in {inbox'[v], blob'[m]}
                     /\ stage'.pc = "inputs" /\ uploaded'[v] # "none" =>
                           \/ uploaded'[v] \in {inbox'[v], local'[m]}
                           \/ local'[m] = "none" /\ uploaded'[v] = blob'[m]
  <2> SUFFICES Goal
    BY DEF Has
  <2>1. /\ inbox[v] # "none" => inbox[v] = uploaded[v]
        /\ stage.pc # "inputs" =>
              /\ local[m] # "none" => blob[m] = local[m]
              /\ uploaded[v] # "none" => uploaded[v] \in {inbox[v], blob[m]}
        /\ stage.pc = "inputs" /\ uploaded[v] # "none" =>
              \/ uploaded[v] \in {inbox[v], local[m]}
              \/ local[m] = "none" /\ uploaded[v] = blob[m]
    BY <2>0 DEF UploadInv, Has, Excused
  <2>2. m \in File /\ m.kind = "manual" /\ m.of = v /\ m \in CostFile
    BY VendorFiles, CostFiles
  <2>3. \A w \in Vendor : m # Render(w) /\ m # Original(w) /\ (m = Manual(w) => w = v)
    BY <2>2, VendorFiles
  <2> HIDE DEF m
  \* a step that leaves the upload where it is
  <2>4. ASSUME local'[m] = local[m], blob'[m] = blob[m],
               UNCHANGED <<inbox, uploaded>>,
               stage.pc # "inputs", stage'.pc # "inputs"
        PROVE  Goal
    BY <2>1, <2>4
  <2> HIDE DEF Goal
  <2>5. CASE Aside
    BY <2>1, <2>5, AsideIsOutside DEF Outside, Goal
  <2>6. ASSUME NEW w \in Vendor, Upload(w) PROVE Goal
    <3>1. /\ inbox' = [inbox EXCEPT ![w] = uploaded'[w]]
          /\ UNCHANGED <<local, blob, stage>>
      BY <2>6 DEF Upload
    <3>2. inbox \in [Vendor -> Edition] /\ uploaded \in [Vendor -> Edition]
      BY DEF CollectionTypeOK
    <3>3. CASE w = v
      <4>1. inbox'[v] = uploaded'[v]
        BY <3>1, <3>2, <3>3
      <4> QED  BY <2>1, <3>1, <4>1 DEF Goal
    <3>4. CASE w # v
      <4>1. inbox'[v] = inbox[v] /\ uploaded'[v] = uploaded[v]
        BY <2>6, <3>1, <3>2, <3>4 DEF Upload
      <4> QED  BY <2>1, <3>1, <4>1 DEF Goal
    <3> QED  BY <3>3, <3>4
  <2>7. CASE BeginCosts
    <3>1. stage.pc = "idle" /\ stage'.pc = "copy"
      BY <2>7, BeginCostsStep DEF Moves
    <3> QED  BY <2>4, <2>7, <3>1 DEF BeginCosts
  <2>8. CASE TakeUploads
    <3>1. /\ stage.pc = "copy" /\ stage'.pc = "inputs"
          /\ inbox'[v] = "none"
          /\ local'[m] = IF inbox[v] # "none" /\ ~Has(local, m)
                         THEN inbox[v] ELSE local[m]
          /\ inbox[v] # "none" /\ Has(local, m) => local[m] = inbox[v]
      BY <2>0, <2>8, TakeUploadsStep DEF Moves, m
    <3>2. UNCHANGED <<blob, uploaded>>
      BY <2>8 DEF TakeUploads
    <3> QED  BY <2>1, <3>1, <3>2 DEF Goal, Has
  <2>9. CASE StoreUploads
    <3>1. /\ stage.pc = "inputs" /\ UploadAll(CostFile)
          /\ stage'.pc = "fakturownia"
      BY <2>9, StoreUploadsStep DEF Moves
    <3>2. UNCHANGED <<local, inbox, uploaded>>
      BY <2>9 DEF StoreUploads
    <3>3. /\ local[m] # "none" => blob'[m] = local[m]
          /\ local[m] = "none" => blob'[m] = blob[m]
      BY <2>0, <2>2, <3>1, Uploads, CostFiles DEF Has
    <3> QED  BY <2>1, <3>1, <3>2, <3>3 DEF Goal
  <2>10. CASE DropRenders
    <3>1. /\ stage.pc = "fakturownia" /\ stage'.pc = "mail"
          /\ local'[m] = local[m] /\ blob'[m] = blob[m]
      BY <2>2, <2>10, DropRendersStep DEF Moves, Keeps
    <3> QED  BY <2>4, <2>10, <3>1 DEF DropRenders
  <2>11. CASE Gate
    <3>1. stage.pc = "mail" /\ stage'.pc = "report"
      BY <2>11, GateStep DEF Moves
    <3>2. \A f \in Rejected(stage.paths) : f.kind = "mail"
      BY <3>1 DEF ListedInv, Rejected
    <3>3. local'[m] = local[m]
      BY <2>2, <2>11, <3>2, GateStep DEF Keeps
    <3> QED  BY <2>4, <2>11, <3>1, <3>3 DEF Gate
  <2>12. CASE ReportCosts
    <3>1. /\ stage.pc = "report" /\ UploadAll(CostFile) /\ stage'.pc = "idle"
      BY <2>12, ReportCostsStep DEF Moves
    <3>2. UNCHANGED <<local, inbox, uploaded>>
      BY <2>12 DEF ReportCosts
    <3>3. /\ local[m] # "none" => blob'[m] = local[m]
          /\ local[m] = "none" => blob'[m] = blob[m]
      BY <2>0, <2>2, <3>1, Uploads, CostFiles DEF Has
    <3> QED  BY <2>1, <3>1, <3>2, <3>3 DEF Goal
  <2>13. ASSUME NEW w \in Vendor, FetchOriginal(w) PROVE Goal
    <3>1. stage.pc = "fakturownia" /\ stage'.pc = "fakturownia"
      BY <2>13, FetchOriginalStep DEF Moves
    <3>2. local'[m] = local[m]
      BY <2>2, <2>3, <2>13, FetchOriginalStep DEF Keeps
    <3> QED  BY <2>4, <2>13, <3>1, <3>2 DEF FetchOriginal
  <2>14. ASSUME NEW w \in Vendor, Refuse(w) PROVE Goal
    <3>1. stage.pc = "fakturownia" /\ stage'.pc = "idle"
      BY <2>14, RefuseStep DEF Moves
    <3> QED  BY <2>4, <2>14, <3>1 DEF Refuse
  <2>15. ASSUME NEW w \in Vendor, FetchRender(w) PROVE Goal
    <3>1. stage.pc = "fakturownia" /\ stage'.pc = "fakturownia"
      BY <2>15, FetchRenderStep DEF Moves
    <3>2. local'[m] = local[m]
      BY <2>2, <2>3, <2>15, FetchRenderStep DEF Keeps
    <3> QED  BY <2>4, <2>15, <3>1, <3>2 DEF FetchRender
  <2>16. ASSUME NEW w \in Vendor, PassOver(w) PROVE Goal
    <3>1. stage.pc = "fakturownia" /\ stage'.pc = "fakturownia"
      BY <2>16, PassOverStep DEF Moves
    <3> QED  BY <2>4, <2>16, <3>1 DEF PassOver
  <2>17. ASSUME NEW w \in Vendor, SearchMail(w) \/ SearchFault(w) PROVE Goal
    <3>1. PICK saved_ \in SUBSET FromMail(w) : \E listed \in SUBSET saved_ :
                 FileMail(w, saved_, listed)
      BY <2>17, SearchStep
    <3>2. PICK listed \in SUBSET saved_ : FileMail(w, saved_, listed)
      BY <3>1
    <3>3. stage.pc = "mail"
      BY <2>17, SearchStep
    <3>4. /\ stage'.pc = "mail" /\ UNCHANGED <<uploaded, inbox>>
          /\ Keeps(Attachments(saved_) \cup {Render(w)})
          /\ \A f \in File : blob'[f] = blob[f] \/ f = Render(w)
      BY <3>2, <3>3, FileMailStep DEF Moves
    <3>5. m \notin Attachments(saved_)
      <4>1. saved_ \subseteq Mail
        BY NewMail
      <4> QED  BY <2>2, <4>1, AttachmentFiles
    <3>6. local'[m] = local[m]
      BY <2>2, <2>3, <3>4, <3>5 DEF Keeps
    <3>7. blob'[m] = blob[m]
      BY <2>2, <2>3, <3>4
    <3> QED  BY <2>4, <3>3, <3>4, <3>6, <3>7
  <2>18. ASSUME NEW w \in Vendor, Browse(w) PROVE Goal
    <3>1. stage.pc = "mail" /\ UNCHANGED <<blob, uploaded, inbox>>
      BY <2>18 DEF Browse
    <3>2. PICK named \in SUBSET {a \in mail : a.vendor = w} :
             \E new \in SUBSET named :
                stage'.pc = "mail" /\ Keeps(Attachments(new))
      BY <2>18, BrowseStep DEF Moves
    <3>3. PICK new \in SUBSET named : stage'.pc = "mail" /\ Keeps(Attachments(new))
      BY <3>2
    <3>4. new \subseteq Mail
      BY DEF CollectionTypeOK
    <3>5. m \notin Attachments(new)
      BY <2>2, <3>4, AttachmentFiles
    <3>6. local'[m] = local[m]
      BY <2>2, <3>3, <3>5 DEF Keeps
    <3> QED  BY <2>4, <3>1, <3>3, <3>6
  <2>19. CASE BeginSales
    <3>1. stage.pc = "idle" /\ stage'.pc = "download"
      BY <2>19, BeginSalesStep DEF Moves
    <3> QED  BY <2>4, <2>19, <3>1 DEF BeginSales
  <2>20. ASSUME NEW n \in Name, Download(n) PROVE Goal
    <3>1. stage.pc = "download" /\ stage'.pc = "download"
      BY <2>20, DownloadStep DEF Moves
    <3>2. m # Pdf(n)
      BY <2>2, OtherFiles
    <3>3. local'[m] = local[m]
      BY <2>2, <2>20, <3>2, DownloadStep DEF Keeps
    <3> QED  BY <2>4, <2>20, <3>1, <3>3 DEF Download
  <2>21. CASE SalesDone
    <3>1. stage.pc = "download" /\ stage'.pc = "idle"
      BY <2>21, SalesDoneStep DEF Moves
    <3>2. blob'[m] = blob[m]
      BY <2>2, <2>21, SalesDoneStep, Uploads
    <3> QED  BY <2>4, <2>21, <3>1, <3>2 DEF SalesDone
  <2>22. CASE Kill
    BY <2>0, <2>22, KillStep
  <2>23. CASE Restart
    <3>1. stage.pc = "idle" /\ local'[m] = "none"
      BY <2>2, <2>23, RestartStep
    <3> QED  BY <2>1, <2>23, <3>1 DEF Restart, Goal
  <2>24. CASE Package
    BY <2>1, <2>24 DEF Package, Goal
  <2> QED
    BY <2>5, <2>6, <2>7, <2>8, <2>9, <2>10, <2>11, <2>12, <2>13, <2>14, <2>15,
       <2>16, <2>17, <2>18, <2>19, <2>20, <2>21, <2>22, <2>23, <2>24,
       CollectionSteps
<1> QED  BY <1>a, <1>b

\* A sales invoice in storage changes only to what the directory has of it,
\* and the sales are reported by the end of their stage alone.
LEMMA SaleBlob ==
    ASSUME CollectionTypeOK, ListedInv, [CollectionNext]_collectionVars
    PROVE  /\ \A f \in File : f.kind = "sale" =>
                \/ blob'[f] = blob[f]
                \/ local[f] # "none" /\ blob'[f] = local[f]
           /\ UNCHANGED sales \/ SalesDone
<1> USE DEF worldVars, reportVars, boundVars
<1> DEFINE Same == \A f \in File : f.kind = "sale" =>
                      \/ blob'[f] = blob[f]
                      \/ local[f] # "none" /\ blob'[f] = local[f]
           Goal == Same /\ (UNCHANGED sales \/ SalesDone)
<1>1. CASE Aside
  BY <1>1, AsideIsOutside DEF Outside
<1>2. ASSUME NEW v \in Vendor, Upload(v) PROVE Goal
  BY <1>2 DEF Upload
<1>3. CASE BeginCosts \/ TakeUploads \/ Gate
  BY <1>3 DEF BeginCosts, TakeUploads, Gate
<1>4. CASE StoreUploads \/ ReportCosts
  <2>1. UploadAll(CostFile) /\ UNCHANGED sales
    BY <1>4 DEF StoreUploads, ReportCosts
  <2>2. \A f \in File : f.kind = "sale" => blob'[f] = blob[f]
    BY <2>1, Uploads, CostFiles
  <2> QED  BY <2>1, <2>2
<1>5. CASE DropRenders
  <2>1. UNCHANGED sales
    BY <1>5 DEF DropRenders
  <2>2. \A f \in File : f.kind = "sale" => blob'[f] = blob[f]
    BY <1>5, DropRendersStep
  <2> QED  BY <2>1, <2>2
<1>6. ASSUME NEW v \in Vendor,
             FetchOriginal(v) \/ Refuse(v) \/ FetchRender(v) \/ PassOver(v)
      PROVE  Goal
  BY <1>6 DEF FetchOriginal, Refuse, FetchRender, PassOver
<1>7. ASSUME NEW v \in Vendor, SearchMail(v) \/ SearchFault(v) PROVE Goal
  <2>1. PICK saved_ \in SUBSET FromMail(v) : \E listed \in SUBSET saved_ :
                 FileMail(v, saved_, listed)
    BY <1>7, SearchStep
  <2>2. PICK listed \in SUBSET saved_ : FileMail(v, saved_, listed)
    BY <2>1
  <2>3. stage.pc = "mail" /\ Render(v).kind = "render"
    BY <1>7, SearchStep, VendorFiles
  <2>4. /\ UNCHANGED reportVars
        /\ \A f \in File : blob'[f] = blob[f] \/ f = Render(v)
    BY <2>2, <2>3, FileMailStep
  <2> QED  BY <2>3, <2>4
<1>8. ASSUME NEW v \in Vendor, Browse(v) PROVE Goal
  BY <1>8 DEF Browse
<1>9. CASE BeginSales
  BY <1>9 DEF BeginSales
<1>10. ASSUME NEW n \in Name, Download(n) PROVE Goal
  BY <1>10 DEF Download
<1>11. CASE SalesDone
  <2>1. \A f \in File : \/ blob'[f] = blob[f]
                        \/ Has(local, f) /\ blob'[f] = local[f]
    BY <1>11, SalesDoneStep, Uploads
  <2> QED  BY <1>11, <2>1 DEF Has
<1>12. CASE Kill
  BY <1>12 DEF Kill
<1>13. CASE Restart \/ Package
  BY <1>13 DEF Restart, Package
<1> QED
  BY <1>1, <1>2, <1>3, <1>4, <1>5, <1>6, <1>7, <1>8, <1>9, <1>10, <1>11, <1>12,
     <1>13, CollectionSteps

\* As many names as invoices: each has one of its own.
LEMMA NotShort ==
    ASSUME NEW list \in SUBSET Sale, ~Short(list)
    PROVE  \A s, t \in list : FileOf[Number[s]] = FileOf[Number[t]] => s = t
<1> DEFINE names == {FileOf[Number[s]] : s \in list}
           name == [s \in list |-> FileOf[Number[s]]]
<1>1. IsFiniteSet(list)
  BY FS_Subset
<1>2. name \in Surjection(list, names)
  BY DEF Surjection
<1>3. /\ IsFiniteSet(names) /\ Cardinality(names) <= Cardinality(list)
      /\ Cardinality(names) = Cardinality(list) <=> name \in Injection(list, names)
  <2> HIDE DEF name, names
  <2> QED  BY <1>1, <1>2, FS_Surjection
<1>4. Cardinality(names) \in Nat /\ Cardinality(list) \in Nat
  <2> HIDE DEF name, names
  <2> QED  BY <1>1, <1>3, FS_CardinalityType
<1>5. ~(Cardinality(names) < Cardinality(list))
  BY DEF Short
<1>6. name \in Injection(list, names)
  <2> HIDE DEF name, names
  <2> QED  BY <1>3, <1>4, <1>5
<1> QED  BY <1>6 DEF Injection, IsInjective

(***************************************************************************)
(* A sales stage reports what its directory has, whole and one by one.     *)
(***************************************************************************)
LEMMA UnwarnedSteps ==
    ASSUME CollectionTypeOK, ContentInv, ListedInv, UnwarnedIsComplete,
           [CollectionNext]_collectionVars
    PROVE  UnwarnedIsComplete'
<1>a. CASE collectionCauses' \cap {"killed", "upload_failed"} # {}
  BY <1>a DEF UnwarnedIsComplete, Despite
<1>b. CASE collectionCauses' \cap {"killed", "upload_failed"} = {}
  <2>0. /\ "killed" \notin collectionCauses'
        /\ "upload_failed" \notin collectionCauses'
        /\ ~Despite({"killed", "upload_failed"})
        /\ "killed" \notin collectionCauses
    BY <1>b, CausesStay DEF Despite
  <2> DEFINE file(s) == Pdf(FileOf[Number[s]])
  <2>1. \A s \in Sale : file(s) \in File /\ file(s).kind = "sale"
    BY NameOf, OtherFiles
  <2>2. ASSUME NEW f \in File, f.kind = "sale", local[f] # "none"
        PROVE  local[f] = "whole"
    <3>1. local[f] # "half" /\ local[f] # "corrected" /\ local[f] \in Content
      BY <2>0, <2>2 DEF ContentInv, CollectionTypeOK
    <3> QED  BY <2>2, <3>1 DEF Content
  <2>3. CASE UNCHANGED sales
    <3>1. \/ sales.warned
          \/ /\ \A s \in sales.list : blob[file(s)] = "whole"
             /\ \A s, t \in sales.list : FileOf[Number[s]] = FileOf[Number[t]] => s = t
      BY <2>0 DEF UnwarnedIsComplete
    <3>2. ASSUME NEW s \in sales.list, blob[file(s)] = "whole"
          PROVE  blob'[file(s)] = "whole"
      <4>1. s \in Sale
        BY DEF CollectionTypeOK
      <4>2. file(s) \in File /\ file(s).kind = "sale"
        BY <2>1, <4>1
      <4> HIDE DEF file
      <4>3. \/ blob'[file(s)] = blob[file(s)]
            \/ local[file(s)] # "none" /\ blob'[file(s)] = local[file(s)]
        BY <4>2, SaleBlob
      <4> QED  BY <2>2, <3>2, <4>2, <4>3
    <3>3. \/ sales'.warned
          \/ /\ \A s \in sales'.list : blob'[file(s)] = "whole"
             /\ \A s, t \in sales'.list :
                   FileOf[Number[s]] = FileOf[Number[t]] => s = t
      BY <2>3, <3>1, <3>2
    <3> QED  BY <3>3 DEF UnwarnedIsComplete, Pdf
  <2>4. CASE SalesDone
    <3>1. /\ stage.pc = "download" /\ stage.todo = {}
          /\ sales'.list = stage.list /\ sales'.warned = Short(stage.list)
          /\ UploadAll(SaleFiles(stage.list)) /\ SaleFiles(stage.list) \subseteq File
      BY <2>4, SalesDoneStep
    <3>2. stage.list \in SUBSET Sale
      BY StageFields DEF CollectionTypeOK
    <3>3. ASSUME NEW s \in stage.list PROVE blob'[file(s)] = "whole"
      <4>1. /\ file(s) \in SaleFiles(stage.list)
            /\ Has(local, file(s))
        BY <3>1 DEF SaleFiles, ListedInv
      <4>2. file(s) \in File /\ file(s).kind = "sale"
        BY <2>1, <3>2
      <4> HIDE DEF file
      <4>3. blob'[file(s)] = local[file(s)]
        BY <2>0, <3>1, <4>1, Uploads
      <4> QED  BY <2>2, <4>1, <4>2, <4>3 DEF Has
    <3>4. \/ Short(stage.list)
          \/ \A s, t \in stage.list : FileOf[Number[s]] = FileOf[Number[t]] => s = t
      BY <3>2, NotShort
    <3>5. \/ sales'.warned
          \/ /\ \A s \in sales'.list : blob'[file(s)] = "whole"
             /\ \A s, t \in sales'.list :
                   FileOf[Number[s]] = FileOf[Number[t]] => s = t
      BY <3>1, <3>3, <3>4
    <3> QED  BY <3>5 DEF UnwarnedIsComplete, Pdf
  <2> QED  BY <2>3, <2>4, SaleBlob
<1> QED  BY <1>a, <1>b

-----------------------------------------------------------------------------
(***************************************************************************)
(* The invariant, and what follows from it.                                *)
(***************************************************************************)
LEMMA CollectionInvInit == CollectionInit => CollectionInv
<1> SUFFICES ASSUME CollectionInit PROVE CollectionInv
  OBVIOUS
<1>1. CollectionTypeOK
  BY CollectionInitType
<1>2. /\ \A f \in File : local[f] = "none" /\ blob[f] = "none" /\ package[f] = "none"
      /\ \A v \in Vendor : inbox[v] = "none" /\ uploaded[v] = "none"
  BY DEF CollectionInit, NoFiles
<1>3. stage.pc = "idle" /\ stage.paths = {}
  BY IdleIsStage DEF CollectionInit
<1>4. sheet.found = {} /\ sheet.mailed = {} /\ sales.list = {}
  BY DEF CollectionInit, NoSheet, NoSales
<1>5. ContentInv /\ ListedInv /\ FoundInv /\ SheetInv
  BY <1>2, <1>3, <1>4 DEF ContentInv, ListedInv, FoundInv, SheetInv
<1>6. GateInv
  BY <1>2 DEF GateInv, Has
<1>7. SourceInv /\ UploadInv
  BY <1>2, VendorFiles DEF SourceInv, UploadInv, Has
<1>8. UnwarnedIsComplete
  BY <1>4 DEF UnwarnedIsComplete
<1> QED  BY <1>1, <1>5, <1>6, <1>7, <1>8 DEF CollectionInv

LEMMA CollectionInvSteps ==
    CollectionInv /\ [CollectionNext]_collectionVars => CollectionInv'
<1> SUFFICES ASSUME CollectionInv, [CollectionNext]_collectionVars
             PROVE  CollectionInv'
  OBVIOUS
<1>1. /\ CollectionTypeOK /\ ContentInv /\ ListedInv /\ FoundInv /\ SheetInv
      /\ GateInv /\ SourceInv /\ UploadInv /\ UnwarnedIsComplete
  BY DEF CollectionInv
<1>2. CollectionTypeOK' /\ ContentInv' /\ ListedInv'
  BY <1>1, CollectionType, ContentSteps, ListedSteps
<1>3. FoundInv' /\ SheetInv'
  BY <1>1, FoundSteps, SheetSteps
<1>4. GateInv' /\ SourceInv' /\ UploadInv' /\ UnwarnedIsComplete'
  BY <1>1, GateSteps, SourceSteps, UploadSteps, UnwarnedSteps
<1> QED  BY <1>2, <1>3, <1>4 DEF CollectionInv

LEMMA CollectionInvHolds == CollectionSpec => []CollectionInv
<1> QED  BY CollectionInvInit, CollectionInvSteps, PTL DEF CollectionSpec

(***************************************************************************)
(* What the stages say of the documents is so in storage: the found is     *)
(* there, the rejected is not, uploads are kept, no invoice is there twice *)
(* and none is missing without a warning (orchestrator.py:664), over any   *)
(* number of stages, restarts and failing calls.                           *)
(***************************************************************************)
THEOREM DocumentsFiled == CollectionSpec => []DocumentsAreFiled
<1>1. CollectionInv => DocumentsAreFiled
  <2> SUFFICES ASSUME CollectionInv PROVE DocumentsAreFiled
    OBVIOUS
  <2>1. CollectionTypeOK /\ UnwarnedIsComplete
    BY DEF CollectionInv
  <2>2. FoundIsFiled
    BY DEF CollectionInv, SheetInv, FoundIsFiled, Despite
  <2>3. RejectedIsNotSent
    BY DEF CollectionInv, GateInv, RejectedIsNotSent, Unfit
  <2>4. OneSourcePerInvoice
    BY DEF CollectionInv, SourceInv, OneSourcePerInvoice, SourceCause, Despite
  <2>5. UploadIsKept
    BY DEF CollectionInv, UploadInv, UploadIsKept
  <2> QED  BY <2>1, <2>2, <2>3, <2>4, <2>5 DEF DocumentsAreFiled
<1> QED  BY <1>1, CollectionInvHolds, PTL

\* Only the package step changes the package.
LEMMA PackageStep ==
    ASSUME CollectionTypeOK, [CollectionNext]_collectionVars, package' # package
    PROVE  Package
<1> USE DEF worldVars, reportVars, boundVars
<1>1. ASSUME Aside PROVE UNCHANGED package
  BY <1>1, AsideIsOutside DEF Outside
<1>2. ASSUME NEW v \in Vendor, Upload(v) PROVE UNCHANGED package
  BY <1>2 DEF Upload
<1>3. ASSUME \/ BeginCosts \/ TakeUploads \/ StoreUploads \/ DropRenders \/ Gate
             \/ ReportCosts
      PROVE  UNCHANGED package
  BY <1>3 DEF BeginCosts, TakeUploads, StoreUploads, DropRenders, Gate, ReportCosts
<1>4. ASSUME NEW v \in Vendor,
             \/ FetchOriginal(v) \/ Refuse(v) \/ FetchRender(v)
             \/ PassOver(v) \/ Browse(v)
      PROVE  UNCHANGED package
  BY <1>4 DEF FetchOriginal, Refuse, FetchRender, PassOver, Browse
<1>5. ASSUME NEW v \in Vendor, SearchMail(v) \/ SearchFault(v)
      PROVE  UNCHANGED package
  BY <1>5 DEF SearchMail, SearchFault, FileMail
<1>6. ASSUME BeginSales \/ (\E n \in Name : Download(n)) \/ SalesDone
      PROVE  UNCHANGED package
  BY <1>6 DEF BeginSales, Download, SalesDone
<1>7. ASSUME Kill \/ Restart PROVE UNCHANGED package
  BY <1>7 DEF Kill, Restart
<1> QED  BY <1>1, <1>2, <1>3, <1>4, <1>5, <1>6, <1>7, CollectionSteps

(***************************************************************************)
(* What is packed is of the moment it is packed: the PDF of every sale     *)
(* issued by then (inspection.py:171), and where only the original will do *)
(* the original or what the vendor mailed (inspection.py:447,              *)
(* workflow.py:630).                                                       *)
(***************************************************************************)
THEOREM PackagedWhole == CollectionSpec => PackageIsWhole
<1> DEFINE everySale == package' # package =>
                         \A s \in issued : Has(package', Pdf(FileOf[Number[s]]))
           genuine == package' # package =>
              \/ Despite({"killed", "upload_failed"})
              \/ \A v \in Required : cost[v] = "render"
                    => \E f \in CostsOf(v, package') : f.kind \in {"original", "mail"}
<1>1. ASSUME CollectionInv, [CollectionNext]_collectionVars
      PROVE  everySale /\ genuine
  <2> SUFFICES ASSUME package' # package
               PROVE  everySale /\ genuine
    OBVIOUS
  <2>1. CollectionTypeOK /\ ContentInv /\ SheetInv
    BY <1>1 DEF CollectionInv
  <2>2. Package
    BY <1>1, <2>1, PackageStep
  <2>3. /\ package' = blob /\ Collected # {} /\ ~SalesIncomplete
        /\ \A v \in Vendor : ~LacksOriginal(v)
    BY <2>2 DEF Package
  <2>4. everySale
    BY <2>3 DEF SalesIncomplete, Has
  <2>5. genuine
    <3> SUFFICES ASSUME ~Despite({"killed", "upload_failed"}), NEW v \in Required,
                        cost[v] = "render"
                 PROVE  \E f \in CostsOf(v, blob) : f.kind \in {"original", "mail"}
      BY <2>3
    <3>1. v \in Vendor
      OBVIOUS
    <3>2. Has(blob, Original(v)) \/ v \in sheet.mailed
      BY <2>3, <3>1 DEF LacksOriginal
    <3>3. CASE Has(blob, Original(v))
      <4>1. /\ Original(v) \in CostFile /\ Original(v).of = v
            /\ Original(v).kind = "original" /\ Original(v) \in File
        BY <3>1, VendorFiles, CostFiles
      <4>2. blob[Original(v)] \notin {"none", "half"}
        BY <2>1, <3>3, <4>1 DEF ContentInv, Despite, Has
      <4>3. Original(v) \in CostsOf(v, blob)
        BY <4>1, <4>2 DEF CostsOf
      <4> QED  BY <4>1, <4>3
    <3>4. CASE v \in sheet.mailed
      BY <2>1, <3>4 DEF SheetInv
    <3> QED  BY <3>2, <3>3, <3>4
  <2> QED  BY <2>4, <2>5
<1>2. CollectionSpec => [][everySale /\ genuine]_collectionVars
  <2>1. ASSUME CollectionInv, [CollectionNext]_collectionVars
        PROVE  [everySale /\ genuine]_collectionVars
    BY <1>1, <2>1
  <2> HIDE DEF everySale, genuine
  <2> QED  BY <2>1, CollectionInvHolds, PTL DEF CollectionSpec
<1>3. [everySale /\ genuine]_collectionVars
        => [everySale]_collectionVars /\ [genuine]_collectionVars
  OBVIOUS
<1> QED  BY <1>2, <1>3, PTL DEF PackageIsWhole, PackageIsCurrent, RequiredIsOriginal

=============================================================================
