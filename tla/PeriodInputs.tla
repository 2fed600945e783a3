------------------------------ MODULE PeriodInputs ------------------------------
(***************************************************************************)
(* What an operator uploads for a month: an invoice of a vendor that mails *)
(* none, the statement of the bank, a report of Fakturownia.  The stages   *)
(* look for them by name (preflight), copy what they find to the month and *)
(* take it out of the inbox; the dashboard looks for them by name as well  *)
(* (inspection), with patterns of its own.                                 *)
(***************************************************************************)
EXTENDS Naturals

CONSTANTS
    Document,        \* files that may be uploaded: what for, and how named
    MaxUploads,      \* bound: uploads
    MaxRuns,         \* bound: stages run
    MaxInputFaults   \* bound: failed calls and restarts

(***************************************************************************)
(* The forms of a name.  vendor: the id found in the vendor's mail, or one *)
(* that only fits the pattern.  bank: generated the month after the one    *)
(* that is closed, in another month, or a name of one's own that has the   *)
(* month in it.  report: in the accountant's format, or printed as a PDF.  *)
(***************************************************************************)
Form == [vendor |-> {"exact", "similar"}, bank |-> {"right", "wrong", "token"},
         report |-> {"xml", "pdf"}]
Slot == DOMAIN Form

ASSUME InputShape ==
    /\ \A d \in Document : d.slot \in Slot /\ d.form \in Form[d.slot]
    /\ MaxUploads \in Nat /\ MaxRuns \in Nat /\ MaxInputFaults \in Nat

VARIABLES
    scoped,     \* a container that takes uploads from blob storage, or the
                \* command line, with a folder that is the inbox
    inbox,      \* [Document -> edition in the inbox]
    came,       \* [Document -> which of all uploads brought it there]
    editions,   \* [Document -> editions uploaded so far]
    delivered,  \* uploads so far
    month,      \* [Document -> edition in the directory of the month]
    archive,    \* [Document -> edition in the month's blob storage]
    picker,     \* the stage in progress
    verdict,    \* what the last stage said
    runs, inputFaults, inputCauses

inputVars == <<scoped, inbox, came, editions, delivered, month, archive, picker, verdict,
               runs, inputFaults, inputCauses>>
uploadVars == <<scoped, inbox, came, editions, delivered>>

Nothing == [d \in Document |-> 0]
IdlePicker == [pc |-> "idle", matches |-> Nothing, vendor |-> FALSE, bank |-> FALSE]
NoVerdict == [stage |-> "none", ok |-> FALSE, quiet |-> FALSE]

Placed(files) == {d \in Document : files[d] # 0}
InboxDocs == Placed(inbox)
Of(slot) == {d \in Document : d.slot = slot}
Latest(docs) == CHOOSE d \in docs : \A e \in docs : came[e] <= came[d]
Blame(c) == inputCauses' = inputCauses \cup c
InputFault == inputFaults < MaxInputFaults /\ inputFaults' = inputFaults + 1

(***************************************************************************)
(* The dashboard: what it calls present, of the inbox and the month.       *)
(***************************************************************************)
\* the month's statement, by when it was generated or by the month in its name
BankNames == {d \in Of("bank") : d.form \in {"right", "token"}}

Shown(slot) ==
    LET names == InboxDocs \cup Placed(archive)
    IN names \cap (IF slot = "bank" THEN BankNames ELSE Of(slot)) # {}

\* a file of the same name replaces the one that is there
Deliver(d) ==
    /\ delivered < MaxUploads /\ delivered' = delivered + 1
    /\ editions' = [editions EXCEPT ![d] = @ + 1]
    /\ inbox' = [inbox EXCEPT ![d] = editions[d] + 1]
    /\ came' = [came EXCEPT ![d] = delivered + 1]
    /\ verdict' = [verdict EXCEPT !.quiet = FALSE]
    /\ Blame((IF d.form = "token" THEN {"token"} ELSE {})
             \cup (IF picker.matches[d] # 0 THEN {"overwritten"} ELSE {}))
    /\ UNCHANGED <<scoped, month, archive, picker, runs, inputFaults>>

-----------------------------------------------------------------------------
(***************************************************************************)
(* A stage looks for the three kinds one after the other, each over a list *)
(* of its own; a match from blob storage is downloaded as it is now.       *)
(***************************************************************************)
BeginStage ==
    /\ picker.pc = "idle" /\ runs < MaxRuns /\ runs' = runs + 1
    /\ picker' = [IdlePicker EXCEPT !.pc = "vendor"]
    /\ verdict' = [NoVerdict EXCEPT !.quiet = TRUE]
    /\ UNCHANGED <<uploadVars, month, archive, inputFaults, inputCauses>>

Take(pc, taken, found) ==
    /\ picker' = [picker EXCEPT !.pc = pc, !.bank = found,
                     !.vendor = @ \/ (pc = "bank" /\ taken # {}),
                     !.matches = IF taken = {} THEN @
                                 ELSE [@ EXCEPT ![Latest(taken)] = inbox[Latest(taken)]]]
    /\ UNCHANGED <<uploadVars, month, archive, verdict, runs, inputFaults, inputCauses>>

\* the id of the mail first, and then whatever fits the pattern
VendorMatches(docs) ==
    LET exact == {d \in docs : d.form = "exact"} IN IF exact # {} THEN exact ELSE docs

\* the folder of the command line has no second choice
FolderMatches(docs) == {d \in docs : d.form = "exact"}

FindVendor ==
    /\ picker.pc = "vendor"
    /\ LET there == InboxDocs \cap Of("vendor")
       IN \E mailed \in BOOLEAN :
             Take("bank", IF ~mailed THEN there
                          ELSE IF scoped THEN VendorMatches(there) ELSE FolderMatches(there),
                  FALSE)

\* generated in the month after
PkoMatchesMonth(docs) == {d \in docs : d.form = "right"}

\* a statement that was copied before is not looked for again
CheckBank ==
    /\ picker.pc = "bank"
    /\ LET kept == Placed(month) \cap Of("bank")
           there == PkoMatchesMonth(InboxDocs \cap Of("bank"))
       IN IF kept # {} THEN Take("report", {}, TRUE)
          ELSE Take("report", there, there # {})

\* the accountant's format goes before the newer file, and a printed copy never
\* stands in for a copy that is stored
ReportMatches(stored, there) ==
    LET xml == {d \in there : d.form = "xml"}
    IN IF "xml" \in stored THEN {}
       ELSE IF xml # {} THEN xml
       ELSE IF stored # {} THEN {} ELSE there

CheckReports ==
    /\ picker.pc = "report"
    /\ LET stored == {d.form : d \in Placed(month) \cap Of("report")}
       IN Take("copy", ReportMatches(stored, InboxDocs \cap Of("report")), picker.bank)

\* a list or a download that fails leaves that kind as not found
LookFails ==
    /\ picker.pc \in {"vendor", "bank", "report"} /\ scoped /\ InputFault
    /\ verdict' = [verdict EXCEPT !.quiet = FALSE]
    /\ picker' = [picker EXCEPT !.pc = CASE @ = "vendor" -> "bank" [] @ = "bank" -> "report"
                                         [] OTHER -> "copy"]
    /\ UNCHANGED <<uploadVars, month, archive, runs, inputCauses>>

(***************************************************************************)
(* copy_to_folders: a file that exists stays; what came from blob storage  *)
(* is deleted there by its name, also when it was not copied.              *)
(***************************************************************************)
Matched == Placed(picker.matches)

\* mutant: the inbox is cleared
AllOf(docs) == InboxDocs

Cleared(docs) == docs

CopyToFolders ==
    /\ picker.pc = "copy"
    /\ LET new == {d \in Matched : month[d] = 0}
           stale == {d \in Matched \ new : month[d] # picker.matches[d]}
           gone == Cleared(Matched)
       IN /\ month' = [d \in Document |-> IF d \notin new THEN month[d]
                                          ELSE IF scoped THEN picker.matches[d] ELSE inbox[d]]
          /\ \/ /\ inbox' = IF scoped THEN [d \in Document |-> IF d \in gone THEN 0 ELSE inbox[d]]
                            ELSE inbox
                /\ UNCHANGED inputFaults
             \/ scoped /\ Matched # {} /\ InputFault /\ UNCHANGED inbox
          /\ Blame(IF stale # {} THEN {"same_name"} ELSE {})
    /\ picker' = [picker EXCEPT !.pc = "store", !.matches = Nothing]
    /\ UNCHANGED <<scoped, came, editions, delivered, archive, verdict, runs>>

\* the directory is copied to blob storage; a file that fails is only logged
StoreMonth ==
    /\ picker.pc = "store" /\ picker' = [picker EXCEPT !.pc = "verify"]
    /\ \/ /\ archive' = [d \in Document |-> IF month[d] # 0 THEN month[d] ELSE archive[d]]
          /\ UNCHANGED <<inputFaults, inputCauses, verdict>>
       \/ \E f \in Placed(month) :
             /\ month[f] # archive[f] /\ InputFault /\ Blame({"upload_failed"})
             /\ archive' = [d \in Document |-> IF month[d] # 0 /\ d # f
                                               THEN month[d] ELSE archive[d]]
             /\ verdict' = [verdict EXCEPT !.quiet = FALSE]
    /\ UNCHANGED <<uploadVars, month, runs>>

(***************************************************************************)
(* The stage's own look: a report in either format, here or in storage; a  *)
(* statement that was found, or any file that is named like one.  Up to    *)
(* here the three stages do the same, so which it is comes up only now.    *)
(***************************************************************************)
Present(slot) == (Placed(month) \cup Placed(archive)) \cap Of(slot) # {}

BankFound == picker.bank \/ Present("bank")
ReportsFound == Present("report")

\* a vendor's document that an earlier stage took is not found again
VendorFound == picker.vendor

Verify(stage) ==
    /\ picker.pc = "verify" /\ picker' = IdlePicker
    /\ verdict' = [verdict EXCEPT !.stage = stage,
                      !.ok = CASE stage = "bank" -> BankFound
                               [] stage = "reports" -> ReportsFound
                               [] OTHER -> VendorFound]
    /\ UNCHANGED <<uploadVars, month, archive, runs, inputFaults, inputCauses>>

\* the container goes away, between two stages or in the middle of one
Vanish ==
    /\ picker.pc # "idle" \/ month # Nothing
    /\ scoped /\ InputFault
    /\ month' = Nothing /\ picker' = IdlePicker
    /\ verdict' = IF picker.pc = "idle" THEN verdict ELSE NoVerdict
    /\ Blame(IF picker.pc = "idle" THEN {} ELSE {"killed"})
    /\ UNCHANGED <<uploadVars, archive, runs>>

InputInit ==
    /\ scoped \in BOOLEAN /\ inbox = Nothing /\ came = Nothing
    /\ editions = Nothing /\ delivered = 0
    /\ month = Nothing /\ archive = Nothing
    /\ picker = IdlePicker /\ verdict = NoVerdict
    /\ runs = 0 /\ inputFaults = 0 /\ inputCauses = {}

InputNext ==
    \/ \E d \in Document : Deliver(d)
    \/ BeginStage \/ FindVendor \/ CheckBank \/ CheckReports \/ LookFails
    \/ CopyToFolders \/ StoreMonth \/ Vanish
    \/ \E s \in {"costs", "bank", "reports"} : Verify(s)

InputSpec == InputInit /\ [][InputNext]_inputVars

-----------------------------------------------------------------------------
(***************************************************************************)
(* Properties.                                                             *)
(***************************************************************************)
Forgiven(excuses) == inputCauses \cap excuses # {}

\* Uploads, stored documents, the requests that read them and the vendors
\* marked keep their types (preflight.py).
InputsTypeOK ==
    /\ scoped \in BOOLEAN /\ delivered \in 0..MaxUploads
    /\ \A d \in Document : /\ editions[d] \in 0..delivered /\ inbox[d] \in {0, editions[d]}
                            /\ month[d] \in 0..editions[d] /\ archive[d] \in 0..editions[d]
                            /\ picker.matches[d] \in 0..editions[d]
    /\ picker.pc \in {"idle", "vendor", "bank", "report", "copy", "store", "verify"}
    /\ \A d, e \in Matched : d.slot = e.slot => d = e
    /\ verdict.stage \in {"none", "costs", "bank", "reports"}
    /\ runs \in 0..MaxRuns /\ inputFaults \in 0..MaxInputFaults

(***************************************************************************)
(* After a stage of the container that nothing disturbed, whatever the     *)
(* dashboard calls present is in the month's storage, from which it is     *)
(* packed, and not just in the inbox (inspection.py:243, preflight.py:209).*)
(***************************************************************************)
ShownIsTaken ==
    \/ ~scoped \/ ~verdict.quiet \/ picker.pc # "idle" \/ Forgiven({"token"})
    \/ \A slot \in Slot : Shown(slot) => Placed(archive) \cap Of(slot) # {}

(***************************************************************************)
(* The bank stage says that it has a statement only over the one of the    *)
(* month, though two of its three looks take any (preflight.py:380).       *)
(***************************************************************************)
BankIsTheMonths ==
    \/ Forgiven({"upload_failed"})
    \/ verdict.stage = "bank" /\ verdict.ok =>
          \E d \in (Placed(month) \cup Placed(archive)) \cap Of("bank") : d.form = "right"

(***************************************************************************)
(* A report in the accountant's format is not passed over for a newer file *)
(* or for a printed copy stored before (preflight.py:480).                 *)
(***************************************************************************)
RightFormatIsTaken ==
    \/ ~verdict.quiet \/ picker.pc # "idle"
    \/ \A d \in InboxDocs \cap Of("report") : d.form = "xml"
          => \E x \in (Placed(month) \cup Placed(archive)) \cap Of("report") : x.form = "xml"

(***************************************************************************)
(* The latest edition of every upload is in the inbox, in the directory or *)
(* in storage, unless it came under the name of a file that was being      *)
(* taken or had been taken before (preflight.py:166).                      *)
(***************************************************************************)
LatestIsSomewhere ==
    \/ Forgiven({"same_name", "overwritten", "upload_failed", "killed"})
    \/ \A d \in Document : editions[d] \in {inbox[d], month[d], archive[d]}

(***************************************************************************)
(* What was uploaded for the month is taken, and what is said of it is so, *)
(* although stages and dashboard look for it by patterns of their own      *)
(* (preflight.py:138, inspection.py:243).                                  *)
(***************************************************************************)
UploadsAreTaken ==
    /\ InputsTypeOK /\ ShownIsTaken /\ BankIsTheMonths /\ RightFormatIsTaken
    /\ LatestIsSomewhere
=============================================================================
