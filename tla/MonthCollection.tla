---------------------------- MODULE MonthCollection ----------------------------
(***************************************************************************)
(* How the documents of a month come together: the sales stage downloads   *)
(* the invoices issued, the cost stage takes what was uploaded by hand,    *)
(* what Fakturownia has, what vendors mailed and what a browser fetches;   *)
(* both copy to blob storage, from which the package is built.             *)
(*                                                                         *)
(* A stage works in a directory of the container that runs it, which a     *)
(* restart takes away; the blob stays.  A failed upload is only logged.    *)
(* What the dashboard does around the stages is the subject of MonthClose. *)
(***************************************************************************)
EXTENDS Naturals, Sequences, FiniteSets

CONSTANTS
    Vendor,      \* vendors a cost document is expected of
    Route,       \* [Vendor -> {"mail", "browser", "manual"}]
    Required,    \* vendors of whom only the original will do
    Mail,        \* PDF attachments vendors send, as records
    Sale,        \* sales invoices
    Number,      \* [Sale -> the number printed on it]
    FileOf,      \* [numbers -> the file name made of one]
    MaxNews,     \* bound: documents that come while the month is closed
    MaxStages,   \* bound: stages run
    MaxFaults    \* bound: failed calls and restarts

(***************************************************************************)
(* An attachment: its vendor, its file name, the invoice number printed on *)
(* it, and what its text shows: an invoice of the month, of another month, *)
(* one that never says "invoice", or no invoice at all.                    *)
(***************************************************************************)
Text == {"invoice", "early", "unworded", "other"}

ASSUME CollectionShape ==
    /\ Route \in [Vendor -> {"mail", "browser", "manual"}]
    /\ Required \subseteq {v \in Vendor : Route[v] = "mail"}
    /\ \A a \in Mail : a.vendor \in Vendor /\ a.text \in Text
    /\ IsFiniteSet(Sale) /\ Sale # {} /\ Number \in [Sale -> Nat]
    /\ MaxNews \in Nat /\ MaxStages \in Nat /\ MaxFaults \in Nat

Name == {FileOf[Number[s]] : s \in Sale}

\* a file of the month, by what it is and whose
File ==
    [kind : {"render", "original", "manual"}, of : Vendor]
        \cup [kind : {"mail"}, of : Mail] \cup [kind : {"sale"}, of : Name]

Render(v) == [kind |-> "render", of |-> v]
Original(v) == [kind |-> "original", of |-> v]
Manual(v) == [kind |-> "manual", of |-> v]
Attached(a) == [kind |-> "mail", of |-> a]
Pdf(n) == [kind |-> "sale", of |-> n]

\* half a file is what a killed download leaves; uploads have editions
Content == {"none", "half", "whole", "corrected"}
Edition == {"none", "whole", "corrected"}

Cause == {"killed", "restarted", "upload_failed", "same_name", "fallback",
          "refused", "render_kept", "unlisted", "browser_rejected"}

\* where a stage is, the vendors or file names it has still to work off, the
\* vendors found, the files it has a list of, the invoices listed
Stage ==
    [pc : {"idle", "copy", "inputs", "fakturownia", "mail", "report", "download"},
     todo : SUBSET (Vendor \cup Name), found : SUBSET Vendor,
     paths : SUBSET File, list : SUBSET Sale]

VARIABLES
    cost,      \* [Vendor -> what Fakturownia has of it]
    mail,      \* attachments that have arrived
    inbox,     \* [Vendor -> the document uploaded by hand and not taken yet]
    uploaded,  \* [Vendor -> the latest document uploaded by hand]
    issued,    \* sales invoices issued so far
    local, blob,   \* [File -> Content]
    hashes,    \* attachments the directory remembers
    stage,     \* the stage in progress
    sheet,     \* what the last cost stage reported
    sales,     \* what the last sales stage reported
    package,   \* the files of the ZIP
    news, stages, faults, collectionCauses

worldVars == <<cost, mail, uploaded, issued, news>>
reportVars == <<sheet, sales, package>>
boundVars == <<stages, faults>>
collectionVars == <<cost, mail, inbox, uploaded, issued, local, blob, hashes,
                    stage, sheet, sales, package, news, stages, faults,
                    collectionCauses>>

NoFiles == [f \in File |-> "none"]
IdleStage == [pc |-> "idle", todo |-> {}, found |-> {}, paths |-> {}, list |-> {}]
NoSheet == [found |-> {}, mailed |-> {}, missing |-> {}]
NoSales == [list |-> {}, warned |-> FALSE]

\* Files, uploads, renders and the three collecting stages keep their types
\* (orchestrator.py, client.py).
CollectionTypeOK ==
    /\ cost \in [Vendor -> {"none", "render", "pdf", "xml"}]
    /\ mail \subseteq Mail /\ issued \subseteq Sale
    /\ inbox \in [Vendor -> Edition] /\ uploaded \in [Vendor -> Edition]
    /\ local \in [File -> Content] /\ blob \in [File -> Content]
    /\ hashes \subseteq Mail
    /\ stage \in Stage
    /\ sheet \in [found : SUBSET Vendor, mailed : SUBSET Vendor,
                  missing : SUBSET Vendor]
    /\ sales \in [list : SUBSET Sale, warned : BOOLEAN]
    /\ package \in [File -> Content]
    /\ news \in 0..MaxNews /\ stages \in 0..MaxStages /\ faults \in 0..MaxFaults
    /\ collectionCauses \subseteq Cause

CollectionInit ==
    /\ cost \in [Vendor -> {"none", "render"}]
    /\ \A v \in Vendor : Route[v] = "manual" => cost[v] = "none"
    /\ mail = {} /\ issued = {CHOOSE s \in Sale : \A t \in Sale : Number[s] <= Number[t]}
    /\ inbox = [v \in Vendor |-> "none"] /\ uploaded = inbox
    /\ local = NoFiles /\ blob = NoFiles /\ hashes = {}
    /\ stage = IdleStage /\ sheet = NoSheet /\ sales = NoSales
    /\ package = NoFiles
    /\ news = 0 /\ stages = 0 /\ faults = 0 /\ collectionCauses = {}

Because(c) == collectionCauses' = collectionCauses \cup c
Goto(pc) == stage' = [stage EXCEPT !.pc = pc]
Comes == news < MaxNews /\ news' = news + 1
Fails == faults < MaxFaults /\ faults' = faults + 1
Has(files, f) == files[f] # "none"
\* lists are worked off in one order
First(todo) == CHOOSE x \in todo : TRUE
With(files, fs, content) == [f \in File |-> IF f \in fs THEN content ELSE files[f]]

-----------------------------------------------------------------------------
(***************************************************************************)
(* The world, external: invoices are issued, vendors mail, Fakturownia     *)
(* receives the original of an expense, the operator uploads a document,   *)
(* and uploads a corrected one under the same name.                        *)
(***************************************************************************)
Issue(s) ==
    /\ Comes /\ s \notin issued /\ issued' = issued \cup {s}
    \* numbers are given in turn
    /\ \A t \in Sale \ issued : Number[s] <= Number[t]
    /\ UNCHANGED <<cost, mail, inbox, uploaded, local, blob, hashes, stage,
                   reportVars, boundVars, collectionCauses>>

Arrive(a) ==
    /\ Comes /\ a \notin mail /\ mail' = mail \cup {a}
    /\ UNCHANGED <<cost, inbox, uploaded, issued, local, blob, hashes, stage,
                   reportVars, boundVars, collectionCauses>>

Attach(v, kind) ==
    /\ Comes /\ cost[v] = "render" /\ cost' = [cost EXCEPT ![v] = kind]
    /\ UNCHANGED <<mail, inbox, uploaded, issued, local, blob, hashes, stage,
                   reportVars, boundVars, collectionCauses>>

Upload(v) ==
    /\ Comes /\ Route[v] = "manual" /\ uploaded[v] # "corrected"
    /\ uploaded' = [uploaded EXCEPT ![v] =
                       IF @ = "none" THEN "whole" ELSE "corrected"]
    /\ inbox' = [inbox EXCEPT ![v] = uploaded'[v]]
    /\ UNCHANGED <<cost, mail, issued, local, blob, hashes, stage, reportVars,
                   boundVars, collectionCauses>>

-----------------------------------------------------------------------------
(***************************************************************************)
(* Uploads are one by one and each may fail without stopping the stage.    *)
(***************************************************************************)
Copied(files, kept) ==
    [f \in File |-> IF f \in files /\ Has(local, f) /\ f \notin kept
                    THEN local[f] ELSE blob[f]]

UploadAll(files) ==
    \/ /\ blob' = Copied(files, {})
       /\ UNCHANGED <<faults, collectionCauses>>
    \/ \E f \in files :
         /\ Has(local, f) /\ local[f] # blob[f] /\ Fails
         /\ blob' = Copied(files, {f}) /\ Because({"upload_failed"})

CostFile == {f \in File : f.kind # "sale"}

BeginCosts ==
    /\ stage.pc = "idle" /\ stages < MaxStages /\ stages' = stages + 1
    /\ stage' = [IdleStage EXCEPT !.pc = "copy"]
    /\ UNCHANGED <<worldVars, inbox, local, blob, hashes, reportVars, faults,
                   collectionCauses>>

\* preflight takes the uploads; copy_to_folders never replaces a file, and
\* the upload is deleted from the inbox either way
TakeUploads ==
    /\ stage.pc = "copy"
    /\ LET taken == {v \in Vendor : inbox[v] # "none"}
           new == {v \in taken : ~Has(local, Manual(v))} IN
       /\ local' = [f \in File |-> IF \E v \in new : f = Manual(v)
                                   THEN inbox[f.of] ELSE local[f]]
       /\ inbox' = [v \in Vendor |-> "none"]
       /\ stage' = [stage EXCEPT !.pc = "inputs", !.found = taken]
       /\ Because(IF \E v \in taken \ new : local[Manual(v)] # inbox[v]
                  THEN {"same_name"} ELSE {})
    /\ UNCHANGED <<worldVars, blob, hashes, reportVars, boundVars>>

StoreUploads ==
    /\ stage.pc = "inputs"
    /\ UploadAll(CostFile)
    /\ stage' = [stage EXCEPT !.pc = "fakturownia",
                              !.todo = {v \in Vendor : cost[v] # "none"}]
    /\ UNCHANGED <<worldVars, inbox, local, hashes, reportVars, stages>>

-----------------------------------------------------------------------------

Took(v, f) ==
    stage' = [stage EXCEPT !.todo = @ \ {v}, !.found = @ \cup {v},
                           !.paths = @ \cup {f}]

FetchOriginal(v) ==
    /\ stage.pc = "fakturownia" /\ stage.todo # {} /\ v = First(stage.todo) /\ cost[v] = "pdf"
    /\ local' = With(local, {Original(v)}, "whole")
    /\ Took(v, Original(v))
    /\ UNCHANGED <<worldVars, inbox, blob, hashes, reportVars, boundVars,
                   collectionCauses>>

\* an original that is required and cannot be had ends the stage, which has
\* by then fetched others and dropped no render yet
Refuse(v) ==
    /\ stage.pc = "fakturownia" /\ stage.todo # {} /\ v = First(stage.todo)
    /\ v \in Required
    /\ \/ cost[v] = "xml" /\ UNCHANGED faults
       \/ cost[v] = "pdf" /\ Fails
    /\ stage' = IdleStage /\ Because({"refused"})
    /\ UNCHANGED <<worldVars, inbox, local, blob, hashes, reportVars, stages>>

\* a render that exists is not downloaded again
FetchRender(v) ==
    /\ stage.pc = "fakturownia" /\ stage.todo # {} /\ v = First(stage.todo) /\ v \notin Required
    /\ \/ cost[v] \in {"render", "xml"} /\ UNCHANGED faults
       \/ cost[v] = "pdf" /\ Fails
    /\ local' = IF Has(local, Render(v)) THEN local
                ELSE With(local, {Render(v)}, "whole")
    /\ Took(v, Render(v))
    /\ Because(IF Has(local, Original(v)) \/ Has(blob, Original(v))
               THEN {"fallback"} ELSE {})
    /\ UNCHANGED <<worldVars, inbox, blob, hashes, reportVars, stages>>

\* its original is left to the mail
PassOver(v) ==
    /\ stage.pc = "fakturownia" /\ stage.todo # {} /\ v = First(stage.todo)
    /\ cost[v] = "render" /\ v \in Required
    /\ stage' = [stage EXCEPT !.todo = @ \ {v}]
    /\ UNCHANGED <<worldVars, inbox, local, blob, hashes, reportVars, boundVars,
                   collectionCauses>>

\* the render of an invoice whose original was taken goes, here and there
DropRenders ==
    /\ stage.pc = "fakturownia" /\ stage.todo = {}
    /\ LET renders == {Render(f.of) : f \in
                          {g \in stage.paths : g.kind = "original"}} IN
       /\ local' = With(local, renders, "none")
       /\ \/ blob' = With(blob, renders, "none")
             /\ UNCHANGED <<faults, collectionCauses>>
          \/ /\ \E f \in renders : Has(blob, f)
             /\ Fails /\ UNCHANGED blob /\ Because({"render_kept"})
    /\ stage' = [stage EXCEPT !.pc = "mail", !.paths = {},
          !.todo = {v \in Vendor : Route[v] # "manual"} \ stage.found]
    /\ UNCHANGED <<worldVars, inbox, hashes, reportVars, stages>>

-----------------------------------------------------------------------------
(***************************************************************************)
(* What vendors mailed.  A file or a content the directory already knows   *)
(* is a duplicate, and a vendor of whom only duplicates came is not found. *)
(***************************************************************************)
\* the vendors searched by mail, then those a browser is needed for
NextMail ==
    LET mailed == {v \in stage.todo : Route[v] = "mail"} IN
    First(IF mailed # {} THEN mailed ELSE stage.todo)

FromMail(v) == {a \in mail : a.vendor = v /\ a.text # "other"
                             /\ ~Has(local, Attached(a)) /\ a \notin hashes}

\* saved is what reaches the directory, listed what the stage is told of; a
\* render gives way to an original that is required
FileMail(v, saved, listed) ==
    LET renders == IF listed # {} /\ v \in Required /\ cost[v] # "none"
                   THEN {Render(v)} ELSE {} IN
    /\ local' = With(With(local, {Attached(a) : a \in saved}, "whole"),
                     renders, "none")
    /\ blob' = With(blob, renders, "none")
    /\ hashes' = hashes \cup saved
    /\ stage' = [stage EXCEPT !.todo = @ \ {v},
          !.paths = @ \cup {Attached(a) : a \in listed},
          !.found = IF listed = {} THEN @ ELSE @ \cup {v}]
    /\ UNCHANGED <<worldVars, inbox, reportVars, stages>>

SearchMail(v) ==
    /\ stage.pc = "mail" /\ stage.todo # {} /\ v = NextMail /\ Route[v] = "mail"
    /\ FileMail(v, FromMail(v), FromMail(v))
    /\ UNCHANGED <<faults, collectionCauses>>

\* a message that cannot be read to its end: what was saved of it stays in the
\* directory, but on no list
SearchFault(v) ==
    /\ stage.pc = "mail" /\ stage.todo # {} /\ v = NextMail /\ Route[v] = "mail"
    /\ Fails
    /\ \E saved \in SUBSET FromMail(v) : \E listed \in SUBSET saved :
          /\ FileMail(v, saved, listed)
          /\ Because(IF saved # listed THEN {"unlisted"} ELSE {})

\* the mail only names the documents, each is downloaded by itself, and a file
\* that exists counts as well
Browse(v) ==
    /\ stage.pc = "mail" /\ stage.todo # {} /\ v = NextMail /\ Route[v] = "browser"
    /\ \E named \in SUBSET {a \in mail : a.vendor = v} :
         LET new == {a \in named : ~Has(local, Attached(a))} IN
         /\ \/ named = {a \in mail : a.vendor = v} /\ UNCHANGED faults
            \/ Fails
         /\ local' = With(local, {Attached(a) : a \in new}, "whole")
         /\ stage' = [stage EXCEPT !.todo = @ \ {v},
               !.paths = @ \cup {Attached(a) : a \in new},
               !.found = IF named = {} THEN @ ELSE @ \cup {v}]
    /\ UNCHANGED <<worldVars, inbox, blob, hashes, reportVars, stages,
                   collectionCauses>>

Rejected(paths) ==
    {f \in paths :
        \/ f.of.text \in {"early", "unworded", "other"}
        \/ \E g \in paths : g # f /\ g.of.text = "invoice"
                            /\ g.of.number = f.of.number /\ g.of.first}

\* mutant: a vendor all of whose documents were rejected stays found
GateKeepsFound ==
    /\ stage.pc = "mail" /\ stage.todo = {}
    /\ LET out == Rejected(stage.paths) IN
       /\ local' = With(local, out, "none")
       /\ stage' = [stage EXCEPT !.pc = "report"]
       /\ Because(IF \E f \in out : Route[f.of.vendor] = "browser"
                  THEN {"browser_rejected"} ELSE {})
    /\ UNCHANGED <<worldVars, inbox, blob, hashes, reportVars, boundVars>>

\* only vendors found by attachments are looked at again
Gate ==
    /\ stage.pc = "mail" /\ stage.todo = {}
    /\ LET out == Rejected(stage.paths)
           of(v) == {f \in stage.paths : f.of.vendor = v}
           lost == {v \in stage.found : /\ Route[v] = "mail" /\ of(v) # {}
                                        /\ of(v) \subseteq out} IN
       /\ local' = With(local, out, "none")
       /\ stage' = [stage EXCEPT !.pc = "report", !.found = @ \ lost]
       /\ Because(IF \E f \in out : Route[f.of.vendor] = "browser"
                  THEN {"browser_rejected"} ELSE {})
    /\ UNCHANGED <<worldVars, inbox, blob, hashes, reportVars, boundVars>>

ReportCosts ==
    /\ stage.pc = "report"
    /\ UploadAll(CostFile)
    /\ sheet' = [found |-> stage.found, missing |-> Vendor \ stage.found,
                 mailed |-> {v \in Required \cap stage.found :
                                \E f \in stage.paths : f.of.vendor = v}]
    /\ stage' = IdleStage
    /\ UNCHANGED <<worldVars, inbox, local, hashes, sales, package, stages>>

-----------------------------------------------------------------------------
(***************************************************************************)
(* The sales stage: the list first, then one PDF per number; a file that   *)
(* exists is not downloaded again.                                         *)
(***************************************************************************)
BeginSales ==
    /\ stage.pc = "idle" /\ stages < MaxStages /\ stages' = stages + 1
    /\ stage' = [IdleStage EXCEPT !.pc = "download", !.list = issued,
                    !.todo = {FileOf[Number[s]] : s \in issued}]
    /\ UNCHANGED <<worldVars, inbox, local, blob, hashes, reportVars, faults,
                   collectionCauses>>

Download(n) ==
    /\ stage.pc = "download" /\ stage.todo # {} /\ n = First(stage.todo)
    /\ local' = IF Has(local, Pdf(n)) THEN local
                ELSE With(local, {Pdf(n)}, "whole")
    /\ stage' = [stage EXCEPT !.todo = @ \ {n}]
    /\ UNCHANGED <<worldVars, inbox, blob, hashes, reportVars, boundVars,
                   collectionCauses>>

\* fewer files than invoices: a number or a name was used twice
Short(list) ==
    Cardinality({FileOf[Number[s]] : s \in list}) < Cardinality(list)

SalesDone ==
    /\ stage.pc = "download" /\ stage.todo = {}
    /\ UploadAll({Pdf(FileOf[Number[s]]) : s \in stage.list})
    /\ sales' = [list |-> stage.list, warned |-> Short(stage.list)]
    /\ stage' = IdleStage
    /\ UNCHANGED <<worldVars, inbox, local, hashes, sheet, package, stages>>

-----------------------------------------------------------------------------
(***************************************************************************)
(* A killed stage leaves half of the PDF it was writing; the directory     *)
(* outlives the process, but not the container.                            *)
(***************************************************************************)
Kill ==
    /\ stage.pc # "idle" /\ Fails /\ stage' = IdleStage
    /\ \/ /\ \E v \in stage.todo \cap Vendor :
                /\ stage.pc = "fakturownia" /\ cost[v] = "render"
                /\ v \notin Required /\ ~Has(local, Render(v))
                /\ local' = With(local, {Render(v)}, "half")
          /\ UNCHANGED hashes /\ Because({"killed"})
       \/ /\ \E n \in stage.todo \cap Name :
                ~Has(local, Pdf(n)) /\ local' = With(local, {Pdf(n)}, "half")
          /\ UNCHANGED hashes /\ Because({"killed"})
       \/ UNCHANGED <<local, hashes>> /\ Because({"killed"})
       \/ local' = NoFiles /\ hashes' = {} /\ Because({"killed", "restarted"})
    /\ UNCHANGED <<worldVars, inbox, blob, reportVars, stages>>

\* scaled to zero between two stages
Restart ==
    /\ stage.pc = "idle" /\ local # NoFiles /\ Fails
    /\ local' = NoFiles /\ hashes' = {} /\ Because({"restarted"})
    /\ UNCHANGED <<worldVars, inbox, blob, stage, reportVars, stages>>

(***************************************************************************)
(* The inspection looks for each issued invoice by its file name once any  *)
(* was collected, and for numbers used twice; the package is the blob.     *)
(***************************************************************************)
Collected == {f \in File : f.kind = "sale" /\ Has(blob, f)}

\* mutant: only the invoices listed when they were collected are looked for
SalesIncompleteAsListed ==
    /\ Collected # {}
    /\ \E s \in sales.list : ~Has(blob, Pdf(FileOf[Number[s]]))

SalesIncomplete ==
    /\ Collected # {}
    /\ \E s \in issued : ~Has(blob, Pdf(FileOf[Number[s]]))

NumbersTwice == \E s, t \in issued : s # t /\ Number[s] = Number[t]

\* the dashboard blocks on an original that is required, unless the last cost
\* stage had it from the mail; one Fakturownia has is only yet to be fetched
LacksOriginal(v) ==
    /\ v \in Required /\ cost[v] # "none" /\ ~Has(blob, Original(v))
    /\ Has(blob, Render(v)) \/ cost[v] = "render"
    /\ v \notin sheet.mailed

Package ==
    /\ \A v \in Vendor : ~LacksOriginal(v)
    /\ stage.pc = "idle" /\ Collected # {} /\ sheet # NoSheet
    /\ ~SalesIncomplete /\ ~NumbersTwice
    /\ package # blob /\ package' = blob
    /\ UNCHANGED <<worldVars, inbox, local, blob, hashes, stage, sheet, sales,
                   boundVars, collectionCauses>>

World ==
    \/ \E s \in Sale : Issue(s)
    \/ \E a \in Mail : Arrive(a)
    \/ \E v \in Vendor : Upload(v) \/ \E kind \in {"pdf", "xml"} : Attach(v, kind)

Costs ==
    \/ BeginCosts \/ TakeUploads \/ StoreUploads \/ DropRenders \/ Gate
    \/ ReportCosts
    \/ \E v \in Vendor :
          \/ FetchOriginal(v) \/ Refuse(v) \/ FetchRender(v) \/ PassOver(v)
          \/ SearchMail(v) \/ SearchFault(v) \/ Browse(v)

Sales == BeginSales \/ (\E n \in Name : Download(n)) \/ SalesDone

CollectionNext == World \/ Costs \/ Sales \/ Kill \/ Restart \/ Package

CollectionSpec == CollectionInit /\ [][CollectionNext]_collectionVars

-----------------------------------------------------------------------------
Despite(excuses) == collectionCauses \cap excuses # {}

CostsOf(v, files) ==
    {f \in CostFile : files[f] \notin {"none", "half"} /\
        IF f.kind = "mail" THEN f.of.vendor = v ELSE f.of = v}

(***************************************************************************)
(* Between two stages a vendor the last cost stage counted as found has a  *)
(* document of the month in blob storage, from where it is sent            *)
(* (orchestrator.py:830).                                                  *)
(***************************************************************************)
FoundIsFiled ==
    \/ Despite({"killed", "upload_failed", "browser_rejected"})
    \/ stage.pc # "idle"
    \/ \A v \in sheet.found : CostsOf(v, blob) # {}

(***************************************************************************)
(* No document of another month and no mail that is no invoice is sent, as *)
(* long as every file saved gets to the gate: what a killed stage or a     *)
(* message read in part leaves in the directory does not                   *)
(* (orchestrator.py:783).                                                  *)
(***************************************************************************)
RejectedIsNotSent ==
    \/ Despite({"killed", "unlisted"})
    \/ \A f \in File : f.kind = "mail" /\ Has(package, f) => f.of.text = "invoice"

(***************************************************************************)
(* Blob storage, and so the package, has an invoice as its original or as  *)
(* a render, not as both, also when the original was attached after the    *)
(* render had been stored (client.py:395).                                 *)
(***************************************************************************)
OneSourcePerInvoice ==
    \/ Despite({"killed", "fallback", "refused", "render_kept", "upload_failed",
                "restarted"})
    \/ \A v \in Vendor : ~(Has(blob, Original(v)) /\ Has(blob, Render(v)))

(***************************************************************************)
(* A document uploaded by hand is never lost between the inbox it is taken *)
(* from and the storage it goes to (preflight.py:118).                     *)
(***************************************************************************)
UploadIsKept ==
    \/ Despite({"killed", "upload_failed", "same_name"})
    \/ \A v \in Vendor : uploaded[v] # "none"
          => uploaded[v] \in {inbox[v], local[Manual(v)], blob[Manual(v)]}

(***************************************************************************)
(* A sales stage that raised no warning stored a PDF of its own for each   *)
(* invoice it had listed (orchestrator.py:430).                            *)
(***************************************************************************)
UnwarnedIsComplete ==
    \/ Despite({"killed", "upload_failed"})
    \/ sales.warned
    \/ /\ \A s \in sales.list : blob[Pdf(FileOf[Number[s]])] = "whole"
       /\ \A s, t \in sales.list : FileOf[Number[s]] = FileOf[Number[t]] => s = t

(***************************************************************************)
(* A package is built only over the PDF of every invoice issued by then,   *)
(* also of those issued after the sales were collected                     *)
(* (inspection.py:171).                                                    *)
(***************************************************************************)
PackageIsCurrent ==
    [][package' # package =>
          \A s \in issued : Has(package', Pdf(FileOf[Number[s]]))]_collectionVars

(***************************************************************************)
(* Where only the original will do, no package is built over an invoice of *)
(* which Fakturownia has just its own render, unless the package has what  *)
(* the vendor mailed (inspection.py:447, workflow.py:630).                 *)
(***************************************************************************)
RequiredIsOriginal ==
    [][package' # package =>
          \/ Despite({"killed", "upload_failed"})
          \/ \A v \in Required : cost[v] = "render"
                => \E f \in CostsOf(v, package') : f.kind \in {"original", "mail"}
      ]_collectionVars

(***************************************************************************)
(* What the stages say of the documents is so in storage, over repeated    *)
(* stages, restarts and failing calls: the found is there, the rejected is *)
(* not, uploads are kept, no invoice is there twice and none is missing    *)
(* without a warning (orchestrator.py:664).                                *)
(***************************************************************************)
DocumentsAreFiled ==
    /\ CollectionTypeOK /\ FoundIsFiled /\ RejectedIsNotSent
    /\ OneSourcePerInvoice /\ UploadIsKept /\ UnwarnedIsComplete

(***************************************************************************)
(* What is packed is of the moment it is packed, not of the moment it was  *)
(* collected: every sale by then, every original that has to be            *)
(* (inspection.py:171).                                                    *)
(***************************************************************************)
PackageIsWhole == PackageIsCurrent /\ RequiredIsOriginal
=============================================================================
