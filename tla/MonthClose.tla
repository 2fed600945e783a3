------------------------------ MODULE MonthClose ------------------------------
(***************************************************************************)
(* Closing one month: the close run of a period in Azure Table Storage     *)
(* (run_store.py), the stages an operator runs on it (workflow.py), and    *)
(* the e-mail to the accountant, which must go out once (send_attempt.py). *)
(*                                                                         *)
(* Requests are handled concurrently by the API's replicas.  One action is *)
(* one call to the table, to blob storage or to SMTP.  What an inspection  *)
(* of the period finds is not modelled: a stage may be refused for it at   *)
(* any time.                                                               *)
(***************************************************************************)
EXTENDS Integers, FiniteSets

CONSTANTS
    Request,     \* requests that may be in progress at a time
    Collection,  \* the stages that collect documents
    Prepared,    \* whether the period starts with its package built
    MaxOps,      \* bound: requests, views of the dashboard not counted
    MayCrash,    \* whether requests are abandoned half-way
    MayFault,    \* whether calls fail that the workflow catches
    MayOverrun,  \* whether a stage may take longer than ACTIVE_ACTION_TTL
    MayRefuse    \* whether SMTP refuses messages (else it only fails)

ASSUME CollectionAssumption ==
    Collection # {} /\ Collection \subseteq {"sales", "costs", "reports", "bank"}
ASSUME MonthCloseBounds ==
    /\ MaxOps \in Nat \ {0}
    /\ {Prepared, MayCrash, MayFault, MayOverrun, MayRefuse} \subseteq BOOLEAN

WAIVABLE_STEPS == {"check"} \cup Collection
STEP_IDS == WAIVABLE_STEPS \cup {"package", "send"}

(***************************************************************************)
(* unknown is a pending attempt older than ten minutes; nothing here tells *)
(* the two apart.                                                          *)
(***************************************************************************)
AttemptState == {"none", "pending", "confirmed", "failed"}

(***************************************************************************)
(* What excuses a broken promise, recorded when it occurs.                 *)
(***************************************************************************)
Cause == {"overrun",     \* a claim was taken over while its holder worked on
          "blind_save",  \* an unconditional save replaced an unread change
          "late_result", \* a change did not move the revision a save compares
          "in_flight",   \* an attempt was settled as failed while sending
          "reset",       \* a reset dropped a claim or an attempt
          "local_zip"}   \* a package was built on a replica's disk

VARIABLES
    row,      \* the period's run as stored
    expired,  \* row is claimed and older than ACTIVE_ACTION_TTL
    fresh,    \* requests whose last read or write of row is still current
    req,      \* the requests' local state
    blob,     \* the package in blob storage (0: none)
    localZip, \* the package left on the disk of one replica (0: none)
    mails,    \* what SMTP has accepted
    refused,  \* attempts SMTP has refused
    ops,      \* what MaxOps bounds; numbers the requests
    granted,  \* history: stages whose latest result was waived
    causes    \* history: the causes met so far

storeVars == <<row, expired, fresh>>
worldVars == <<blob, localZip, mails, refused>>
historyVars == <<ops, granted, causes>>
vars == <<row, expired, fresh, req, blob, localZip, mails, refused, ops,
          granted, causes>>

(***************************************************************************)
(* Requests are numbered; a number stands for whatever identifies what the *)
(* request made: run_id, attempt id, the bytes of a package, and (by) the  *)
(* requested_by and started_at of a claim.  done holds the stages whose    *)
(* status is done.                                                         *)
(***************************************************************************)
Attempt == [id : Nat, state : AttemptState]

Run == [id : Nat, rev : Nat, active : STEP_IDS \cup {"none"}, by : Nat,
        done : SUBSET STEP_IDS, waivers : SUBSET WAIVABLE_STEPS,
        package : Nat, attempt : Attempt]

NewRun(n, rev) ==
    [id |-> n, rev |-> rev, active |-> "none", by |-> 0, done |-> {},
     waivers |-> {}, package |-> 0, attempt |-> [id |-> 0, state |-> "none"]]

Operation == STEP_IDS \cup {"view", "waive", "unwaive", "resolve", "reset"}

HoldingPc == {"work", "attempt", "smtp", "finish", "finishWrite", "settle",
              "settleWrite"}

Pc == HoldingPc \cup {"idle", "claim", "takeover", "update", "resolve",
                      "reset", "resetWrite"}

(***************************************************************************)
(* run is the request's copy; ok is a stage's success or, for resolve, the *)
(* operator's answer; target is the stage to be waived.                    *)
(***************************************************************************)
Req == [pc : Pc, op : Operation, n : Nat, run : Run, ok : BOOLEAN,
        target : WAIVABLE_STEPS]

IdleReq == [pc |-> "idle", op |-> "view", n |-> 0, run |-> NewRun(0, 0),
            ok |-> FALSE, target |-> "check"]

Mail == [attempt : Nat, package : Nat, reviewed : Nat]

\* The stored run, the requests' copies of it, the packages and the e-mails
\* keep their types (month_closing/state.py).
TypeOK ==
    /\ row \in Run
    /\ expired \in BOOLEAN
    /\ fresh \in SUBSET Request
    /\ req \in [Request -> Req]
    /\ blob \in Nat /\ localZip \in Nat
    /\ mails \in SUBSET Mail
    /\ refused \in SUBSET Nat
    /\ ops \in Nat
    /\ granted \in SUBSET WAIVABLE_STEPS
    /\ causes \in SUBSET Cause

\* a period just opened, or one whose package request 1 has built
Init ==
    /\ ops = IF Prepared THEN 1 ELSE 0
    /\ row = [NewRun(0, 1) EXCEPT
                !.done = IF Prepared THEN STEP_IDS \ {"send"} ELSE {},
                !.package = ops]
    /\ expired = FALSE /\ fresh = {}
    /\ req = [r \in Request |-> IdleReq]
    /\ blob = ops /\ localZip = 0
    /\ mails = {} /\ refused = {}
    /\ granted = {} /\ causes = {}

-----------------------------------------------------------------------------
(***************************************************************************)
(* The run store.  A write renews updated_at and moves the ETag; who reads *)
(* or writes the row has its current ETag.                                 *)
(***************************************************************************)
Put(run, current) == row' = run /\ expired' = FALSE /\ fresh' = current

Keep(r) == fresh' = fresh \cup {r} /\ UNCHANGED <<row, expired>>

Goto(r, pc) == req' = [req EXCEPT ![r].pc = pc]

End(r) == req' = [req EXCEPT ![r] = IdleReq]

Bumped(run) == [run EXCEPT !.rev = @ + 1]

\* mutant: the claim of a stage that is running is not respected
NeverBusy == FALSE

Busy == row.active # "none" /\ ~expired

\* mutant: the dashboard shows a stale claim and leaves it
NeverStale == FALSE

Stale == row.active # "none" /\ expired

\* _has_moved_on: compares the copy a save was derived from
MovedOn(r) == row.rev # req[r].run.rev \/ row.id # req[r].run.id

ETagMatches(r) == r \in fresh

Holding(r) == req[r].pc \in HoldingPc

Overrun == IF Stale /\ \E q \in Request : Holding(q) THEN {"overrun"} ELSE {}

Blind(r) == IF r \in fresh THEN {} ELSE {"blind_save"}

Late(r) == IF r \in fresh THEN {} ELSE {"late_result"}

(***************************************************************************)
(* try_claim: read, refuse a period whose stage is running, mark and       *)
(* update under IfNotModified; a stage that is run again loses its waiver. *)
(***************************************************************************)
ClaimRead(r, step) ==
    /\ req[r].pc = "idle" /\ ops < MaxOps
    /\ ~Busy
    /\ ops' = ops + 1
    /\ req' = [req EXCEPT ![r] = [IdleReq EXCEPT
                  !.pc = "claim", !.op = step, !.n = ops + 1, !.run = row]]
    /\ Keep(r)
    /\ UNCHANGED <<worldVars, granted, causes>>

\* mutant: waivers of the previous result stay
ClaimedWaived(r) ==
    [req[r].run EXCEPT !.rev = @ + 1, !.active = req[r].op, !.by = req[r].n,
                       !.done = @ \ {req[r].op}]

\* _mark_claimed
Claimed(r) ==
    [req[r].run EXCEPT !.rev = @ + 1, !.active = req[r].op, !.by = req[r].n,
                       !.done = @ \ {req[r].op},
                       !.waivers = @ \ {req[r].op}]

ClaimWrite(r) ==
    /\ req[r].pc = "claim" /\ ETagMatches(r)
    /\ Put(Claimed(r), {r})
    /\ req' = [req EXCEPT ![r].pc = "work", ![r].run = Claimed(r)]
    /\ granted' = granted \ {req[r].op}
    /\ causes' = causes \cup Overrun
    /\ UNCHANGED <<worldVars, ops>>

\* read again, unless busy by now; the third lost update gives up
ClaimConflict(r) ==
    /\ req[r].pc = "claim" /\ ~ETagMatches(r)
    /\ \/ End(r) /\ UNCHANGED storeVars
       \/ /\ ~Busy
          /\ req' = [req EXCEPT ![r].run = row]
          /\ Keep(r)
    /\ UNCHANGED <<worldVars, historyVars>>

-----------------------------------------------------------------------------
(***************************************************************************)
(* _perform: the stage itself, on the request's copy of the run.           *)
(***************************************************************************)
Satisfied(run, step) == step \in run.done \cup run.waivers

\* a check or a collection stage that succeeds
Collect(r) ==
    /\ req[r].pc = "work" /\ req[r].op \in WAIVABLE_STEPS
    /\ req[r].op \in Collection => Satisfied(req[r].run, "check")
    /\ req' = [req EXCEPT ![r].pc = "finish", ![r].ok = TRUE]
    /\ UNCHANGED <<storeVars, worldVars, historyVars>>

(***************************************************************************)
(* An exception is caught and the stage finished as failed (settle).  For  *)
(* send the except block asks for the attempt: before it is begun, that    *)
(* variable is unbound, and the request ends with the claim still stored.  *)
(***************************************************************************)
Raise(r) ==
    IF req[r].op = "send" /\ req[r].run.attempt.id # req[r].n
    THEN End(r)
    ELSE req' = [req EXCEPT ![r].pc = "settle", ![r].ok = FALSE]

\* refused by a prerequisite or failed (not a check), or raising
WorkFails(r) ==
    /\ req[r].pc = "work"
    /\ \/ req[r].op # "check" /\ Goto(r, "finish")
       \/ Raise(r)
    /\ UNCHANGED <<storeVars, worldVars, historyVars>>

(***************************************************************************)
(* The package is zipped from blob storage into blob storage; when that    *)
(* fails it is zipped on the replica's disk and uploaded if possible.  The *)
(* hash is read back from blob storage; a local package has none.          *)
(***************************************************************************)
BuildPackage(r) ==
    /\ req[r].pc = "work" /\ req[r].op = "package"
    /\ \A step \in Collection : Satisfied(req[r].run, step)
    /\ \E hash \in {0, req[r].n} :
          /\ req' = [req EXCEPT ![r].pc = "finish", ![r].ok = TRUE,
                                ![r].run.package = hash]
          /\ \/ /\ hash = 0 => MayFault
                /\ blob' = req[r].n
                /\ UNCHANGED <<localZip, causes>>
             \/ /\ MayFault /\ hash = 0
                /\ localZip' = req[r].n /\ blob' \in {blob, req[r].n}
                /\ causes' = causes \cup {"local_zip"}
    /\ UNCHANGED <<storeVars, mails, refused, ops, granted>>

\* mutant: the stored package is not compared with the reviewed one
PackageAssumed(run) == TRUE

PackageVerified(run) == run.package # 0 /\ run.package = blob

\* mutant: an attempt that never settled does not block
MaySendUnlessConfirmed(attempt) == attempt.state # "confirmed"

MaySend(attempt) == attempt.state \in {"none", "failed"}

BeginAttempt(r) ==
    /\ req[r].pc = "work" /\ req[r].op = "send"
    /\ "package" \in req[r].run.done
    /\ PackageVerified(req[r].run)
    /\ MaySend(req[r].run.attempt)
    /\ req' = [req EXCEPT ![r].pc = "attempt",
                  ![r].run.attempt = [id |-> req[r].n, state |-> "pending"]]
    /\ UNCHANGED <<storeVars, worldVars, historyVars>>

\* mutant: the run is saved without the attempt
AttemptUnsaved(r) == [Bumped(req[r].run) EXCEPT !.attempt = row.attempt]

AttemptSaved(r) == Bumped(req[r].run)

\* an unconditional save, before SMTP is contacted
SaveAttempt(r) ==
    /\ req[r].pc = "attempt"
    /\ Put(AttemptSaved(r), {r})
    /\ req' = [req EXCEPT ![r].pc = "smtp", ![r].run = Bumped(@)]
    /\ causes' = causes \cup Blind(r)
    /\ UNCHANGED <<worldVars, ops, granted>>

SaveAttemptFault(r) ==
    /\ req[r].pc = "attempt" /\ MayFault
    /\ \/ UNCHANGED <<storeVars, causes>>
       \/ Put(AttemptSaved(r), {r}) /\ causes' = causes \cup Blind(r)
    /\ req' = [req EXCEPT ![r].pc = "settle", ![r].run = Bumped(@)]
    /\ UNCHANGED <<worldVars, ops, granted>>

(***************************************************************************)
(* SMTP accepts the message.  A package on the replica's own disk (here)   *)
(* is preferred to the one in blob storage.  The answer may be lost, or    *)
(* the close history may not be written afterwards.                        *)
(***************************************************************************)
SmtpAccepts(r, here) ==
    /\ req[r].pc = "smtp"
    /\ here => localZip # 0
    /\ mails' = mails \cup {[attempt |-> req[r].run.attempt.id,
                             package |-> IF here THEN localZip ELSE blob,
                             reviewed |-> req[r].run.package]}
    /\ \/ req' = [req EXCEPT ![r].pc = "finish", ![r].ok = TRUE,
                             ![r].run.attempt.state = "confirmed"]
       \/ MayFault /\ req' = [req EXCEPT ![r].pc = "settle",
                             ![r].run.attempt.state = "confirmed"]
       \/ Goto(r, "settle")
    /\ UNCHANGED <<storeVars, blob, localZip, refused, historyVars>>

\* no message left: no connection, no package, no secret
SmtpFails(r) ==
    /\ req[r].pc = "smtp"
    /\ Goto(r, "settle")
    /\ UNCHANGED <<storeVars, worldVars, historyVars>>

(***************************************************************************)
(* SMTP refuses the message.  EmailService turns every SMTPException into  *)
(* a RuntimeError, so the workflow does not see a refusal.                 *)
(***************************************************************************)
SmtpRefuses(r) ==
    /\ req[r].pc = "smtp" /\ MayRefuse
    /\ refused' = refused \cup {req[r].run.attempt.id}
    /\ Goto(r, "settle")
    /\ UNCHANGED <<storeVars, blob, localZip, mails, historyVars>>

-----------------------------------------------------------------------------
(***************************************************************************)
(* finish_action: a save under the copy's revision.  In the workflow's try *)
(* block (finish) its failure is caught like any other, and the stage is   *)
(* finished a second time.  save has raised the copy's revision by then if *)
(* it came as far as the conditional update.                               *)
(***************************************************************************)
Finished(r) ==
    [req[r].run EXCEPT
        !.active = "none", !.by = 0,
        !.done = IF req[r].ok THEN @ \cup {req[r].op} ELSE @ \ {req[r].op}]

FinishRead(r) ==
    /\ req[r].pc = "finish"
    /\ IF MovedOn(r)
       THEN Raise(r) /\ UNCHANGED <<storeVars, causes>>
       ELSE /\ req' = [req EXCEPT ![r].pc = "finishWrite", ![r].run = Bumped(@)]
            /\ Keep(r)
            /\ causes' = causes \cup Late(r)
    /\ UNCHANGED <<worldVars, ops, granted>>

FinishWrite(r) ==
    /\ req[r].pc = "finishWrite" /\ ETagMatches(r)
    /\ Put(Finished(r), {})
    /\ End(r)
    /\ UNCHANGED <<worldVars, historyVars>>

FinishConflict(r) ==
    /\ req[r].pc = "finishWrite" /\ ~ETagMatches(r)
    /\ Raise(r)
    /\ UNCHANGED <<storeVars, worldVars, historyVars>>

FinishFault(r) ==
    /\ req[r].pc \in {"finish", "finishWrite"} /\ MayFault
    /\ Raise(r)
    /\ \/ UNCHANGED storeVars
       \/ req[r].pc = "finishWrite" /\ ETagMatches(r) /\ Put(Finished(r), {r})
    /\ UNCHANGED <<worldVars, historyVars>>

SettleRead(r) ==
    /\ req[r].pc = "settle"
    /\ IF MovedOn(r)
       THEN End(r) /\ UNCHANGED <<storeVars, causes>>
       ELSE /\ req' = [req EXCEPT ![r].pc = "settleWrite", ![r].run = Bumped(@)]
            /\ Keep(r)
            /\ causes' = causes \cup Late(r)
    /\ UNCHANGED <<worldVars, ops, granted>>

SettleWrite(r) ==
    /\ req[r].pc = "settleWrite" /\ ETagMatches(r)
    /\ Put(Finished(r), {})
    /\ End(r)
    /\ UNCHANGED <<worldVars, historyVars>>

SettleConflict(r) ==
    /\ req[r].pc = "settleWrite" /\ ~ETagMatches(r)
    /\ End(r)
    /\ UNCHANGED <<storeVars, worldVars, historyVars>>

-----------------------------------------------------------------------------
(***************************************************************************)
(* The requests that do not claim.  All begin with get_or_create, which    *)
(* takes over a stale claim by an unconditional save, even for a viewer.   *)
(***************************************************************************)
\* where get_or_create's caller goes on
After(op, run) ==
    CASE op \in {"waive", "unwaive"} /\ run.active = "none" -> "update"
      [] op = "resolve" /\ run.attempt.state = "pending" -> "resolve"
      [] op = "reset" /\ run.active = "none" -> "reset"
      [] OTHER -> "idle"

Accepted(id) == \E m \in mails : m.attempt = id

(***************************************************************************)
(* An operator who settles an attempt has looked whether it went out.      *)
(***************************************************************************)
Open(r, op, target) ==
    /\ req[r].pc = "idle"
    /\ IF op = "view" THEN UNCHANGED ops ELSE ops < MaxOps /\ ops' = ops + 1
    /\ Stale \/ After(op, row) # "idle"
    /\ req' = [req EXCEPT ![r] =
                  [pc |-> IF Stale THEN "takeover" ELSE After(op, row),
                   op |-> op, n |-> ops', run |-> row,
                   ok |-> op = "resolve" /\ Accepted(row.attempt.id),
                   target |-> target]]
    /\ Keep(r)
    /\ UNCHANGED <<worldVars, granted, causes>>

TakenOver(run) ==
    [Bumped(run) EXCEPT !.active = "none", !.by = 0, !.done = @ \ {run.active}]

TakeOver(r) ==
    LET run == TakenOver(req[r].run) next == After(req[r].op, run) IN
    /\ req[r].pc = "takeover"
    /\ Put(run, {r})
    /\ IF next = "idle" THEN End(r)
       ELSE req' = [req EXCEPT ![r].pc = next, ![r].run = run]
    /\ causes' = causes \cup Overrun \cup Blind(r)
    /\ UNCHANGED <<worldVars, ops, granted>>

\* update: refused while a stage is running, saved under the revision
UpdateWrite(r) ==
    LET stage == {req[r].target} IN
    /\ req[r].pc = "update" /\ ~MovedOn(r)
    /\ \/ /\ req[r].op = "waive"
          /\ Put([Bumped(req[r].run) EXCEPT !.waivers = @ \cup stage], {})
          /\ granted' = granted \cup stage
       \/ /\ req[r].op = "unwaive"
          /\ Put([Bumped(req[r].run) EXCEPT !.waivers = @ \ stage], {})
          /\ granted' = granted \ stage
    /\ End(r)
    /\ UNCHANGED <<worldVars, ops, causes>>

\* replayed on a run read again, up to UPDATE_RETRIES times
UpdateConflict(r) ==
    LET next == IF Stale THEN "takeover" ELSE After(req[r].op, row) IN
    /\ req[r].pc = "update" /\ MovedOn(r)
    /\ \/ End(r) /\ UNCHANGED storeVars
       \/ /\ next # "idle"
          /\ req' = [req EXCEPT ![r].pc = next, ![r].run = row]
          /\ Keep(r)
    /\ UNCHANGED <<worldVars, historyVars>>

\* mutant: settling closes the period whatever the operator answers
ResolvedAlways(run, delivered) ==
    [Bumped(run) EXCEPT !.attempt.state = "confirmed", !.done = @ \cup {"send"}]

\* mutant: a state the attempt's readers do not know
ResolvedRenamed(run, delivered) ==
    [Bumped(run) EXCEPT !.attempt.state = IF delivered THEN "sent" ELSE "failed"]

Resolved(run, delivered) ==
    IF delivered
    THEN [Bumped(run) EXCEPT !.attempt.state = "confirmed",
                             !.done = @ \cup {"send"}]
    ELSE [Bumped(run) EXCEPT !.attempt.state = "failed"]

Sending(id) == \E q \in Request : /\ req[q].pc = "smtp"
                                  /\ req[q].run.attempt.id = id

\* resolve_email_attempt saves unconditionally, whoever holds the claim
ResolveWrite(r) ==
    LET id == req[r].run.attempt.id IN
    /\ req[r].pc = "resolve"
    /\ Put(Resolved(req[r].run, req[r].ok), {})
    /\ causes' = causes \cup Blind(r) \cup
                 IF ~req[r].ok /\ (Accepted(id) \/ Sending(id))
                 THEN {"in_flight"} ELSE {}
    /\ End(r)
    /\ UNCHANGED <<worldVars, ops, granted>>

\* the revision goes on, everything else starts anew
ResetRead(r) ==
    /\ req[r].pc = "reset"
    /\ req' = [req EXCEPT ![r].pc = "resetWrite",
                          ![r].run = NewRun(req[r].n, row.rev)]
    /\ Keep(r)
    /\ UNCHANGED <<worldVars, historyVars>>

ResetWrite(r) ==
    /\ req[r].pc = "resetWrite"
    /\ Put(Bumped(req[r].run), {})
    /\ causes' = causes \cup Blind(r) \cup
                 IF \/ row.active # "none"
                    \/ row.attempt.state \in {"pending", "confirmed"}
                 THEN {"reset"} ELSE {}
    /\ End(r)
    /\ UNCHANGED <<worldVars, ops, granted>>

(***************************************************************************)
(* The replica is killed, or a call that nothing catches fails, applied    *)
(* (then just after the action that applied it) or not.                    *)
(***************************************************************************)
Abandon(r) ==
    /\ req[r].pc # "idle" /\ MayCrash
    /\ End(r)
    /\ UNCHANGED <<storeVars, worldVars, historyVars>>

\* thirty minutes pass since the claimed run was last written
Expire ==
    /\ row.active # "none" /\ ~expired
    /\ MayOverrun \/ \A q \in Request : ~Holding(q)
    /\ expired' = TRUE
    /\ UNCHANGED <<row, fresh, req, worldVars, historyVars>>

StageStep(r) ==
    \/ ClaimWrite(r) \/ ClaimConflict(r)
    \/ Collect(r) \/ WorkFails(r) \/ BuildPackage(r) \/ BeginAttempt(r)
    \/ SaveAttempt(r) \/ SaveAttemptFault(r)
    \/ \E here \in BOOLEAN : SmtpAccepts(r, here)
    \/ SmtpFails(r) \/ SmtpRefuses(r)
    \/ FinishRead(r) \/ FinishWrite(r) \/ FinishConflict(r) \/ FinishFault(r)
    \/ SettleRead(r) \/ SettleWrite(r) \/ SettleConflict(r)

OperatorStep(r) ==
    \/ TakeOver(r)
    \/ UpdateWrite(r) \/ UpdateConflict(r)
    \/ ResolveWrite(r)
    \/ ResetRead(r) \/ ResetWrite(r)

View(r) == Open(r, "view", "check")

Next ==
    \/ \E r \in Request :
          \/ \E step \in STEP_IDS : ClaimRead(r, step)
          \/ \E op \in {"waive", "unwaive"}, target \in WAIVABLE_STEPS :
                Open(r, op, target)
          \/ \E op \in {"resolve", "reset"} : Open(r, op, "check")
          \/ View(r)
          \/ StageStep(r) \/ OperatorStep(r)
          \/ Abandon(r)
    \/ Expire

Spec == Init /\ [][Next]_vars

(***************************************************************************)
(* Requests run on unless they are abandoned; time passes; the dashboard   *)
(* is opened again and not every request that opens it is abandoned.       *)
(***************************************************************************)
FairSpec ==
    /\ Spec
    /\ \A r \in Request : WF_vars(StageStep(r)) /\ WF_vars(OperatorStep(r))
    /\ WF_vars(Expire)
    /\ WF_vars(\E r \in Request : View(r))
    /\ SF_vars(\E r \in Request : TakeOver(r))

-----------------------------------------------------------------------------
Excused(excuses) == causes \cap excuses # {}

\* between winning a claim and finishing the stage
Working(r) == req[r].pc \in {"work", "attempt", "smtp"}

(***************************************************************************)
(* Two stages of a period never run at the same time unless one of them    *)
(* overran its claim or an unconditional save brought back an older run    *)
(* (run_store.py:443).                                                     *)
(***************************************************************************)
ClaimExclusive ==
    \/ Excused({"overrun", "blind_save", "reset"})
    \/ \A q, r \in Request : Working(q) /\ Working(r) => q = r

MailCause == {"blind_save", "in_flight", "reset"}

(***************************************************************************)
(* The accountant gets one e-mail however often send is clicked, requests  *)
(* die, claims are taken over and operators settle what is left open,      *)
(* unless for one of the three causes (send_attempt.py:1).                 *)
(***************************************************************************)
OneMail == Excused(MailCause) \/ \A m1, m2 \in mails : m1 = m2

(***************************************************************************)
(* Every e-mail that went out is on the run, as an attempt nobody can      *)
(* repeat: it is written before SMTP is contacted and no later save loses  *)
(* it (workflow.py:342).                                                   *)
(***************************************************************************)
MailIsOnRecord ==
    \/ Excused(MailCause)
    \/ \A m \in mails : /\ row.attempt.id = m.attempt
                        /\ row.attempt.state \in {"pending", "confirmed"}

(***************************************************************************)
(* send is never marked done unless an e-mail went out, whatever becomes   *)
(* of claims, saves and settled attempts (workflow.py:483, 397).           *)
(***************************************************************************)
DoneIsMailed == "send" \in row.done => mails # {}

(***************************************************************************)
(* The package that was mailed is the one the run had on record when send  *)
(* was confirmed (package_integrity.py:1).                                 *)
(***************************************************************************)
MailIsReviewed ==
    \/ Excused({"overrun", "blind_save", "reset", "local_zip"})
    \/ \A m \in mails : m.package = m.reviewed

(***************************************************************************)
(* A waiver only ever stands for the latest result of its stage: running   *)
(* the stage again drops it and no save brings it back (run_store.py:455). *)
(***************************************************************************)
WaiversLapse ==
    Excused({"blind_save", "late_result"}) \/ row.waivers \subseteq granted

(***************************************************************************)
(* A stage that died does not block its period for good: its claim expires *)
(* and the next look at the dashboard frees it (run_store.py:246).         *)
(***************************************************************************)
PeriodIsFreed == row.active # "none" ~> row.active = "none"

-----------------------------------------------------------------------------
(***************************************************************************)
(* What the repository says of this code and the code does not do.         *)
(***************************************************************************)

(***************************************************************************)
(* send_attempt.py:1: "sending an email exactly once" - here without any   *)
(* operator having reset the run or settled an attempt in flight.          *)
(***************************************************************************)
MailOnce == Excused({"reset", "in_flight"}) \/ \A m1, m2 \in mails : m1 = m2

=============================================================================
