----------------------------- MODULE MonthCloseInv -----------------------------
(***************************************************************************)
(* The inductive invariants of MonthClose.  TLC checks them on small       *)
(* instances; the theorems are in MonthCloseProofs.                        *)
(***************************************************************************)
EXTENDS MonthClose

(***************************************************************************)
(* What a request's own state says: a stage's copy of the run is claimed   *)
(* for it, an attempt is the request's own and pending while it is saved   *)
(* and sent, and stages have numbers of their own (run_id, uuid4).         *)
(***************************************************************************)
Local(q) ==
    /\ q.pc \in HoldingPc => q.run.active = q.op /\ q.run.by = q.n
    /\ q.pc \in {"attempt", "smtp"} =>
          q.run.attempt = [id |-> q.n, state |-> "pending"]
    /\ q.pc = "update" => q.run.active = "none"
    /\ q.pc = "resetWrite" => q.run.waivers = {}

Numbered ==
    /\ \A r \in Request : req[r].op \in STEP_IDS => req[r].n \in 1..ops
    /\ \A q, r \in Request :
          req[q].op \in STEP_IDS /\ req[r].op \in STEP_IDS
             /\ req[q].n = req[r].n => q = r

LocalInv == Numbered /\ \A r \in Request : Local(req[r])

-----------------------------------------------------------------------------
(***************************************************************************)
(* The revision (run_store.py, save): as long as no unconditional save     *)
(* replaced an unread change, every write raises it, so a copy with the    *)
(* stored revision is the stored run, or the one its stage left there.     *)
(***************************************************************************)
UpToDate(r) ==
    LET pc == req[r].pc run == req[r].run IN
    /\ pc \in {"claim", "takeover", "update", "resolve"} =>
          run.rev <= row.rev /\ (run.rev = row.rev \/ r \in fresh => run = row)
    /\ pc \in {"work", "attempt", "smtp", "finish", "resetWrite"} =>
          run.rev <= row.rev /\ (r \in fresh => run.rev = row.rev)
    /\ pc \in {"finishWrite", "settleWrite"} =>
          run.rev <= row.rev + 1 /\ (r \in fresh => run.rev = row.rev + 1)
    /\ pc = "settle" => run.rev <= row.rev + 1
    \* the stored run with this revision was written by this stage
    /\ pc \in {"work", "attempt", "smtp", "finish"} =>
          (run.rev = row.rev => row.by = req[r].n)
    /\ pc \in {"finishWrite", "settle"} =>
          (run.rev = row.rev + 1 => row.by = req[r].n)

RevisionInv == Excused({"blind_save"}) \/ \A r \in Request : UpToDate(r)

(***************************************************************************)
(* Without overruns and resets a stage at work has the stored claim; what  *)
(* remains of a stage that failed to finish saves only over its own claim  *)
(* or over none (run_store.py:443, workflow.py:320).                       *)
(***************************************************************************)
ClaimCause == {"overrun", "blind_save", "reset"}

HasClaim(r) == row.active = req[r].op /\ row.by = req[r].n

Claimant(r) ==
    /\ req[r].pc \in {"work", "attempt", "smtp", "finish", "finishWrite"} =>
          HasClaim(r)
    /\ req[r].pc = "settle" /\ row.rev <= req[r].run.rev =>
          HasClaim(r) \/ (row.active = "none" /\ row.rev = req[r].run.rev)
    /\ req[r].pc = "settleWrite" /\ r \in fresh =>
          HasClaim(r) \/ row.active = "none"
    /\ req[r].pc = "claim" /\ r \in fresh => ~Busy
    /\ req[r].pc = "takeover" /\ r \in fresh => Stale

ClaimInv == Excused(ClaimCause) \/ \A r \in Request : Claimant(r)

-----------------------------------------------------------------------------
(***************************************************************************)
(* The e-mail.  Once it may be out, the stored attempt is its own and not  *)
(* one that may be repeated, and no copy that may still be saved says      *)
(* otherwise; a request about to begin an attempt has not missed it        *)
(* (send_attempt.py, workflow.py:342).                                     *)
(***************************************************************************)
Live == mails # {} \/ \E r \in Request : req[r].pc = "smtp"

InFlight(attempt) == attempt.state \in {"pending", "confirmed"}

Agrees(attempt) == attempt.id = row.attempt.id /\ InFlight(attempt)

MailCopy(r) ==
    LET pc == req[r].pc run == req[r].run IN
    /\ pc = "smtp" => mails = {} /\ row.attempt.id = req[r].n
    /\ pc = "work" => (run.rev = row.rev => run.attempt = row.attempt)
    /\ (pc = "work" /\ MaySend(run.attempt)) \/ pc = "attempt" =>
          (row.rev <= run.rev + 1 => ~Live)
    /\ pc \in {"finish", "finishWrite", "settle"}
             \/ (pc = "settleWrite" /\ r \in fresh) =>
          (row.rev <= run.rev /\ Live => Agrees(run.attempt))

MailInv ==
    \/ Excused(MailCause)
    \/ /\ Live => InFlight(row.attempt)
       /\ \A m \in mails : m.attempt = row.attempt.id
       /\ \A m1, m2 \in mails : m1 = m2
       /\ \A r \in Request : MailCopy(r)

(***************************************************************************)
(* The package in blob storage stays the reviewed one from the moment it   *)
(* is verified until the e-mail is out: only a stage could replace it.     *)
(***************************************************************************)
ReviewedInv ==
    \/ Excused(ClaimCause \cup {"local_zip"})
    \/ /\ localZip = 0
       /\ \A m \in mails : m.package = m.reviewed
       /\ \A r \in Request :
             req[r].pc \in {"attempt", "smtp"} => req[r].run.package = blob

(***************************************************************************)
(* A current copy has the stored waivers.                                  *)
(***************************************************************************)
WaiverInv ==
    \/ Excused({"blind_save", "late_result"})
    \/ /\ row.waivers \subseteq granted
       /\ \A r \in Request :
             r \in fresh /\ req[r].pc \notin {"idle", "reset", "resetWrite"} =>
                req[r].run.waivers = row.waivers
=============================================================================
