------------------------- MODULE ShippingExecutionInv -------------------------
(***************************************************************************)
(* The inductive invariants of ShippingExecution and the ledger it         *)
(* implements.  TLC checks them on small instances; the theorems are in    *)
(* ShippingExecutionProofs.                                                *)
(***************************************************************************)
EXTENDS ShippingExecution

(***************************************************************************)
(* e answers for the draft: it holds the claim, or is on the way to give   *)
(* it back, or has reported success and could still fail on reading back.  *)
(***************************************************************************)
Owner(e) ==
    \/ ex[e].pc \in {"run", "checkpoint", "patch", "failed", "release",
                     "releaseWrite"}
    \/ ex[e].pc = "done" /\ Result(e) = "created"

OwnerIsUnique ==
    \A e1, e2 \in Executor : Owner(e1) /\ Owner(e2) => e1 = e2

OwnerBlocksClaims ==
    \A e \in Executor : Owner(e) => row.status \in {"executing", "created"}

FreshIsClaimable == fresh # {} => CanExecute(row.status)

(***************************************************************************)
(* Until a run fails after reopening the draft (workflow.py:263-330), one  *)
(* executor at most answers for the draft, and while one does nobody can   *)
(* claim it; a claim can only be won on a status read as executable.       *)
(***************************************************************************)
ClaimInv ==
    /\ FreshIsClaimable
    /\ Excused({"late_failure"}) \/ (OwnerIsUnique /\ OwnerBlocksClaims)

-----------------------------------------------------------------------------
Full(refs) == \A p \in Parcel : refs[p] # 0

\* every parcel in tracked has a label with a tracking number
Confirmed(refs, tracked) ==
    \A p \in tracked : refs[p] # 0 /\ <<p, refs[p]>> \in waybill

TrackedIsConfirmed ==
    /\ \A p \in Parcel : <<p, 0>> \notin waybill
    /\ Confirmed(row.refs, row.tracked)
    /\ \A e \in Executor : Confirmed(ex[e].refs, ex[e].tracked)
    /\ \A c \in Confirmer : Confirmed(cf[c].refs, cf[c].tracked)

BoughtOnce ==
    \A p \in Parcel : booked[p] \in {0, 1} /\ row.refs[p] \in {0, booked[p]}

\* the labels bought so far are those of the first parcels of the plan
InPlanOrder ==
    \A p, q \in Parcel : q < p /\ booked[p] = 1 => booked[q] = 1

\* what the executor knows is what the row says, plus the label just bought
OwnerIsUpToDate ==
    \A e \in Executor :
        /\ ex[e].pc \in {"run", "patch"} => ex[e].refs = row.refs
        /\ ex[e].pc = "checkpoint" =>
              /\ ex[e].cur \in Parcel
              /\ row.refs[ex[e].cur] = 0
              /\ ex[e].refs = [row.refs EXCEPT ![ex[e].cur] = 1]
              /\ booked = ex[e].refs
        /\ ex[e].pc = "patch" => Full(ex[e].refs)
        /\ ex[e].pc # "idle" /\ ex[e].resume => Full(ex[e].refs)

\* a label is off the record only while its buyer is at the checkpoint, or
\* was killed there
OffRecordIsClaimed ==
    booked # row.refs =>
        /\ row.status = "executing"
        /\ \A e \in Executor : Owner(e) => ex[e].pc = "checkpoint"

ConfirmerIsUpToDate ==
    \A c \in Confirmer : cf[c].pc = "polling" =>
        Full(cf[c].refs) /\ cf[c].refs = row.refs

StatusIsEarned ==
    /\ row.status \in {"pending_confirmation", "created"} => Full(row.refs)
    /\ row.status = "created" => row.tracked = Parcel

LabelsOnRecord ==
    /\ BoughtOnce
    /\ InPlanOrder
    /\ OwnerIsUpToDate
    /\ OffRecordIsClaimed
    /\ ConfirmerIsUpToDate
    /\ StatusIsEarned

(***************************************************************************)
(* Until a duplicate is excused, every label bought is bought once, in     *)
(* plan order, and is on the row, in the hands of the claim's owner or of  *)
(* a killed one (checkpoints, workflow.py:204); every copy of the shipment *)
(* list that may be written back agrees with the row.                      *)
(***************************************************************************)
LabelInv == TrackedIsConfirmed /\ (Excused(DuplicateCause) \/ LabelsOnRecord)

-----------------------------------------------------------------------------
(***************************************************************************)
(* Once a pickup was ordered, whoever answers for the draft is the run that*)
(* ordered it, and on the way to store the outcome or past it: from there  *)
(* no path leads to another order (composition:256-267).                   *)
(***************************************************************************)
DispatchCause == DuplicateCause \cup {"patch_failed"}

Dispatched(e) ==
    \/ ex[e].pc = "patch" /\ Result(e) = "created"
    \/ ex[e].pc \in {"done", "failed", "release"} /\ row.status = "created"

DispatchInv ==
    \/ Excused(DispatchCause)
    \/ dispatches = 0
    \/ /\ dispatches = 1
       /\ row.status \in {"executing", "created"}
       /\ \A e \in Executor : Owner(e) => Dispatched(e)

(***************************************************************************)
(* As long as no entry is retried twice at a time, a draft that failed, or *)
(* is being released as failed, has an entry that no successful retry is   *)
(* about to delete (workflow.py:295-330, dlq.py:127).                      *)
(***************************************************************************)
QueueCause == {"queue_failed", "double_retry", "late_failure"}

EntriesDiffer ==
    \A e1, e2 \in Executor :
        ex[e1].entry # 0 /\ ex[e1].entry = ex[e2].entry => e1 = e2

Lasting(d) ==
    \A e \in Executor : ex[e].entry = d => ex[e].pc \notin {"done", "unqueue"}

QueueInv ==
    \/ Excused(QueueCause)
    \/ /\ EntriesDiffer
       /\ \/ row.status = "error"
          \/ \E e \in Executor : ex[e].pc \in {"release", "releaseWrite"}
          => \E d \in dlq : Lasting(d)

(***************************************************************************)
(* At Apaczka no confirmer writes and no run resumes; who answers for a    *)
(* created draft has stored its outcome and will not touch the row again,  *)
(* unless a run failed after reopening the draft (workflow.py:144).        *)
(***************************************************************************)
FinalInv ==
    /\ \A c \in Confirmer : cf[c].pc = "idle"
    /\ \/ Excused({"late_failure"})
       \/ row.status = "created" =>
             \A e \in Executor :
                Owner(e) => ex[e].pc \in {"done", "failed", "release"}

-----------------------------------------------------------------------------
Ledger == INSTANCE LabelLedger WITH
    paid <- booked, recorded <- row.refs, excused <- Excused(DuplicateCause)

(***************************************************************************)
(* Executing a draft keeps the promise of LabelLedger: one label at a      *)
(* time, each once, in plan order, none bought while another is off the    *)
(* record (composition:229-255, :344-365, workflow.py:204).                *)
(***************************************************************************)
ImplementsLedger == Ledger!Spec
=============================================================================
