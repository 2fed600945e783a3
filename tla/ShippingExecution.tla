-------------------------- MODULE ShippingExecution --------------------------
(***************************************************************************)
(* Executing one shipping draft at InPost or Apaczka:                      *)
(* POST /execute and the DLQ retry (execute_draft), the confirm endpoint   *)
(* and the scheduled InPost poller, all working on one row of the draft    *)
(* table and on a courier that sells a label per POST.                     *)
(*                                                                         *)
(* Every operation of the code touches a single draft row, so one row is   *)
(* modelled; requests run concurrently in several API replicas and in the  *)
(* poller job.  One action is one call to the store or to the courier.     *)
(* Ship with Allegro, whose labels are asynchronous commands, is not this  *)
(* module's subject.                                                       *)
(***************************************************************************)
EXTENDS Integers, FiniteSets

CONSTANTS
    Executor,    \* request handlers that run execute_draft
    Confirmer,   \* confirm requests and poller cycles
    NumParcels,  \* physical parcels in the draft's plan
    Courier,     \* "inpost" or "apaczka"
    MaxRuns,     \* bound: execute requests that get past their first checks
    MayCrash,    \* whether handlers are killed half-way
    MayFault,    \* whether storage calls fail
    MayLose      \* whether courier answers are lost after the courier acted

ASSUME ParcelsAssumption == NumParcels \in Nat \ {0}
ASSUME CourierAssumption == Courier \in {"inpost", "apaczka"}
ASSUME BoundsAssumption ==
    /\ MaxRuns \in Nat
    /\ {MayCrash, MayFault, MayLose} \subseteq BOOLEAN

Parcel == 1..NumParcels

Status == {"pending", "needs_review", "pending_confirmation", "executing",
           "created", "error", "cancelled"}

EXECUTABLE_STATES == {"pending", "pending_confirmation", "error"}

CanExecute(status) == status \in EXECUTABLE_STATES

(***************************************************************************)
(* What excuses a broken promise, recorded when it occurs.                 *)
(***************************************************************************)
DuplicateCause ==
    {"lost_answer",        \* booked, but the answer never arrived
     "checkpoint_failed",  \* booked, but the row does not say so
     "stale_snapshot",     \* claimed with an outdated shipment list
     "late_failure"}       \* failed after reopening the draft

Cause == DuplicateCause \cup
    {"patch_failed",       \* the outcome of a complete run was not stored
     "queue_failed",       \* the dead-letter entry was not stored
     "double_retry"}       \* one dead-letter entry retried twice at a time

VARIABLES
    row,        \* the draft's row in the table
    fresh,      \* executors whose read of the row still has the current ETag
    ex,         \* the executors' local state
    cf,         \* the confirmers' local state
    booked,     \* booked[p]: labels the courier has sold for parcel p
    waybill,    \* <<p, n>>: the n-th label of p has its tracking number
    dispatches, \* pickups the courier has accepted
    dlq,        \* dead-letter entries of kind draft_execution
    runs,       \* what MaxRuns bounds
    causes      \* history: the causes met so far

storeVars == <<row, fresh, dlq>>
courierVars == <<booked, waybill, dispatches>>
historyVars == <<runs, causes>>
vars == <<row, fresh, ex, cf, booked, waybill, dispatches, dlq, runs, causes>>

(***************************************************************************)
(* refs[p] is the label recorded for parcel p in courier_shipments (0:     *)
(* none), tracked the parcels recorded with a tracking number, draftId     *)
(* whether courier_draft_id is set.                                        *)
(***************************************************************************)
Refs == [Parcel -> Nat]
NoRefs == [p \in Parcel |-> 0]

Row == [status : Status, refs : Refs, tracked : SUBSET Parcel,
        draftId : BOOLEAN, pickup : BOOLEAN]

ExecPc == {"idle", "read", "claim", "run", "checkpoint", "patch", "done",
           "unqueue", "failed", "release", "releaseWrite"}

(***************************************************************************)
(* refs and tracked start as the pre-claim snapshot of courier_shipments   *)
(* and collect this run's labels; cur is the parcel just booked; resume    *)
(* and pick come from the same snapshot; entry is the DLQ entry being      *)
(* retried (0: a direct request).                                          *)
(***************************************************************************)
Exec == [pc : ExecPc, resume : BOOLEAN, refs : Refs,
         tracked : SUBSET Parcel, cur : 0..NumParcels, entry : Nat,
         pick : {"no", "ask", "yes"}]

IdleExec == [pc |-> "idle", resume |-> FALSE, refs |-> NoRefs, tracked |-> {},
             cur |-> 0, entry |-> 0, pick |-> "no"]

Conf == [pc : {"idle", "polling"}, refs : Refs, tracked : SUBSET Parcel,
         pickup : BOOLEAN]

IdleConf == [pc |-> "idle", refs |-> NoRefs, tracked |-> {}, pickup |-> FALSE]

\* The draft row, the handlers' copies, the courier's labels and the dead
\* letters keep their types (shipping_store.py).
TypeOK ==
    /\ row \in Row
    /\ fresh \in SUBSET Executor
    /\ ex \in [Executor -> Exec]
    /\ cf \in [Confirmer -> Conf]
    /\ booked \in Refs
    /\ waybill \in SUBSET (Parcel \X Nat)
    /\ dispatches \in Nat
    /\ dlq \in SUBSET Nat
    /\ runs \in Nat
    /\ causes \in SUBSET Cause

InitRow(status) == [status |-> status, refs |-> NoRefs, tracked |-> {},
                    draftId |-> FALSE, pickup |-> FALSE]

Init ==
    /\ row = InitRow("pending")
    /\ fresh = {}
    /\ ex = [e \in Executor |-> IdleExec]
    /\ cf = [c \in Confirmer |-> IdleConf]
    /\ booked = NoRefs /\ waybill = {} /\ dispatches = 0
    /\ dlq = {}
    /\ runs = 0
    /\ causes = {}

-----------------------------------------------------------------------------
(***************************************************************************)
(* The store.  A write moves the row's ETag, so no earlier read is current *)
(* any more.  A failing call may or may not have been applied.             *)
(***************************************************************************)
Write(r) == row' = r /\ fresh' = {}

Unwritten == UNCHANGED <<row, fresh>>

Goto(e, pc) == ex' = [ex EXCEPT ![e].pc = pc]

Finish(e) == ex' = [ex EXCEPT ![e] = IdleExec]

IsResumable(r) == /\ Courier = "inpost"
                  /\ r.status = "pending_confirmation"
                  /\ r.draftId

(***************************************************************************)
(* execute_draft, up to the claim: one get_draft supplies everything the   *)
(* run will use.  d is the DLQ entry being retried, 0 for none; ask says   *)
(* whether the request carries a pickup date.                              *)
(***************************************************************************)
Begin(e, d, ask) ==
    /\ ex[e].pc = "idle"
    /\ runs < MaxRuns
    /\ row.status # "needs_review"
    /\ runs' = runs + 1
    /\ ex' = [ex EXCEPT ![e] =
                [pc |-> "read", resume |-> IsResumable(row),
                 refs |-> row.refs, tracked |-> row.tracked, cur |-> 0,
                 entry |-> d,
                 pick |-> IF IsResumable(row)
                          THEN IF row.pickup THEN "yes" ELSE "no"
                          ELSE IF ask /\ Courier = "inpost"
                               THEN "ask" ELSE "no"]]
    /\ causes' = IF d # 0 /\ \E x \in Executor \ {e} : ex[x].entry = d
                 THEN causes \cup {"double_retry"} ELSE causes
    /\ UNCHANGED <<storeVars, cf, courierVars>>

(***************************************************************************)
(* try_claim_execution: read the entity with its ETag, refuse a status     *)
(* that may not be executed, then update under IfNotModified.              *)
(***************************************************************************)
TryClaimRead(e) ==
    /\ ex[e].pc = "read"
    /\ CanExecute(row.status)
    /\ fresh' = fresh \cup {e}
    /\ Goto(e, "claim")
    /\ UNCHANGED <<row, dlq, cf, courierVars, historyVars>>

TryClaimRefused(e) ==
    /\ ex[e].pc = "read"
    /\ ~CanExecute(row.status)
    /\ Finish(e)
    /\ UNCHANGED <<storeVars, cf, courierVars, historyVars>>

\* mutant: an update without IfNotModified
ETagMatchesAlways(e) == TRUE

ETagMatches(e) == e \in fresh

TryClaimWin(e) ==
    /\ ex[e].pc = "claim"
    /\ ETagMatches(e)
    /\ Write([row EXCEPT !.status = "executing"])
    /\ Goto(e, "run")
    /\ causes' = IF ex[e].refs = row.refs
                 THEN causes ELSE causes \cup {"stale_snapshot"}
    /\ UNCHANGED <<dlq, cf, courierVars, runs>>

TryClaimLose(e) ==
    /\ ex[e].pc = "claim"
    /\ ~ETagMatches(e)
    /\ Finish(e)
    /\ UNCHANGED <<storeVars, cf, courierVars, historyVars>>

(***************************************************************************)
(* Any exception counts as a lost claim, also when the update was applied: *)
(* the row then says executing and nobody executes.                        *)
(***************************************************************************)
TryClaimFault(e) ==
    /\ ex[e].pc = "claim"
    /\ MayFault
    /\ \/ Unwritten
       \/ ETagMatches(e) /\ Write([row EXCEPT !.status = "executing"])
    /\ Finish(e)
    /\ UNCHANGED <<dlq, cf, courierVars, historyVars>>

-----------------------------------------------------------------------------
(***************************************************************************)
(* The provider runners.  Parcels already in the snapshot's shipments are  *)
(* skipped; the others are bought in plan order, each one checkpointed     *)
(* before the next is bought.                                              *)
(***************************************************************************)
\* mutant: only this run's own labels are skipped
TodoOfThisRun(e) == {p \in Parcel : p > ex[e].cur}

Todo(e) == {p \in Parcel : ex[e].refs[p] = 0}

\* mutant: parcels in any order
IsNextInAnyOrder(e, p) == p \in Todo(e)

IsNext(e, p) == p \in Todo(e) /\ \A q \in Todo(e) : p <= q

Booking(e) == ex[e].pc = "run" /\ ~ex[e].resume

Book(e, p, withWaybill) ==
    /\ Booking(e) /\ IsNext(e, p)
    /\ booked' = [booked EXCEPT ![p] = @ + 1]
    /\ waybill' = IF withWaybill THEN waybill \cup {<<p, booked[p] + 1>>}
                  ELSE waybill
    /\ ex' = [ex EXCEPT ![e].pc = "checkpoint",
                        ![e].refs[p] = booked[p] + 1,
                        ![e].tracked = IF withWaybill THEN @ \cup {p} ELSE @,
                        ![e].cur = p]
    /\ UNCHANGED <<storeVars, cf, dispatches, historyVars>>

BookLost(e, p) ==
    /\ Booking(e) /\ IsNext(e, p)
    /\ MayLose
    /\ booked' = [booked EXCEPT ![p] = @ + 1]
    /\ Goto(e, "failed")
    /\ causes' = causes \cup {"lost_answer"}
    /\ UNCHANGED <<storeVars, cf, waybill, dispatches, runs>>

(***************************************************************************)
(* Everything that raises between the claim and a successful answer and    *)
(* buys nothing: a missing secret or a validation error before the first   *)
(* label, a refusal, a failed poll of the shipments being resumed.         *)
(***************************************************************************)
\* mutant: the failure escapes the except blocks
RunFailsUnhandled(e) ==
    /\ ex[e].pc = "run"
    /\ ex[e].resume \/ Todo(e) # {} \/ ex[e].cur = 0
    /\ Finish(e)
    /\ UNCHANGED <<storeVars, cf, courierVars, historyVars>>

RunFails(e) ==
    /\ ex[e].pc = "run"
    /\ ex[e].resume \/ Todo(e) # {} \/ ex[e].cur = 0
    /\ Goto(e, "failed")
    /\ UNCHANGED <<storeVars, cf, courierVars, historyVars>>

\* mutant: the checkpoint holds the newest shipment only
CheckpointedAlone(e) ==
    LET cur == ex[e].cur IN
    [row EXCEPT !.refs = [NoRefs EXCEPT ![cur] = ex[e].refs[cur]],
                !.tracked = ex[e].tracked \cap {cur}]

\* mutant: the checkpoint is taken before the new shipment is appended
CheckpointedLate(e) == row

\* update_draft({"courier_shipments": ...}) replaces the whole list
Checkpointed(e) ==
    [row EXCEPT !.refs = ex[e].refs, !.tracked = ex[e].tracked]

PersistShipment(e) ==
    /\ ex[e].pc = "checkpoint"
    /\ Write(Checkpointed(e))
    /\ Goto(e, "run")
    /\ UNCHANGED <<dlq, cf, courierVars, historyVars>>

PersistShipmentFault(e) ==
    /\ ex[e].pc = "checkpoint"
    /\ MayFault
    /\ Goto(e, "failed")
    /\ \/ Write(Checkpointed(e)) /\ UNCHANGED causes
       \/ Unwritten /\ causes' = causes \cup {"checkpoint_failed"}
    /\ UNCHANGED <<dlq, cf, courierVars, runs>>

\* labels in refs whose tracking number the courier can already show
Shown(refs) == {p \in Parcel : <<p, refs[p]>> \in waybill}

(***************************************************************************)
(* resume_inpost_shipment polls each untracked shipment in turn, so it may *)
(* see any part of what the courier has issued; nothing is bought.         *)
(***************************************************************************)
Resume(e, seen) ==
    /\ ex[e].pc = "run" /\ ex[e].resume
    /\ seen \subseteq Shown(ex[e].refs)
    /\ ex' = [ex EXCEPT ![e].pc = "patch", ![e].tracked = @ \cup seen]
    /\ UNCHANGED <<storeVars, cf, courierVars, historyVars>>

AllTracked(refs, tracked) ==
    \A p \in Parcel : refs[p] # 0 => p \in tracked

\* mutant: one tracking number is enough
PatchStatusOfAny(refs, tracked) ==
    IF tracked # {} THEN "created" ELSE "pending_confirmation"

\* mutant: a status the lifecycle does not know
PatchStatusUnknown(refs, tracked) ==
    IF AllTracked(refs, tracked) THEN "confirmed" ELSE "pending_confirmation"

\* shipment_patch's status: created once every shipment has a tracking number
PatchStatus(refs, tracked) ==
    IF (\E p \in Parcel : refs[p] # 0) /\ AllTracked(refs, tracked)
    THEN "created" ELSE "pending_confirmation"

Result(e) == PatchStatus(ex[e].refs, ex[e].tracked)

\* mutant: the pickup is ordered for unconfirmed shipments too
PickupDueEarly(e) == ex[e].pick = "ask"

PickupDue(e) == ex[e].pick = "ask" /\ Result(e) = "created"

(***************************************************************************)
(* All parcels are bought.  _run_inpost then orders the pickup the request *)
(* asked for, if the shipments are confirmed; a failure of that call, lost *)
(* answer included, is logged and forgotten.                               *)
(***************************************************************************)
AllBooked(e) ==
    /\ Booking(e) /\ Todo(e) = {}
    /\ \/ /\ PickupDue(e)
          /\ \/ /\ dispatches' = dispatches + 1
                /\ ex' = [ex EXCEPT ![e].pc = "patch", ![e].pick = "yes"]
             \/ /\ UNCHANGED dispatches
                /\ ex' = [ex EXCEPT ![e].pc = "patch", ![e].pick = "no"]
             \/ /\ MayLose
                /\ dispatches' = dispatches + 1
                /\ ex' = [ex EXCEPT ![e].pc = "patch", ![e].pick = "no"]
       \/ /\ ~PickupDue(e)
          /\ ex' = [ex EXCEPT ![e].pc = "patch", ![e].pick = "no"]
          /\ UNCHANGED dispatches
    /\ UNCHANGED <<storeVars, cf, booked, waybill, historyVars>>

Patched(e) ==
    [status |-> Result(e), refs |-> ex[e].refs, tracked |-> ex[e].tracked,
     draftId |-> TRUE, pickup |-> ex[e].pick = "yes"]

WritePatch(e) ==
    /\ ex[e].pc = "patch"
    /\ Write(Patched(e))
    /\ Goto(e, "done")
    /\ UNCHANGED <<dlq, cf, courierVars, historyVars>>

\* a failure after a patch that left the draft executable again
LateFailure(e) ==
    causes' = IF CanExecute(Result(e))
              THEN causes \cup {"late_failure"} ELSE causes

WritePatchFault(e) ==
    /\ ex[e].pc = "patch"
    /\ MayFault
    /\ Goto(e, "failed")
    /\ \/ Unwritten /\ causes' = causes \cup {"patch_failed"}
       \/ Write(Patched(e)) /\ LateFailure(e)
    /\ UNCHANGED <<dlq, cf, courierVars, runs>>

\* the get_draft behind the patch, still inside the try block
ReadBack(e) ==
    /\ ex[e].pc = "done"
    /\ IF ex[e].entry = 0 THEN Finish(e) ELSE Goto(e, "unqueue")
    /\ UNCHANGED <<storeVars, cf, courierVars, historyVars>>

ReadBackFault(e) ==
    /\ ex[e].pc = "done"
    /\ MayFault
    /\ Goto(e, "failed")
    /\ LateFailure(e)
    /\ UNCHANGED <<storeVars, cf, courierVars, runs>>

\* retry_dlq_entry after a successful run; delete_dlq_entry swallows failures
Unqueue(e) ==
    /\ ex[e].pc = "unqueue"
    /\ \/ dlq' = dlq \ {ex[e].entry}
       \/ MayFault /\ UNCHANGED dlq
    /\ Finish(e)
    /\ UNCHANGED <<row, fresh, cf, courierVars, historyVars>>

-----------------------------------------------------------------------------
(***************************************************************************)
(* The failure path: first the dead-letter entry, then the claim.  Neither *)
(* may mask the real error, so a storage failure in either is swallowed.   *)
(***************************************************************************)
Unused(d) == d \notin dlq /\ \A x \in Executor : ex[x].entry # d

\* mutant: one entry per draft
FailureEntryOfDraft(e, d) == d = 1

\* the entry a failure updates, or a fresh one (a uuid in the code)
FailureEntry(e, d) ==
    IF ex[e].entry # 0 THEN d = ex[e].entry
    ELSE Unused(d) /\ \A k \in 1..(d - 1) : ~Unused(k)

RecordExecutionFailure(e) ==
    /\ ex[e].pc = "failed"
    /\ \/ \E d \in 1..MaxRuns : FailureEntry(e, d) /\ dlq' = dlq \cup {d}
          /\ UNCHANGED causes
       \/ MayFault /\ UNCHANGED dlq /\ causes' = causes \cup {"queue_failed"}
    /\ Goto(e, "release")
    /\ UNCHANGED <<row, fresh, cf, courierVars, runs>>

\* mutant: whatever the draft has become, it is released
StillClaimedOrCreated == row.status \in {"executing", "created"}

StillClaimed == row.status = "executing"

ReleaseRead(e) ==
    /\ ex[e].pc = "release"
    /\ IF StillClaimed THEN Goto(e, "releaseWrite") ELSE Finish(e)
    /\ UNCHANGED <<storeVars, cf, courierVars, historyVars>>

\* update_draft is unconditional: the row may have changed since ReleaseRead
ReleaseWrite(e) ==
    /\ ex[e].pc = "releaseWrite"
    /\ Write([row EXCEPT !.status = "error"])
    /\ Finish(e)
    /\ UNCHANGED <<dlq, cf, courierVars, historyVars>>

ReleaseFault(e) ==
    /\ ex[e].pc \in {"release", "releaseWrite"}
    /\ MayFault
    /\ Finish(e)
    /\ UNCHANGED <<storeVars, cf, courierVars, historyVars>>

\* the replica is killed: whatever the handler knew is gone
Crash(e) ==
    /\ ex[e].pc # "idle"
    /\ MayCrash
    /\ Finish(e)
    /\ UNCHANGED <<storeVars, cf, courierVars, historyVars>>

-----------------------------------------------------------------------------
(***************************************************************************)
(* The confirm endpoint and the InPost poller: read a resumable row, poll  *)
(* the courier, and write created once every shipment has its waybill.     *)
(* The write is unconditional and carries the snapshot's pickup flag.      *)
(***************************************************************************)
ConfirmRead(c) ==
    /\ cf[c].pc = "idle"
    /\ IsResumable(row)
    /\ cf' = [cf EXCEPT ![c] = [pc |-> "polling", refs |-> row.refs,
                                tracked |-> row.tracked,
                                pickup |-> row.pickup]]
    /\ UNCHANGED <<storeVars, ex, courierVars, historyVars>>

\* mutant: the poll's answers are not looked at
ConfirmableBeforePoll(c) ==
    PatchStatus(cf[c].refs, cf[c].tracked) = "created"

Confirmable(c) ==
    PatchStatus(cf[c].refs, cf[c].tracked \cup Shown(cf[c].refs)) = "created"

ConfirmWrite(c) ==
    /\ cf[c].pc = "polling"
    /\ Confirmable(c)
    /\ Write([status |-> "created", refs |-> cf[c].refs,
              tracked |-> cf[c].tracked \cup Shown(cf[c].refs),
              draftId |-> TRUE, pickup |-> cf[c].pickup])
    /\ cf' = [cf EXCEPT ![c] = IdleConf]
    /\ UNCHANGED <<dlq, ex, courierVars, historyVars>>

\* still pending (202, or the poller's next cycle), the poll or the write
\* failed, or the job was killed
ConfirmGivesUp(c) ==
    /\ cf[c].pc = "polling"
    /\ cf' = [cf EXCEPT ![c] = IdleConf]
    /\ UNCHANGED <<storeVars, ex, courierVars, historyVars>>

\* the courier confirms a label some time after selling it
IssueWaybill(p, n) ==
    /\ n \in 1..booked[p]
    /\ <<p, n>> \notin waybill
    /\ waybill' = waybill \cup {<<p, n>>}
    /\ UNCHANGED <<storeVars, ex, cf, booked, dispatches, historyVars>>

ExecutorStep(e) ==
    \/ TryClaimRead(e) \/ TryClaimRefused(e) \/ TryClaimWin(e)
    \/ TryClaimLose(e) \/ TryClaimFault(e)
    \/ \E p \in Parcel : \/ \E w \in BOOLEAN : Book(e, p, w)
                         \/ BookLost(e, p)
    \/ RunFails(e)
    \/ PersistShipment(e) \/ PersistShipmentFault(e)
    \/ \E seen \in SUBSET Parcel : Resume(e, seen)
    \/ AllBooked(e)
    \/ WritePatch(e) \/ WritePatchFault(e)
    \/ ReadBack(e) \/ ReadBackFault(e) \/ Unqueue(e)
    \/ RecordExecutionFailure(e)
    \/ ReleaseRead(e) \/ ReleaseWrite(e) \/ ReleaseFault(e)

ConfirmerStep(c) == ConfirmRead(c) \/ ConfirmWrite(c) \/ ConfirmGivesUp(c)

Next ==
    \/ \E e \in Executor :
          \/ \E d \in dlq \cup {0}, ask \in BOOLEAN : Begin(e, d, ask)
          \/ ExecutorStep(e)
          \/ Crash(e)
    \/ \E c \in Confirmer : ConfirmerStep(c)
    \/ \E p \in Parcel : \E n \in 1..booked[p] : IssueWaybill(p, n)

Spec == Init /\ [][Next]_vars

(***************************************************************************)
(* A handler that is not killed runs to its end; the poller job is         *)
(* scheduled again and again and not all its polls of a confirmed shipment *)
(* fail; the courier confirms what it sold.                                *)
(***************************************************************************)
Fairness ==
    /\ \A e \in Executor : WF_vars(ExecutorStep(e))
    /\ \A c \in Confirmer : WF_vars(ConfirmRead(c)) /\ SF_vars(ConfirmWrite(c))
    /\ \A p \in Parcel : WF_vars(\E n \in 1..booked[p] : IssueWaybill(p, n))

FairSpec == Spec /\ Fairness

-----------------------------------------------------------------------------
Excused(excuses) == causes \cap excuses # {}

\* between winning the claim and handing the draft back
Holding(e) == ex[e].pc \in {"run", "checkpoint", "patch"}

(***************************************************************************)
(* Two execute requests never buy labels for the draft at the same time.   *)
(* Claiming (workflow.py:187) and releasing (workflow.py:144) keep it true *)
(* unless a run fails after it reopened the draft: then it may release the *)
(* claim of the next one.                                                  *)
(***************************************************************************)
ClaimExclusive ==
    Excused({"late_failure"})
    \/ \A e1, e2 \in Executor : Holding(e1) /\ Holding(e2) => e1 = e2

(***************************************************************************)
(* A parcel is paid for twice only for one of the four listed causes; in   *)
(* particular crashes and any sequence of clean failures and retries never *)
(* buy a label again (docs/ZDROVENA_IMPLEMENTATION_PLAN_V2.md:106).        *)
(***************************************************************************)
NoDuplicateWithoutCause ==
    Excused(DuplicateCause) \/ \A p \in Parcel : booked[p] <= 1

(***************************************************************************)
(* A label that was paid for is on the draft, or the draft is still        *)
(* claimed so that no retry can pay again (checkpoints, workflow.py:204).  *)
(***************************************************************************)
PaidIsRecorded ==
    \/ Excused(DuplicateCause)
    \/ row.status = "executing"
    \/ \A p \in Parcel : row.refs[p] = booked[p]

(***************************************************************************)
(* A draft is shown as created only when every parcel of its plan has a    *)
(* recorded label and a tracking number (shipment_patch, composition:153). *)
(***************************************************************************)
CreatedIsComplete ==
    row.status = "created" =>
        \/ Excused(DuplicateCause)
        \/ \A p \in Parcel : /\ row.refs[p] # 0 /\ p \in row.tracked
                             /\ <<p, row.refs[p]>> \in waybill

(***************************************************************************)
(* No write forgets or replaces a recorded label, although every writer of *)
(* courier_shipments writes its own copy of the whole list.                *)
(***************************************************************************)
LabelsAreKept ==
    [][\/ Excused(DuplicateCause)'
       \/ \A p \in Parcel : row.refs[p] # 0 => row'.refs[p] = row.refs[p]]_vars

(***************************************************************************)
(* The pickup asked for at execution is ordered once, unless the outcome   *)
(* of the run that ordered it is not stored (composition:256-267).         *)
(***************************************************************************)
DispatchedOnce == Excused(DuplicateCause \cup {"patch_failed"})
                  \/ dispatches <= 1

(***************************************************************************)
(* A draft left in error can be retried from the dead-letter queue: a      *)
(* finished retry never takes away the entry of a later failure, unless    *)
(* one entry is retried twice at a time (workflow.py:295-330, dlq.py:127). *)
(***************************************************************************)
ErrorIsQueued ==
    row.status = "error" =>
        dlq # {} \/ Excused({"queue_failed", "double_retry",
                             "late_failure"})

(***************************************************************************)
(* At Apaczka, which no confirmer reads, created is for good: no release   *)
(* of an older run moves the draft back to a state from which it would be  *)
(* bought again, unless a run failed after reopening it (workflow.py:144). *)
(***************************************************************************)
CreatedIsFinal ==
    [][row.status = "created" =>
          row'.status = "created" \/ Excused({"late_failure"})]_vars

(***************************************************************************)
(* When handlers are not killed and storage works, a claim is always given *)
(* back: no error path leaves the draft executing (workflow.py:295-330).   *)
(***************************************************************************)
ClaimIsReleased == row.status = "executing" ~> row.status # "executing"

(***************************************************************************)
(* An InPost draft whose labels are bought does not wait forever for the   *)
(* courier's confirmation (inpost_poller.py:44), whatever retries do.      *)
(***************************************************************************)
PendingResolves ==
    row.status = "pending_confirmation" ~> row.status \in {"created", "error"}

-----------------------------------------------------------------------------

=============================================================================
