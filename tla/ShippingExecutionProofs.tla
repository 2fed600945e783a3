----------------------- MODULE ShippingExecutionProofs -----------------------
(***************************************************************************)
(* Theorems about ShippingExecution, for any number of handlers, parcels   *)
(* and runs, with and without crashes, storage faults and lost answers.    *)
(***************************************************************************)
EXTENDS ShippingExecutionInv, TLAPS

USE ParcelsAssumption, CourierAssumption, BoundsAssumption

(***************************************************************************)
(* Every variable keeps its type: rows, snapshots and handler states are   *)
(* the ones the code can build (ShippingExecution.tla, TypeOK).            *)
(***************************************************************************)
LEMMA TypeInit == Init => TypeOK
  BY DEF Init, TypeOK, InitRow, Row, Status, Refs, NoRefs, Exec, IdleExec,
         ExecPc, Conf, IdleConf, Parcel, Cause

LEMMA IdleTypes == IdleExec \in Exec /\ IdleConf \in Conf
  BY DEF Exec, IdleExec, ExecPc, Conf, IdleConf, Refs, NoRefs, Parcel

LEMMA PatchStatusType ==
  ASSUME NEW refs, NEW tracked
  PROVE  PatchStatus(refs, tracked) \in {"created", "pending_confirmation"}
  BY DEF PatchStatus

LEMMA TypeBegin ==
  ASSUME TypeOK, NEW e \in Executor, NEW d \in dlq \cup {0},
         NEW ask \in BOOLEAN, Begin(e, d, ask)
  PROVE  TypeOK'
<1> DEFINE pick == IF IsResumable(row)
                   THEN IF row.pickup THEN "yes" ELSE "no"
                   ELSE IF ask /\ Courier = "inpost" THEN "ask" ELSE "no"
<1> DEFINE new == [pc |-> "read", resume |-> IsResumable(row),
                   refs |-> row.refs, tracked |-> row.tracked, cur |-> 0,
                   entry |-> d, pick |-> pick]
<1>1. IsResumable(row) \in BOOLEAN
  BY DEF IsResumable
<1>2. pick \in {"no", "ask", "yes"}
  OBVIOUS
<1>3. row.refs \in Refs /\ row.tracked \in SUBSET Parcel /\ d \in Nat
  BY DEF TypeOK, Row
<1>4. new \in Exec
  <2> HIDE DEF pick
  <2> QED  BY <1>1, <1>2, <1>3 DEF Exec, ExecPc
<1>5. ex' \in [Executor -> Exec]
  <2>1. ex' = [ex EXCEPT ![e] = new]
    BY DEF Begin
  <2> HIDE DEF new
  <2> QED  BY <1>4, <2>1 DEF TypeOK
<1>6. causes' \in SUBSET Cause
  BY DEF Begin, TypeOK, Cause
<1>7. runs' \in Nat
  BY DEF Begin, TypeOK
<1>8. UNCHANGED <<row, fresh, dlq, cf, booked, waybill, dispatches>>
  BY DEF Begin, storeVars, courierVars
<1> QED
  BY <1>5, <1>6, <1>7, <1>8 DEF TypeOK

LEMMA TypeClaim ==
  ASSUME TypeOK, NEW e \in Executor,
         \/ TryClaimRead(e) \/ TryClaimRefused(e) \/ TryClaimWin(e)
         \/ TryClaimLose(e) \/ TryClaimFault(e)
  PROVE  TypeOK'
  BY IdleTypes
  DEF TypeOK, TryClaimRead, TryClaimRefused, TryClaimWin, TryClaimLose,
      TryClaimFault, storeVars, courierVars, historyVars, Row, Exec, ExecPc,
      Cause, DuplicateCause, Write, Unwritten, Goto, Finish, Status

LEMMA TypeBook ==
  ASSUME TypeOK, NEW e \in Executor, NEW p \in Parcel, NEW w \in BOOLEAN,
         Book(e, p, w)
  PROVE  TypeOK'
<1>1. booked[p] + 1 \in Nat /\ p \in 0..NumParcels
  BY DEF TypeOK, Refs, Parcel
<1>2. booked' \in Refs
  BY <1>1 DEF TypeOK, Book, Refs
<1>3. waybill' \in SUBSET (Parcel \X Nat)
  BY <1>1 DEF TypeOK, Book
<1>4. ex' \in [Executor -> Exec]
  <2> DEFINE new == [ex[e] EXCEPT !.pc = "checkpoint",
                                  !.refs = [@ EXCEPT ![p] = booked[p] + 1],
                                  !.tracked = IF w THEN @ \cup {p} ELSE @,
                                  !.cur = p]
  <2>1. ex[e] \in Exec
    BY DEF TypeOK
  <2>2. [ex[e].refs EXCEPT ![p] = booked[p] + 1] \in Refs
    BY <1>1, <2>1 DEF Exec, Refs
  <2>3. new \in Exec
    BY <1>1, <2>1, <2>2 DEF Exec, ExecPc
  <2>4. ex' = [ex EXCEPT ![e] = new]
    BY <2>1 DEF Book, Exec, TypeOK
  <2> QED
    BY <2>3, <2>4 DEF TypeOK
<1>5. UNCHANGED <<row, fresh, dlq, cf, dispatches, runs, causes>>
  BY DEF Book, storeVars, historyVars
<1> QED
  BY <1>2, <1>3, <1>4, <1>5 DEF TypeOK

LEMMA TypeBookLost ==
  ASSUME TypeOK, NEW e \in Executor, NEW p \in Parcel, BookLost(e, p)
  PROVE  TypeOK'
<1>1. booked' \in Refs
  BY DEF TypeOK, BookLost, Refs
<1>2. ex' \in [Executor -> Exec]
  BY DEF TypeOK, BookLost, Goto, Exec, ExecPc
<1>3. causes' \in SUBSET Cause
  BY DEF TypeOK, BookLost, Cause, DuplicateCause
<1>4. UNCHANGED <<row, fresh, dlq, cf, waybill, dispatches, runs>>
  BY DEF BookLost, storeVars
<1> QED
  BY <1>1, <1>2, <1>3, <1>4 DEF TypeOK

LEMMA TypeRunFails ==
  ASSUME TypeOK, NEW e \in Executor, RunFails(e)
  PROVE  TypeOK'
  BY DEF TypeOK, RunFails, storeVars, courierVars, historyVars, Goto, Exec,
         ExecPc

LEMMA TypeCheckpoint ==
  ASSUME TypeOK, NEW e \in Executor,
         PersistShipment(e) \/ PersistShipmentFault(e)
  PROVE  TypeOK'
<1>1. Checkpointed(e) \in Row
  BY DEF TypeOK, Checkpointed, Row, Exec
<1>2. causes' \in SUBSET Cause
  BY DEF TypeOK, PersistShipment, PersistShipmentFault, historyVars, Cause,
         DuplicateCause
<1>3. ex' \in [Executor -> Exec]
  BY DEF TypeOK, PersistShipment, PersistShipmentFault, Goto, Exec, ExecPc
<1> QED
  BY <1>1, <1>2, <1>3
  DEF TypeOK, PersistShipment, PersistShipmentFault, courierVars,
      historyVars, Write, Unwritten

LEMMA TypeFinishRun ==
  ASSUME TypeOK, NEW e \in Executor,
         (\E seen \in SUBSET Parcel : Resume(e, seen)) \/ AllBooked(e)
  PROVE  TypeOK'
  BY DEF TypeOK, Resume, AllBooked, storeVars, courierVars, historyVars, Exec,
         ExecPc

LEMMA TypePatch ==
  ASSUME TypeOK, NEW e \in Executor, WritePatch(e) \/ WritePatchFault(e)
  PROVE  TypeOK'
<1>1. Patched(e) \in Row
  BY PatchStatusType DEF TypeOK, Patched, Row, Exec, Result, Status
<1>2. causes' \in SUBSET Cause
  BY DEF TypeOK, WritePatch, WritePatchFault, LateFailure, historyVars,
         Cause, DuplicateCause
<1> QED
  BY <1>1, <1>2
  DEF TypeOK, WritePatch, WritePatchFault, courierVars, historyVars, Goto,
      Write, Unwritten, Exec, ExecPc

LEMMA TypeEnd ==
  ASSUME TypeOK, NEW e \in Executor,
         \/ ReadBack(e) \/ ReadBackFault(e) \/ Unqueue(e)
         \/ RecordExecutionFailure(e)
         \/ ReleaseRead(e) \/ ReleaseWrite(e) \/ ReleaseFault(e) \/ Crash(e)
  PROVE  TypeOK'
  BY IdleTypes
  DEF TypeOK, ReadBack, ReadBackFault, Unqueue, RecordExecutionFailure,
      ReleaseRead, ReleaseWrite, ReleaseFault, Crash, LateFailure, storeVars,
      courierVars, historyVars, Goto, Finish, Write, Row, Status, Exec,
      ExecPc, Cause, DuplicateCause

LEMMA TypeConfirm ==
  ASSUME TypeOK, NEW c \in Confirmer, ConfirmerStep(c)
  PROVE  TypeOK'
<1>1. CASE ConfirmRead(c)
  BY <1>1 DEF TypeOK, ConfirmRead, storeVars, courierVars, historyVars, Row,
              Conf
<1>2. CASE ConfirmWrite(c)
  <2>1. row' \in Row
    BY <1>2 DEF TypeOK, ConfirmWrite, Write, Row, Status, Conf, Shown
  <2>2. cf' \in [Confirmer -> Conf]
    BY <1>2, IdleTypes DEF TypeOK, ConfirmWrite
  <2> QED
    BY <1>2, <2>1, <2>2
    DEF TypeOK, ConfirmWrite, Write, courierVars, historyVars
<1>3. CASE ConfirmGivesUp(c)
  BY <1>3, IdleTypes
  DEF TypeOK, ConfirmGivesUp, storeVars, courierVars, historyVars
<1> QED
  BY <1>1, <1>2, <1>3 DEF ConfirmerStep

LEMMA TypeWaybill ==
  ASSUME TypeOK, NEW p \in Parcel, NEW n \in 1..booked[p], IssueWaybill(p, n)
  PROVE  TypeOK'
  BY DEF TypeOK, IssueWaybill, storeVars, historyVars, Refs

\* Every variable keeps its type, for every number of executors, confirmers,
\* parcels and requests (ShippingExecution.tla, TypeOK).
THEOREM TypeCorrect == Spec => []TypeOK
<1>1. TypeOK /\ [Next]_vars => TypeOK'
  <2> SUFFICES ASSUME TypeOK, [Next]_vars PROVE TypeOK'
    OBVIOUS
  <2>1. ASSUME NEW e \in Executor, NEW d \in dlq \cup {0},
               NEW ask \in BOOLEAN, Begin(e, d, ask)
        PROVE  TypeOK'
    BY <2>1, TypeBegin
  <2>2. ASSUME NEW e \in Executor, ExecutorStep(e)
        PROVE  TypeOK'
    BY <2>2, TypeClaim, TypeBook, TypeBookLost, TypeRunFails,
       TypeCheckpoint, TypeFinishRun, TypePatch, TypeEnd DEF ExecutorStep
  <2>3. ASSUME NEW e \in Executor, Crash(e)
        PROVE  TypeOK'
    BY <2>3, TypeEnd
  <2>4. ASSUME NEW c \in Confirmer, ConfirmerStep(c)
        PROVE  TypeOK'
    BY <2>4, TypeConfirm
  <2>5. ASSUME NEW p \in Parcel, NEW n \in 1..booked[p], IssueWaybill(p, n)
        PROVE  TypeOK'
    BY <2>5, TypeWaybill
  <2>6. CASE UNCHANGED vars
    BY <2>6 DEF vars, TypeOK
  <2> QED
    BY <2>1, <2>2, <2>3, <2>4, <2>5, <2>6 DEF Next
<1> QED
  BY <1>1, TypeInit, PTL DEF Spec

-----------------------------------------------------------------------------
(***************************************************************************)
(* Every step of the system is one of these; the proofs below go through   *)
(* them one by one.                                                        *)
(***************************************************************************)
LEMMA CausesGrow == ASSUME [Next]_vars PROVE causes \subseteq causes'
<1>1. ASSUME NEW e \in Executor, ExecutorStep(e)
      PROVE  causes \subseteq causes'
  BY <1>1
  DEF ExecutorStep, TryClaimRead, TryClaimRefused, TryClaimWin, TryClaimLose,
      TryClaimFault, Book, BookLost, RunFails, PersistShipment,
      PersistShipmentFault, Resume, AllBooked, WritePatch, WritePatchFault,
      LateFailure, ReadBack, ReadBackFault, Unqueue, RecordExecutionFailure,
      ReleaseRead, ReleaseWrite, ReleaseFault, historyVars
<1>2. ASSUME NEW c \in Confirmer, ConfirmerStep(c)
      PROVE  causes \subseteq causes'
  BY <1>2 DEF ConfirmerStep, ConfirmRead, ConfirmWrite, ConfirmGivesUp,
              historyVars
<1> QED
  BY <1>1, <1>2 DEF Next, Begin, Crash, IssueWaybill, historyVars, vars

\* a step of e leaves the other executors' state, and what they own, alone
LEMMA OtherOwners ==
  ASSUME NEW x \in Executor, ex'[x] = ex[x]
  PROVE  Owner(x)' <=> Owner(x)
  BY DEF Owner, Result

LEMMA OthersKeep ==
  ASSUME TypeOK, NEW e \in Executor, NEW x \in Executor, x # e,
         \/ \E d \in dlq \cup {0}, ask \in BOOLEAN : Begin(e, d, ask)
         \/ ExecutorStep(e)
         \/ Crash(e)
  PROVE  ex'[x] = ex[x]
  BY DEF TypeOK, Begin, Crash, ExecutorStep, TryClaimRead, TryClaimRefused,
         TryClaimWin, TryClaimLose, TryClaimFault, Book, BookLost, RunFails,
         PersistShipment, PersistShipmentFault, Resume, AllBooked, WritePatch,
         WritePatchFault, ReadBack, ReadBackFault, Unqueue,
         RecordExecutionFailure, ReleaseRead, ReleaseWrite, ReleaseFault,
         Goto, Finish

(***************************************************************************)
(* The two shapes of steps that keep ClaimInv without taking a claim.      *)
(***************************************************************************)
LEMMA ClaimKeptByReading ==
  ASSUME ClaimInv, causes \subseteq causes',
         row' = row, fresh' = fresh,
         "late_failure" \notin causes' =>
            \A x \in Executor : Owner(x)' => Owner(x)
  PROVE  ClaimInv'
  BY DEF ClaimInv, FreshIsClaimable, OwnerIsUnique, OwnerBlocksClaims, Excused

LEMMA ClaimKeptByWriting ==
  ASSUME ClaimInv, causes \subseteq causes', fresh' = {},
         "late_failure" \notin causes' =>
            /\ \A x \in Executor : Owner(x)' => Owner(x)
            /\ \A x \in Executor : Owner(x)' =>
                                   row'.status \in {"executing", "created"}
  PROVE  ClaimInv'
  BY DEF ClaimInv, FreshIsClaimable, OwnerIsUnique, OwnerBlocksClaims, Excused

LEMMA ClaimNotOwned ==
  ASSUME ClaimInv, "late_failure" \notin causes, fresh # {},
         NEW x \in Executor
  PROVE  ~Owner(x)
  BY DEF ClaimInv, FreshIsClaimable, OwnerBlocksClaims, Excused, CanExecute,
         EXECUTABLE_STATES

\* steps of an executor that read, or write nothing but its own state
LEMMA ClaimRead ==
  ASSUME TypeOK, ClaimInv, [Next]_vars, NEW e \in Executor,
         \/ \E d \in dlq \cup {0}, ask \in BOOLEAN : Begin(e, d, ask)
         \/ TryClaimRefused(e) \/ TryClaimLose(e)
         \/ \E p \in Parcel, w \in BOOLEAN : Book(e, p, w)
         \/ \E p \in Parcel : BookLost(e, p)
         \/ RunFails(e)
         \/ \E seen \in SUBSET Parcel : Resume(e, seen)
         \/ AllBooked(e) \/ ReadBack(e) \/ ReadBackFault(e) \/ Unqueue(e)
         \/ RecordExecutionFailure(e) \/ ReleaseRead(e) \/ ReleaseFault(e)
         \/ Crash(e),
         \A x \in Executor \ {e} : ex'[x] = ex[x]
  PROVE  ClaimInv'
<1>1. row' = row /\ fresh' = fresh
  BY DEF Begin, TryClaimRefused, TryClaimLose, Book, BookLost, RunFails,
         Resume, AllBooked, ReadBack, ReadBackFault, Unqueue,
         RecordExecutionFailure, ReleaseRead, ReleaseFault, Crash, storeVars
<1>2. ASSUME "late_failure" \notin causes', Owner(e)'
      PROVE  Owner(e)
  <2>1. CASE ReadBackFault(e)
    <3>1. ~CanExecute(Result(e))
      BY <1>2, <2>1 DEF ReadBackFault, LateFailure
    <3>2. Result(e) = "created"
      BY <3>1, PatchStatusType DEF Result, CanExecute, EXECUTABLE_STATES
    <3> QED
      BY <2>1, <3>2 DEF ReadBackFault, Owner
  <2>2. CASE \/ \E p \in Parcel, w \in BOOLEAN : Book(e, p, w)
             \/ \E p \in Parcel : BookLost(e, p)
             \/ RunFails(e)
             \/ \E seen \in SUBSET Parcel : Resume(e, seen)
             \/ AllBooked(e) \/ RecordExecutionFailure(e)
             \/ ReleaseRead(e) \/ ReleaseFault(e)
    BY <2>2 DEF Book, Booking, BookLost, RunFails, Resume, AllBooked,
                RecordExecutionFailure, ReleaseRead, ReleaseFault, Owner
  <2>3. CASE \/ \E d \in dlq \cup {0}, ask \in BOOLEAN : Begin(e, d, ask)
             \/ TryClaimRefused(e) \/ TryClaimLose(e)
             \/ ReadBack(e) \/ Unqueue(e) \/ Crash(e)
    <3>1. ex'[e].pc \in {"read", "idle", "unqueue"}
      BY <2>3 DEF Begin, TryClaimRefused, TryClaimLose, ReadBack, Unqueue,
                  Crash, Goto, Finish, IdleExec, TypeOK, Exec
    <3> QED
      BY <1>2, <3>1 DEF Owner
  <2> QED
    BY <2>1, <2>2, <2>3
<1> QED
  BY <1>1, <1>2, OtherOwners, CausesGrow, ClaimKeptByReading

\* steps by which the owner writes the row
LEMMA ClaimWrite ==
  ASSUME TypeOK, ClaimInv, [Next]_vars, NEW e \in Executor,
         \/ PersistShipment(e) \/ PersistShipmentFault(e)
         \/ WritePatch(e) \/ WritePatchFault(e) \/ ReleaseWrite(e),
         \A x \in Executor \ {e} : ex'[x] = ex[x]
  PROVE  ClaimInv'
<1>1. Owner(e)
  BY DEF PersistShipment, PersistShipmentFault, WritePatch, WritePatchFault,
         ReleaseWrite, Owner
<1>2. Result(e)' = Result(e) \/ ReleaseWrite(e)
  BY DEF PersistShipment, PersistShipmentFault, WritePatch, WritePatchFault,
         Goto, Result, TypeOK, Exec
<1>3. Owner(e)' => ~ReleaseWrite(e)
  BY DEF ReleaseWrite, Finish, IdleExec, Owner, TypeOK
<1>4. CASE row' = row /\ fresh' = fresh
  BY <1>1, <1>4, OtherOwners, CausesGrow, ClaimKeptByReading
<1>5. CASE fresh' = {}
  <2>1. ASSUME "late_failure" \notin causes'
        PROVE  /\ row.status \in {"executing", "created"}
               /\ \A x \in Executor : Owner(x) => x = e
    BY <1>1, <2>1, CausesGrow
    DEF ClaimInv, OwnerIsUnique, OwnerBlocksClaims, Excused
  <2>2. ASSUME "late_failure" \notin causes', Owner(e)'
        PROVE  row'.status \in {"executing", "created"}
    <3>1. CASE PersistShipment(e) \/ PersistShipmentFault(e)
      BY <2>1, <2>2, <3>1
      DEF PersistShipment, PersistShipmentFault, Write, Unwritten,
          Checkpointed, TypeOK, Row
    <3>2. CASE WritePatch(e)
      <4>1. Result(e) = "created"
        BY <1>2, <1>3, <2>2, <3>2
        DEF WritePatch, Goto, Owner, TypeOK, Exec
      <4> QED
        BY <3>2, <4>1 DEF WritePatch, Write, Patched
    <3>3. CASE WritePatchFault(e)
      <4>1. CASE row' = row
        BY <2>1, <2>2, <4>1
      <4>2. CASE Write(Patched(e)) /\ LateFailure(e)
        <5>1. Result(e) = "created"
          BY <2>2, <4>2, PatchStatusType
          DEF LateFailure, Result, CanExecute, EXECUTABLE_STATES
        <5> QED
          BY <4>2, <5>1 DEF Write, Patched
      <4> QED
        BY <3>3, <4>1, <4>2 DEF WritePatchFault, Unwritten
    <3> QED
      BY <1>3, <2>2, <3>1, <3>2, <3>3
  <2> QED
    BY <1>1, <1>5, <2>1, <2>2, OtherOwners, CausesGrow, ClaimKeptByWriting
<1> QED
  BY <1>4, <1>5
  DEF PersistShipment, PersistShipmentFault, WritePatch, WritePatchFault,
      ReleaseWrite, Write, Unwritten

\* reading the row and claiming it
LEMMA ClaimTaken ==
  ASSUME TypeOK, ClaimInv, [Next]_vars, NEW e \in Executor,
         TryClaimRead(e) \/ TryClaimWin(e) \/ TryClaimFault(e),
         \A x \in Executor \ {e} : ex'[x] = ex[x]
  PROVE  ClaimInv'
<1>1. CASE TryClaimRead(e)
  <2>1. ~Owner(e)'
    BY <1>1 DEF TryClaimRead, Goto, Owner, TypeOK, Exec
  <2>2. row' = row /\ CanExecute(row.status)
    BY <1>1 DEF TryClaimRead
  <2> QED
    BY <2>1, <2>2, OtherOwners, CausesGrow
    DEF ClaimInv, FreshIsClaimable, OwnerIsUnique, OwnerBlocksClaims, Excused
<1>2. CASE TryClaimWin(e)
  <2>1. row'.status = "executing" /\ fresh' = {}
    BY <1>2 DEF TryClaimWin, Write, TypeOK, Row
  <2>2. fresh # {}
    BY <1>2 DEF TryClaimWin, ETagMatches
  <2> QED
    BY <2>1, <2>2, ClaimNotOwned, OtherOwners, CausesGrow
    DEF ClaimInv, FreshIsClaimable, OwnerIsUnique, OwnerBlocksClaims, Excused
<1>3. CASE TryClaimFault(e)
  <2>1. ~Owner(e)'
    BY <1>3 DEF TryClaimFault, Finish, IdleExec, Owner, TypeOK
  <2>2. CASE row' = row /\ fresh' = fresh
    BY <2>1, <2>2, OtherOwners, CausesGrow, ClaimKeptByReading
  <2>3. CASE fresh' = {} /\ fresh # {}
    BY <2>1, <2>3, ClaimNotOwned, OtherOwners, CausesGrow
    DEF ClaimInv, FreshIsClaimable, OwnerIsUnique, OwnerBlocksClaims, Excused
  <2> QED
    BY <1>3, <2>2, <2>3 DEF TryClaimFault, ETagMatches, Write, Unwritten
<1> QED
  BY <1>1, <1>2, <1>3

\* steps of the confirmers and of the courier
LEMMA ClaimElsewhere ==
  ASSUME TypeOK, ClaimInv, [Next]_vars, ex' = ex,
         \/ row' = row /\ fresh' = fresh
         \/ row'.status = "created" /\ fresh' = {}
  PROVE  ClaimInv'
  BY OtherOwners, CausesGrow, ClaimKeptByReading, ClaimKeptByWriting

(***************************************************************************)
(* The claim protocol of execute_draft (workflow.py:187, :144): until a    *)
(* run fails after it reopened the draft, one executor at most answers for *)
(* the draft and nobody can claim it meanwhile.                            *)
(***************************************************************************)
THEOREM ClaimInvariant == Spec => []ClaimInv
<1>1. Init => ClaimInv
  BY DEF Init, IdleExec, ClaimInv, FreshIsClaimable, OwnerIsUnique,
         OwnerBlocksClaims, Owner
<1>2. TypeOK /\ ClaimInv /\ [Next]_vars => ClaimInv'
  <2> SUFFICES ASSUME TypeOK, ClaimInv, [Next]_vars PROVE ClaimInv'
    OBVIOUS
  <2>1. ASSUME NEW e \in Executor,
               \/ \E d \in dlq \cup {0}, ask \in BOOLEAN : Begin(e, d, ask)
               \/ ExecutorStep(e)
               \/ Crash(e)
        PROVE  ClaimInv'
    <3>1. \A x \in Executor \ {e} : ex'[x] = ex[x]
      BY <2>1, OthersKeep
    <3> QED
      BY <2>1, <3>1, ClaimRead, ClaimWrite, ClaimTaken DEF ExecutorStep
  <2>2. ASSUME NEW c \in Confirmer, ConfirmerStep(c)
        PROVE  ClaimInv'
    BY <2>2, ClaimElsewhere
    DEF ConfirmerStep, ConfirmRead, ConfirmWrite, ConfirmGivesUp, Write,
        storeVars
  <2>3. ASSUME NEW p \in Parcel, NEW n \in 1..booked[p], IssueWaybill(p, n)
        PROVE  ClaimInv'
    BY <2>3, ClaimElsewhere DEF IssueWaybill, storeVars
  <2>4. CASE UNCHANGED vars
    BY <2>4, ClaimElsewhere DEF vars
  <2> QED
    BY <2>1, <2>2, <2>3, <2>4 DEF Next
<1> QED
  BY <1>1, <1>2, TypeCorrect, PTL DEF Spec

(***************************************************************************)
(* Two execute requests never buy labels for the draft at the same time    *)
(* (shipping_state.py:16), unless a run failed after reopening it.         *)
(***************************************************************************)
THEOREM ClaimExclusiveHolds == Spec => []ClaimExclusive
<1>1. ClaimInv => ClaimExclusive
  BY DEF ClaimInv, OwnerIsUnique, ClaimExclusive, Holding, Owner
<1> QED
  BY <1>1, ClaimInvariant, PTL

-----------------------------------------------------------------------------
(***************************************************************************)
(* Tracking numbers.  Whatever is written or copied, a parcel is tracked   *)
(* only with a label the courier confirmed.                                *)
(***************************************************************************)
LEMMA TrackedKept ==
  ASSUME TrackedIsConfirmed, waybill \subseteq waybill',
         \A p \in Parcel : <<p, 0>> \notin waybill',
         \/ row'.refs = row.refs /\ row'.tracked = row.tracked
         \/ \E e \in Executor :
               row'.refs = ex[e].refs /\ row'.tracked = ex[e].tracked
         \/ \E c \in Confirmer :
               /\ row'.refs = cf[c].refs
               /\ row'.tracked = cf[c].tracked \cup Shown(cf[c].refs),
         \A e \in Executor :
            \/ ex'[e].tracked = {}
            \/ ex'[e].refs = ex[e].refs /\ ex'[e].tracked = ex[e].tracked
            \/ ex'[e].refs = row.refs /\ ex'[e].tracked = row.tracked
            \/ /\ ex'[e].refs = ex[e].refs
               /\ ex'[e].tracked \subseteq ex[e].tracked \cup Shown(ex[e].refs)
            \/ \E p \in Parcel :
                  /\ \A q \in ex[e].tracked :
                        q # p /\ ex'[e].refs[q] = ex[e].refs[q]
                  /\ \/ ex'[e].tracked = ex[e].tracked
                     \/ /\ ex'[e].tracked = ex[e].tracked \cup {p}
                        /\ ex'[e].refs[p] # 0
                        /\ <<p, ex'[e].refs[p]>> \in waybill',
         \A c \in Confirmer :
            \/ cf'[c].tracked = {}
            \/ cf'[c].refs = cf[c].refs /\ cf'[c].tracked = cf[c].tracked
            \/ cf'[c].refs = row.refs /\ cf'[c].tracked = row.tracked
  PROVE  TrackedIsConfirmed'
<1>1. \A r : \A p \in Shown(r) : p \in Parcel /\ r[p] # 0 /\ <<p, r[p]>> \in waybill
  BY DEF Shown, TrackedIsConfirmed
<1>2. Confirmed(row.refs, row.tracked)'
  BY <1>1 DEF TrackedIsConfirmed, Confirmed
<1>3. ASSUME NEW e \in Executor
      PROVE  Confirmed(ex[e].refs, ex[e].tracked)'
  <2>1. \A q \in ex[e].tracked :
           ex[e].refs[q] # 0 /\ <<q, ex[e].refs[q]>> \in waybill'
    BY DEF TrackedIsConfirmed, Confirmed
  <2>2. CASE \/ ex'[e].tracked = {}
             \/ ex'[e].refs = ex[e].refs /\ ex'[e].tracked = ex[e].tracked
    BY <2>1, <2>2 DEF Confirmed
  <2>3. CASE ex'[e].refs = row.refs /\ ex'[e].tracked = row.tracked
    BY <2>3 DEF TrackedIsConfirmed, Confirmed
  <2>4. CASE /\ ex'[e].refs = ex[e].refs
             /\ ex'[e].tracked \subseteq ex[e].tracked \cup Shown(ex[e].refs)
    BY <1>1, <2>1, <2>4 DEF Confirmed
  <2>5. ASSUME NEW p \in Parcel,
               \A q \in ex[e].tracked :
                  q # p /\ ex'[e].refs[q] = ex[e].refs[q],
               \/ ex'[e].tracked = ex[e].tracked
               \/ /\ ex'[e].tracked = ex[e].tracked \cup {p}
                  /\ ex'[e].refs[p] # 0
                  /\ <<p, ex'[e].refs[p]>> \in waybill'
        PROVE  Confirmed(ex[e].refs, ex[e].tracked)'
    <3>1. ASSUME NEW q \in ex'[e].tracked
          PROVE  ex'[e].refs[q] # 0 /\ <<q, ex'[e].refs[q]>> \in waybill'
      BY <2>1, <2>5
    <3> QED
      BY <3>1 DEF Confirmed
  <2> QED
    BY <2>2, <2>3, <2>4, <2>5
<1>4. ASSUME NEW c \in Confirmer
      PROVE  Confirmed(cf[c].refs, cf[c].tracked)'
  BY DEF TrackedIsConfirmed, Confirmed
<1> QED
  BY <1>2, <1>3, <1>4 DEF TrackedIsConfirmed

LEMMA TrackedByExecutor ==
  ASSUME TypeOK, TrackedIsConfirmed, NEW e \in Executor,
         \/ \E d \in dlq \cup {0}, ask \in BOOLEAN : Begin(e, d, ask)
         \/ ExecutorStep(e)
         \/ Crash(e)
  PROVE  TrackedIsConfirmed'
<1> DEFINE Booked == \E p \in Parcel, w \in BOOLEAN : Book(e, p, w)
<1>1. \A x \in Executor \ {e} : ex'[x] = ex[x]
  BY OthersKeep
<1>2. cf' = cf
  BY DEF Begin, Crash, ExecutorStep, TryClaimRead, TryClaimRefused,
         TryClaimWin, TryClaimLose, TryClaimFault, Book, BookLost, RunFails,
         PersistShipment, PersistShipmentFault, Resume, AllBooked, WritePatch,
         WritePatchFault, ReadBack, ReadBackFault, Unqueue,
         RecordExecutionFailure, ReleaseRead, ReleaseWrite, ReleaseFault
<1>3. \/ row'.refs = row.refs /\ row'.tracked = row.tracked
      \/ row'.refs = ex[e].refs /\ row'.tracked = ex[e].tracked
  <2> DEFINE Claims == TryClaimWin(e) \/ TryClaimFault(e)
             Writes == \/ PersistShipment(e) \/ PersistShipmentFault(e)
                       \/ WritePatch(e) \/ WritePatchFault(e)
  <2>1. CASE Claims \/ ReleaseWrite(e)
    <3>1. \/ row' = row
          \/ row' = [row EXCEPT !.status = "executing"]
          \/ row' = [row EXCEPT !.status = "error"]
      BY <2>1 DEF TryClaimWin, TryClaimFault, ReleaseWrite, Write, Unwritten
    <3> QED
      BY <3>1 DEF TypeOK, Row
  <2>2. CASE Writes
    <3>1. row' = row \/ row' = Checkpointed(e) \/ row' = Patched(e)
      BY <2>2 DEF PersistShipment, PersistShipmentFault, WritePatch,
                  WritePatchFault, Write, Unwritten
    <3>2. /\ Checkpointed(e).refs = ex[e].refs
          /\ Checkpointed(e).tracked = ex[e].tracked
      BY DEF Checkpointed, TypeOK, Row
    <3>3. Patched(e).refs = ex[e].refs /\ Patched(e).tracked = ex[e].tracked
      BY DEF Patched
    <3> QED
      BY <3>1, <3>2, <3>3
  <2>3. CASE ~(Claims \/ Writes \/ ReleaseWrite(e))
    BY <2>3
    DEF Begin, Crash, ExecutorStep, TryClaimRead, TryClaimRefused,
        TryClaimLose, Book, BookLost, RunFails, Resume, AllBooked, ReadBack,
        ReadBackFault, Unqueue, RecordExecutionFailure, ReleaseRead,
        ReleaseFault, storeVars
  <2> QED
    BY <2>1, <2>2, <2>3
<1>4. CASE Booked
  <2> PICK p \in Parcel, w \in BOOLEAN : Book(e, p, w)
    BY <1>4
  <2>1. /\ ex'[e].refs = [ex[e].refs EXCEPT ![p] = booked[p] + 1]
        /\ ex'[e].tracked = IF w THEN ex[e].tracked \cup {p}
                            ELSE ex[e].tracked
    BY DEF Book, TypeOK, Exec
  <2>2. ex[e].refs[p] = 0 /\ booked[p] \in Nat /\ ex[e].refs \in Refs
    BY DEF Book, IsNext, Todo, TypeOK, Exec, Refs
  <2>3. \A q \in ex[e].tracked : q # p
    BY <2>2 DEF TrackedIsConfirmed, Confirmed
  <2>4. \A q \in ex[e].tracked : q # p /\ ex'[e].refs[q] = ex[e].refs[q]
    BY <2>1, <2>2, <2>3 DEF Refs
  <2>5. ex'[e].refs[p] = booked[p] + 1
    BY <2>1, <2>2 DEF Refs
  <2>6. waybill' = IF w THEN waybill \cup {<<p, booked[p] + 1>>} ELSE waybill
    BY DEF Book
  <2>7. \A q \in Parcel : <<q, 0>> \notin waybill'
    <3>1. booked[p] + 1 # 0
      BY <2>2
    <3>2. ASSUME NEW q \in Parcel
          PROVE  <<q, 0>> # <<p, booked[p] + 1>>
      BY <3>1
    <3> QED
      BY <2>6, <3>2 DEF TrackedIsConfirmed
  <2>8. \/ ex'[e].tracked = ex[e].tracked
        \/ /\ ex'[e].tracked = ex[e].tracked \cup {p}
           /\ ex'[e].refs[p] # 0
           /\ <<p, ex'[e].refs[p]>> \in waybill'
    BY <2>1, <2>2, <2>5, <2>6
  <2> QED
    BY <1>1, <1>2, <1>3, <2>4, <2>6, <2>7, <2>8, TrackedKept
<1>5. CASE ~Booked
  <2>1. waybill' = waybill
    BY <1>5
    DEF Begin, Crash, ExecutorStep, TryClaimRead, TryClaimRefused,
        TryClaimWin, TryClaimLose, TryClaimFault, BookLost, RunFails,
        PersistShipment, PersistShipmentFault, Resume, AllBooked, WritePatch,
        WritePatchFault, ReadBack, ReadBackFault, Unqueue,
        RecordExecutionFailure, ReleaseRead, ReleaseWrite, ReleaseFault,
        courierVars
  <2>2. \/ ex'[e].tracked = {}
        \/ ex'[e].refs = ex[e].refs /\ ex'[e].tracked = ex[e].tracked
        \/ ex'[e].refs = row.refs /\ ex'[e].tracked = row.tracked
        \/ /\ ex'[e].refs = ex[e].refs
           /\ ex'[e].tracked \subseteq ex[e].tracked \cup Shown(ex[e].refs)
    BY <1>5
    DEF Begin, Crash, ExecutorStep, TryClaimRead, TryClaimRefused,
        TryClaimWin, TryClaimLose, TryClaimFault, BookLost, RunFails,
        PersistShipment, PersistShipmentFault, Resume, AllBooked, WritePatch,
        WritePatchFault, ReadBack, ReadBackFault, Unqueue,
        RecordExecutionFailure, ReleaseRead, ReleaseWrite, ReleaseFault,
        Goto, Finish, IdleExec, TypeOK, Exec
  <2> QED
    BY <1>1, <1>2, <1>3, <2>1, <2>2, TrackedKept DEF TrackedIsConfirmed
<1> QED
  BY <1>4, <1>5

LEMMA TrackedElsewhere ==
  ASSUME TypeOK, TrackedIsConfirmed,
         \/ \E c \in Confirmer : ConfirmerStep(c)
         \/ \E p \in Parcel : \E n \in 1..booked[p] : IssueWaybill(p, n)
         \/ UNCHANGED vars
  PROVE  TrackedIsConfirmed'
<1>1. CASE \E p \in Parcel : \E n \in 1..booked[p] : IssueWaybill(p, n)
  <2> PICK p \in Parcel : \E n \in 1..booked[p] : IssueWaybill(p, n)
    BY <1>1
  <2> PICK n \in 1..booked[p] : IssueWaybill(p, n)
    OBVIOUS
  <2>1. n # 0 /\ waybill' = waybill \cup {<<p, n>>}
    BY DEF IssueWaybill, TypeOK, Refs
  <2>2. \A q \in Parcel : <<q, 0>> \notin waybill'
    BY <2>1 DEF TrackedIsConfirmed
  <2>3. UNCHANGED <<row, ex, cf>>
    BY DEF IssueWaybill, storeVars
  <2> QED
    BY <2>1, <2>2, <2>3, TrackedKept
<1>2. ASSUME NEW c \in Confirmer, ConfirmWrite(c)
      PROVE  TrackedIsConfirmed'
  <2>1. /\ row'.refs = cf[c].refs
        /\ row'.tracked = cf[c].tracked \cup Shown(cf[c].refs)
    BY <1>2 DEF ConfirmWrite, Write
  <2>2. ex' = ex /\ waybill' = waybill
    BY <1>2 DEF ConfirmWrite, courierVars
  <2>3. \A x \in Confirmer : cf'[x].tracked = {} \/ cf'[x] = cf[x]
    BY <1>2 DEF ConfirmWrite, IdleConf, TypeOK
  <2> QED
    BY <2>1, <2>2, <2>3, TrackedKept DEF TrackedIsConfirmed
<1>3. ASSUME NEW c \in Confirmer, ConfirmRead(c) \/ ConfirmGivesUp(c)
      PROVE  TrackedIsConfirmed'
  <2>1. UNCHANGED <<row, ex, waybill>>
    BY <1>3 DEF ConfirmRead, ConfirmGivesUp, storeVars, courierVars
  <2>2. \A x \in Confirmer :
           \/ cf'[x].tracked = {}
           \/ cf'[x] = cf[x]
           \/ cf'[x].refs = row.refs /\ cf'[x].tracked = row.tracked
    BY <1>3 DEF ConfirmRead, ConfirmGivesUp, IdleConf, TypeOK
  <2> QED
    BY <2>1, <2>2, TrackedKept DEF TrackedIsConfirmed
<1>4. CASE UNCHANGED vars
  BY <1>4, TrackedKept DEF vars, TrackedIsConfirmed
<1> QED
  BY <1>1, <1>2, <1>3, <1>4 DEF ConfirmerStep

-----------------------------------------------------------------------------
(***************************************************************************)
(* Labels.  Unexcused is the situation of the lemmas below: no duplicate   *)
(* has been excused, neither before the step nor in it.                    *)
(***************************************************************************)
Unexcused == ~Excused(DuplicateCause)

Good == TypeOK /\ ClaimInv /\ LabelsOnRecord /\ Unexcused

LEMMA NotLate == ASSUME Unexcused PROVE ~Excused({"late_failure"})
  BY DEF Unexcused, Excused, DuplicateCause

\* the owner is alone, and but for the checkpoint everything is on record
LEMMA OwnerFacts ==
  ASSUME Good, NEW e \in Executor, Owner(e)
  PROVE  /\ row.status \in {"executing", "created"}
         /\ \A x \in Executor : Owner(x) => x = e
         /\ ex[e].pc # "checkpoint" => booked = row.refs
  BY NotLate
  DEF Good, ClaimInv, OwnerIsUnique, OwnerBlocksClaims, LabelsOnRecord,
      OffRecordIsClaimed

LEMMA FullIsOnRecord ==
  ASSUME TypeOK, BoughtOnce, Full(row.refs)
  PROVE  booked = row.refs
<1>1. \A p \in Parcel : booked[p] = row.refs[p]
  BY DEF BoughtOnce, Full
<1> QED
  BY <1>1 DEF TypeOK, Row, Refs

\* steps that change nothing but the state of an executor that does not write
LEMMA LabelsLocal ==
  ASSUME Good, NEW e \in Executor, UNCHANGED <<row, booked, cf>>,
         \A x \in Executor \ {e} : ex'[x] = ex[x],
         ex'[e].pc \notin {"run", "checkpoint", "patch"},
         ex'[e].pc # "idle" /\ ex'[e].resume => Full(ex'[e].refs),
         Owner(e)' => booked = row.refs
  PROVE  LabelsOnRecord'
<1>1. (BoughtOnce /\ InPlanOrder /\ ConfirmerIsUpToDate /\ StatusIsEarned)'
  BY DEF Good, LabelsOnRecord, BoughtOnce, InPlanOrder, ConfirmerIsUpToDate,
         StatusIsEarned, Full
<1>2. OwnerIsUpToDate'
  BY DEF Good, LabelsOnRecord, OwnerIsUpToDate, Full
<1>3. OffRecordIsClaimed'
  BY OtherOwners DEF Good, LabelsOnRecord, OffRecordIsClaimed
<1> QED
  BY <1>1, <1>2, <1>3 DEF LabelsOnRecord

LEMMA LabelsReading ==
  ASSUME Good, Unexcused', NEW e \in Executor,
         \/ \E d \in dlq \cup {0}, ask \in BOOLEAN : Begin(e, d, ask)
         \/ TryClaimRead(e) \/ TryClaimRefused(e) \/ TryClaimLose(e)
         \/ RunFails(e) \/ ReadBack(e) \/ ReadBackFault(e) \/ Unqueue(e)
         \/ RecordExecutionFailure(e) \/ ReleaseRead(e) \/ ReleaseFault(e)
         \/ Crash(e),
         \A x \in Executor \ {e} : ex'[x] = ex[x]
  PROVE  LabelsOnRecord'
<1>1. UNCHANGED <<row, booked, cf>>
  BY DEF Begin, TryClaimRead, TryClaimRefused, TryClaimLose, RunFails,
         ReadBack, ReadBackFault, Unqueue, RecordExecutionFailure,
         ReleaseRead, ReleaseFault, Crash, storeVars, courierVars
<1>2. ex'[e].pc \in {"idle", "read", "claim", "unqueue", "failed", "release",
                     "releaseWrite"}
  BY DEF Good, Begin, TryClaimRead, TryClaimRefused, TryClaimLose, RunFails,
         ReadBack, ReadBackFault, Unqueue, RecordExecutionFailure,
         ReleaseRead, ReleaseFault, Crash, Goto, Finish, IdleExec, TypeOK,
         Exec
<1>3. ASSUME ex'[e].pc # "idle" /\ ex'[e].resume
      PROVE  Full(ex'[e].refs)
  <2>1. CASE \E d \in dlq \cup {0}, ask \in BOOLEAN : Begin(e, d, ask)
    <3>1. ex'[e].resume = IsResumable(row) /\ ex'[e].refs = row.refs
      BY <2>1 DEF Begin, Good, TypeOK
    <3>2. row.status = "pending_confirmation"
      BY <1>3, <3>1 DEF IsResumable
    <3> QED
      BY <3>1, <3>2 DEF Good, LabelsOnRecord, StatusIsEarned
  <2>2. CASE ~\E d \in dlq \cup {0}, ask \in BOOLEAN : Begin(e, d, ask)
    <3>1. ex[e].pc # "idle"
      BY <2>2 DEF TryClaimRead, TryClaimRefused, TryClaimLose, RunFails,
                  ReadBack, ReadBackFault, Unqueue, RecordExecutionFailure,
                  ReleaseRead, ReleaseFault, Crash
    <3>2. Finish(e) \/ \E pc \in ExecPc : Goto(e, pc)
      BY <2>2 DEF TryClaimRead, TryClaimRefused, TryClaimLose, RunFails,
                  ReadBack, ReadBackFault, Unqueue, RecordExecutionFailure,
                  ReleaseRead, ReleaseFault, Crash, ExecPc
    <3>3. ~Finish(e)
      BY <1>3 DEF Finish, IdleExec, Good, TypeOK
    <3>4. ex'[e].resume = ex[e].resume /\ ex'[e].refs = ex[e].refs
      BY <3>2, <3>3 DEF Goto, Good, TypeOK, Exec
    <3> QED
      BY <1>3, <3>1, <3>4 DEF Good, LabelsOnRecord, OwnerIsUpToDate
  <2> QED
    BY <2>1, <2>2
<1>4. ASSUME Owner(e)'
      PROVE  booked = row.refs
  <2>1. CASE ReadBackFault(e)
    <3>1. ~CanExecute(Result(e))
      BY <2>1 DEF ReadBackFault, LateFailure, Unexcused, Excused,
                  DuplicateCause
    <3>2. Result(e) = "created"
      BY <3>1, PatchStatusType DEF Result, CanExecute, EXECUTABLE_STATES
    <3>3. Owner(e) /\ ex[e].pc # "checkpoint"
      BY <2>1, <3>2 DEF ReadBackFault, Owner
    <3> QED
      BY <3>3, OwnerFacts
  <2>2. CASE RunFails(e) \/ RecordExecutionFailure(e) \/ ReleaseRead(e)
             \/ ReleaseFault(e)
    <3>1. Owner(e) /\ ex[e].pc # "checkpoint"
      BY <2>2 DEF RunFails, RecordExecutionFailure, ReleaseRead,
                  ReleaseFault, Owner
    <3> QED
      BY <3>1, OwnerFacts
  <2>3. CASE \/ \E d \in dlq \cup {0}, ask \in BOOLEAN : Begin(e, d, ask)
             \/ TryClaimRead(e) \/ TryClaimRefused(e) \/ TryClaimLose(e)
             \/ ReadBack(e) \/ Unqueue(e) \/ Crash(e)
    <3>1. ex'[e].pc \in {"read", "claim", "idle", "unqueue"}
      BY <2>3 DEF Good, Begin, TryClaimRead, TryClaimRefused, TryClaimLose,
                  ReadBack, Unqueue, Crash, Goto, Finish, IdleExec, TypeOK,
                  Exec
    <3> QED
      BY <1>4, <3>1 DEF Owner
  <2> QED
    BY <2>1, <2>2, <2>3
<1> QED
  BY <1>1, <1>2, <1>3, <1>4, LabelsLocal

LEMMA LabelsClaim ==
  ASSUME Good, Unexcused', NEW e \in Executor,
         TryClaimWin(e) \/ TryClaimFault(e),
         \A x \in Executor \ {e} : ex'[x] = ex[x]
  PROVE  LabelsOnRecord'
<1>1. UNCHANGED <<booked, cf>>
  BY DEF TryClaimWin, TryClaimFault, courierVars
<1>2. CASE row' = row
  <2>2. TryClaimFault(e)
    <3>1. TryClaimWin(e) => CanExecute(row.status)
      BY DEF TryClaimWin, ETagMatches, Good, ClaimInv, FreshIsClaimable
    <3>2. TryClaimWin(e) => row'.status = "executing"
      BY DEF TryClaimWin, Write, Good, TypeOK, Row
    <3> QED
      BY <1>2, <3>1, <3>2 DEF CanExecute, EXECUTABLE_STATES
  <2>3. ex'[e].pc = "idle"
    BY <2>2 DEF TryClaimFault, Finish, IdleExec, Good, TypeOK
  <2> QED
    BY <1>1, <1>2, <2>3, LabelsLocal DEF Owner
<1>3. CASE fresh # {} /\ row' = [row EXCEPT !.status = "executing"]
  <2>1. booked = row.refs
    BY <1>3 DEF Good, ClaimInv, FreshIsClaimable, LabelsOnRecord,
                OffRecordIsClaimed, CanExecute, EXECUTABLE_STATES
  <2>2. row'.refs = row.refs /\ row'.status = "executing"
    BY <1>3 DEF Good, TypeOK, Row
  <2>3. \/ ex'[e].pc = "idle"
        \/ /\ ex'[e].pc = "run"
           /\ ex[e].pc = "claim"
           /\ ex'[e].refs = row.refs
           /\ ex'[e].refs = ex[e].refs
           /\ ex'[e].resume = ex[e].resume
    <3>1. CASE TryClaimFault(e)
      BY <3>1 DEF TryClaimFault, Finish, IdleExec, Good, TypeOK
    <3>2. CASE TryClaimWin(e)
      <4>1. ex[e].refs = row.refs
        BY <3>2 DEF TryClaimWin, Unexcused, Excused, DuplicateCause
      <4> QED
        BY <3>2, <4>1 DEF TryClaimWin, Goto, Good, TypeOK, Exec
    <3> QED
      BY <3>1, <3>2
  <2>4. (BoughtOnce /\ InPlanOrder /\ ConfirmerIsUpToDate /\ StatusIsEarned)'
    BY <1>1, <2>2 DEF Good, LabelsOnRecord, BoughtOnce, InPlanOrder,
                      ConfirmerIsUpToDate, StatusIsEarned, Full
  <2>5. OwnerIsUpToDate'
    <3>1. ASSUME NEW x \in Executor, x # e
          PROVE  /\ ex'[x].pc \in {"run", "patch"} => ex'[x].refs = row'.refs
                 /\ ex'[x].pc = "checkpoint" =>
                       /\ ex'[x].cur \in Parcel
                       /\ row'.refs[ex'[x].cur] = 0
                       /\ ex'[x].refs = [row'.refs EXCEPT ![ex'[x].cur] = 1]
                       /\ booked' = ex'[x].refs
                 /\ ex'[x].pc = "patch" => Full(ex'[x].refs)
                 /\ ex'[x].pc # "idle" /\ ex'[x].resume => Full(ex'[x].refs)
      BY <1>1, <2>2, <3>1 DEF Good, LabelsOnRecord, OwnerIsUpToDate
    <3>2. ex'[e].pc # "idle" /\ ex'[e].resume => Full(ex'[e].refs)
      BY <2>3 DEF Good, LabelsOnRecord, OwnerIsUpToDate
    <3>3. ex'[e].pc \in {"run", "patch"} => ex'[e].refs = row'.refs
      BY <2>2, <2>3
    <3>4. ex'[e].pc # "checkpoint" /\ ex'[e].pc # "patch"
      BY <2>3
    <3> QED
      BY <3>1, <3>2, <3>3, <3>4 DEF OwnerIsUpToDate, Full
  <2>6. OffRecordIsClaimed'
    BY <1>1, <2>1, <2>2 DEF OffRecordIsClaimed
  <2> QED
    BY <2>4, <2>5, <2>6 DEF LabelsOnRecord
<1> QED
  BY <1>2, <1>3
  DEF TryClaimWin, TryClaimFault, ETagMatches, Write, Unwritten

LEMMA LabelsBook ==
  ASSUME Good, NEW e \in Executor, NEW p \in Parcel, NEW w \in BOOLEAN,
         Book(e, p, w),
         \A x \in Executor \ {e} : ex'[x] = ex[x]
  PROVE  LabelsOnRecord'
<1>1. /\ ex[e].pc = "run" /\ ~ex[e].resume /\ ex[e].refs[p] = 0
      /\ \A q \in Parcel : q < p => ex[e].refs[q] # 0
  BY DEF Book, Booking, IsNext, Todo, Parcel
<1>2. Owner(e)
  BY <1>1 DEF Owner
<1>3. booked = row.refs /\ ex[e].refs = row.refs
  BY <1>1, <1>2, OwnerFacts DEF Good, LabelsOnRecord, OwnerIsUpToDate
<1>4. booked[p] = 0 /\ booked' = [booked EXCEPT ![p] = 1]
  BY <1>1, <1>3 DEF Book
<1>5. /\ ex'[e].pc = "checkpoint" /\ ex'[e].cur = p /\ ~ex'[e].resume
      /\ ex'[e].refs = [row.refs EXCEPT ![p] = 1]
  BY <1>1, <1>3, <1>4 DEF Book, Good, TypeOK, Exec
<1>6. UNCHANGED <<row, cf>>
  BY DEF Book, storeVars
<1>7. row.status = "executing"
  <2>1. ~Full(row.refs)
    BY <1>1, <1>3 DEF Full
  <2> QED
    BY <1>2, <2>1, OwnerFacts DEF Good, LabelsOnRecord, StatusIsEarned
<1>8. BoughtOnce'
  <2>1. \A q \in Parcel : booked[q] \in {0, 1} /\ row.refs[q] \in {0, booked[q]}
    BY DEF Good, LabelsOnRecord, BoughtOnce
  <2> QED
    BY <1>3, <1>4, <1>6, <2>1 DEF BoughtOnce, Good, TypeOK, Refs
<1>9. InPlanOrder'
  <2>1. \A q \in Parcel : q < p => booked[q] = 1
    BY <1>1, <1>3 DEF Good, LabelsOnRecord, BoughtOnce
  <2> QED
    BY <1>4, <2>1
    DEF Good, LabelsOnRecord, InPlanOrder, BoughtOnce, TypeOK, Refs
<1>10. \A x \in Executor : x # e => ~Owner(x) /\ ~Owner(x)'
  BY <1>2, OwnerFacts, OtherOwners
<1>11. OwnerIsUpToDate'
  <2>1. ASSUME NEW x \in Executor, x # e
        PROVE  /\ ex'[x].pc \notin {"run", "patch", "checkpoint"}
               /\ ex'[x].pc # "idle" /\ ex'[x].resume => Full(ex'[x].refs)
    BY <1>10, <2>1 DEF Owner, Good, LabelsOnRecord, OwnerIsUpToDate
  <2> QED
    BY <1>1, <1>3, <1>4, <1>5, <1>6, <2>1 DEF OwnerIsUpToDate, Full
<1>12. OffRecordIsClaimed'
  BY <1>5, <1>6, <1>7, <1>10 DEF OffRecordIsClaimed
<1>13. (ConfirmerIsUpToDate /\ StatusIsEarned)'
  BY <1>6 DEF Good, LabelsOnRecord, ConfirmerIsUpToDate, StatusIsEarned, Full
<1> QED
  BY <1>8, <1>9, <1>11, <1>12, <1>13 DEF LabelsOnRecord

\* who else could be writing: nobody while e owns the draft
LEMMA OthersIdle ==
  ASSUME Good, NEW e \in Executor, Owner(e),
         NEW x \in Executor, x # e, ex'[x] = ex[x]
  PROVE  /\ ~Owner(x) /\ ~Owner(x)'
         /\ ex'[x].pc \notin {"run", "patch", "checkpoint"}
         /\ ex'[x].pc # "idle" /\ ex'[x].resume => Full(ex'[x].refs)
<1>1. ~Owner(x)
  BY OwnerFacts
<1>2. ~Owner(x)'
  BY <1>1, OtherOwners
<1>3. ex[x].pc \notin {"run", "patch", "checkpoint"}
  BY <1>1 DEF Owner
<1>4. ex[x].pc # "idle" /\ ex[x].resume => Full(ex[x].refs)
  BY DEF Good, LabelsOnRecord, OwnerIsUpToDate
<1> QED
  BY <1>1, <1>2, <1>3, <1>4

LEMMA LabelsCheckpoint ==
  ASSUME Good, Unexcused', NEW e \in Executor,
         PersistShipment(e) \/ PersistShipmentFault(e),
         \A x \in Executor \ {e} : ex'[x] = ex[x]
  PROVE  LabelsOnRecord'
<1>1. ex[e].pc = "checkpoint" /\ Owner(e)
  BY DEF PersistShipment, PersistShipmentFault, Owner
<1>2. /\ row' = Checkpointed(e)
      /\ ex'[e].pc \in {"run", "failed"}
      /\ ex'[e].refs = ex[e].refs /\ ex'[e].resume = ex[e].resume
      /\ UNCHANGED <<booked, cf>>
  <2>1. CASE PersistShipment(e)
    BY <2>1 DEF PersistShipment, Write, Goto, courierVars, Good, TypeOK, Exec
  <2>2. CASE PersistShipmentFault(e)
    <3>1. row' = Checkpointed(e)
      BY <2>2 DEF PersistShipmentFault, Write, Unexcused, Excused,
                  DuplicateCause
    <3> QED
      BY <2>2, <3>1
      DEF PersistShipmentFault, Goto, courierVars, Good, TypeOK, Exec
  <2> QED
    BY <2>1, <2>2
<1>3. row'.refs = ex[e].refs /\ row'.status = row.status
  BY <1>2 DEF Checkpointed, Good, TypeOK, Row
<1>4. /\ ex[e].cur \in Parcel /\ row.refs[ex[e].cur] = 0
      /\ booked = ex[e].refs
  BY <1>1 DEF Good, LabelsOnRecord, OwnerIsUpToDate
<1>5. ~Full(row.refs)
  BY <1>4 DEF Full
<1>6. row.status = "executing"
  BY <1>1, <1>5, OwnerFacts DEF Good, LabelsOnRecord, StatusIsEarned
<1>7. (BoughtOnce /\ InPlanOrder)'
  <2>1. booked' = booked /\ row'.refs = booked
    BY <1>2, <1>3, <1>4
  <2> QED
    BY <2>1 DEF Good, LabelsOnRecord, BoughtOnce, InPlanOrder
<1>8. OwnerIsUpToDate'
  <2>1. \A x \in Executor \ {e} :
           /\ ex'[x].pc \notin {"run", "patch", "checkpoint"}
           /\ ex'[x].pc # "idle" /\ ex'[x].resume => Full(ex'[x].refs)
    BY <1>1, OthersIdle
  <2>2. ex'[e].resume => Full(ex'[e].refs)
    BY <1>1, <1>2 DEF Good, LabelsOnRecord, OwnerIsUpToDate
  <2>3. ex'[e].pc \notin {"patch", "checkpoint"} /\ ex'[e].refs = row'.refs
    BY <1>2, <1>3
  <2> QED
    BY <2>1, <2>2, <2>3 DEF OwnerIsUpToDate, Full
<1>9. OffRecordIsClaimed'
  BY <1>2, <1>3, <1>4 DEF OffRecordIsClaimed
<1>10. ConfirmerIsUpToDate'
  BY <1>2, <1>5 DEF Good, LabelsOnRecord, ConfirmerIsUpToDate, Full
<1>11. StatusIsEarned'
  BY <1>3, <1>6 DEF StatusIsEarned
<1> QED
  BY <1>7, <1>8, <1>9, <1>10, <1>11 DEF LabelsOnRecord

LEMMA LabelsComplete ==
  ASSUME Good, NEW e \in Executor,
         (\E seen \in SUBSET Parcel : Resume(e, seen)) \/ AllBooked(e),
         \A x \in Executor \ {e} : ex'[x] = ex[x]
  PROVE  LabelsOnRecord'
<1>1. ex[e].pc = "run" /\ Owner(e)
  BY DEF Resume, AllBooked, Booking, Owner
<1>2. /\ ex'[e].pc = "patch"
      /\ ex'[e].refs = ex[e].refs /\ ex'[e].resume = ex[e].resume
      /\ UNCHANGED <<row, booked, cf>>
  BY DEF Resume, AllBooked, storeVars, courierVars, Good, TypeOK, Exec
<1>3. booked = row.refs /\ ex[e].refs = row.refs
  BY <1>1, OwnerFacts DEF Good, LabelsOnRecord, OwnerIsUpToDate
<1>4. Full(ex[e].refs)
  <2>1. CASE AllBooked(e)
    BY <2>1 DEF AllBooked, Todo, Full
  <2>2. CASE \E seen \in SUBSET Parcel : Resume(e, seen)
    BY <1>1, <2>2 DEF Resume, Good, LabelsOnRecord, OwnerIsUpToDate
  <2> QED
    BY <2>1, <2>2
<1>5. (BoughtOnce /\ InPlanOrder /\ ConfirmerIsUpToDate /\ StatusIsEarned)'
  BY <1>2 DEF Good, LabelsOnRecord, BoughtOnce, InPlanOrder,
              ConfirmerIsUpToDate, StatusIsEarned, Full
<1>6. OwnerIsUpToDate'
  <2>1. \A x \in Executor \ {e} :
           /\ ex'[x].pc \notin {"run", "patch", "checkpoint"}
           /\ ex'[x].pc # "idle" /\ ex'[x].resume => Full(ex'[x].refs)
    BY <1>1, OthersIdle
  <2>2. Full(ex'[e].refs) /\ ex'[e].refs = row'.refs /\ ex'[e].pc = "patch"
    BY <1>2, <1>3, <1>4
  <2> QED
    BY <2>1, <2>2 DEF OwnerIsUpToDate, Full
<1>7. OffRecordIsClaimed'
  BY <1>2, <1>3 DEF OffRecordIsClaimed
<1> QED
  BY <1>5, <1>6, <1>7 DEF LabelsOnRecord

\* a full list whose status is created has every parcel tracked
LEMMA CreatedIsTracked ==
  ASSUME NEW refs, NEW tracked \in SUBSET Parcel, Full(refs),
         PatchStatus(refs, tracked) = "created"
  PROVE  tracked = Parcel
  BY DEF PatchStatus, AllTracked, Full

LEMMA LabelsPatch ==
  ASSUME Good, NEW e \in Executor, WritePatch(e) \/ WritePatchFault(e),
         \A x \in Executor \ {e} : ex'[x] = ex[x]
  PROVE  LabelsOnRecord'
<1>1. ex[e].pc = "patch" /\ Owner(e)
  BY DEF WritePatch, WritePatchFault, Owner
<1>2. /\ ex'[e].pc \in {"done", "failed"}
      /\ ex'[e].refs = ex[e].refs /\ ex'[e].resume = ex[e].resume
      /\ UNCHANGED <<booked, cf>>
  BY DEF WritePatch, WritePatchFault, Goto, courierVars, Good, TypeOK, Exec
<1>3. booked = row.refs /\ ex[e].refs = row.refs /\ Full(ex[e].refs)
  BY <1>1, OwnerFacts DEF Good, LabelsOnRecord, OwnerIsUpToDate
<1>4. row' = row \/ row' = Patched(e)
  BY DEF WritePatch, WritePatchFault, Write, Unwritten
<1>5. row'.refs = row.refs
  BY <1>3, <1>4 DEF Patched
<1>6. StatusIsEarned'
  <2>1. CASE row' = row
    BY <2>1 DEF Good, LabelsOnRecord, StatusIsEarned, Full
  <2>2. CASE row' = Patched(e)
    <3>1. ex[e].tracked \in SUBSET Parcel
      BY DEF Good, TypeOK, Exec
    <3>2. Result(e) = "created" => ex[e].tracked = Parcel
      BY <1>3, <3>1, CreatedIsTracked DEF Result
    <3> QED
      BY <1>3, <2>2, <3>2 DEF Patched, StatusIsEarned, Full
  <2> QED
    BY <1>4, <2>1, <2>2
<1>7. (BoughtOnce /\ InPlanOrder /\ ConfirmerIsUpToDate)'
  BY <1>2, <1>5 DEF Good, LabelsOnRecord, BoughtOnce, InPlanOrder,
                    ConfirmerIsUpToDate, Full
<1>8. OwnerIsUpToDate'
  <2>1. \A x \in Executor \ {e} :
           /\ ex'[x].pc \notin {"run", "patch", "checkpoint"}
           /\ ex'[x].pc # "idle" /\ ex'[x].resume => Full(ex'[x].refs)
    BY <1>1, OthersIdle
  <2>2. Full(ex'[e].refs) /\ ex'[e].pc \notin {"run", "patch", "checkpoint"}
    BY <1>2, <1>3
  <2> QED
    BY <2>1, <2>2 DEF OwnerIsUpToDate, Full
<1>9. OffRecordIsClaimed'
  BY <1>2, <1>3, <1>5 DEF OffRecordIsClaimed
<1> QED
  BY <1>6, <1>7, <1>8, <1>9 DEF LabelsOnRecord

LEMMA LabelsRelease ==
  ASSUME Good, NEW e \in Executor, ReleaseWrite(e),
         \A x \in Executor \ {e} : ex'[x] = ex[x]
  PROVE  LabelsOnRecord'
<1>1. Owner(e) /\ ex[e].pc = "releaseWrite"
  BY DEF ReleaseWrite, Owner
<1>2. /\ row'.refs = row.refs /\ row'.status = "error"
      /\ UNCHANGED <<booked, cf>>
      /\ ex'[e].pc = "idle"
  BY DEF ReleaseWrite, Write, Finish, IdleExec, courierVars, Good, TypeOK,
         Row
<1>3. booked = row.refs
  BY <1>1, OwnerFacts
<1>4. (BoughtOnce /\ InPlanOrder /\ ConfirmerIsUpToDate /\ StatusIsEarned)'
  BY <1>2 DEF Good, LabelsOnRecord, BoughtOnce, InPlanOrder,
              ConfirmerIsUpToDate, StatusIsEarned, Full
<1>5. OwnerIsUpToDate'
  <2>1. \A x \in Executor \ {e} :
           /\ ex'[x].pc \notin {"run", "patch", "checkpoint"}
           /\ ex'[x].pc # "idle" /\ ex'[x].resume => Full(ex'[x].refs)
    BY <1>1, OthersIdle
  <2> QED
    BY <1>2, <2>1 DEF OwnerIsUpToDate, Full
<1>6. OffRecordIsClaimed'
  BY <1>2, <1>3 DEF OffRecordIsClaimed
<1> QED
  BY <1>4, <1>5, <1>6 DEF LabelsOnRecord

LEMMA LabelsConfirm ==
  ASSUME Good, NEW c \in Confirmer, ConfirmerStep(c)
  PROVE  LabelsOnRecord'
<1>1. UNCHANGED <<ex, booked>>
  BY DEF ConfirmerStep, ConfirmRead, ConfirmWrite, ConfirmGivesUp,
         courierVars
<1>2. \A e \in Executor : Owner(e)' <=> Owner(e)
  BY <1>1, OtherOwners
<1>3. CASE ConfirmRead(c) \/ ConfirmGivesUp(c)
  <2>1. row' = row
    BY <1>3 DEF ConfirmRead, ConfirmGivesUp, storeVars
  <2>2. ASSUME NEW x \in Confirmer, cf'[x].pc = "polling"
        PROVE  Full(cf'[x].refs) /\ cf'[x].refs = row.refs
    <3>1. CASE x = c
      BY <1>3, <2>2, <3>1
      DEF ConfirmRead, ConfirmGivesUp, IdleConf, IsResumable, Good, TypeOK,
          LabelsOnRecord, StatusIsEarned
    <3>2. CASE x # c
      BY <1>3, <2>2, <3>2
      DEF ConfirmRead, ConfirmGivesUp, Good, TypeOK, LabelsOnRecord,
          ConfirmerIsUpToDate
    <3> QED
      BY <3>1, <3>2
  <2>3. ConfirmerIsUpToDate'
    BY <2>1, <2>2 DEF ConfirmerIsUpToDate, Full
  <2> QED
    BY <1>1, <1>2, <2>1, <2>3
    DEF Good, LabelsOnRecord, BoughtOnce, InPlanOrder, OwnerIsUpToDate,
        OffRecordIsClaimed, StatusIsEarned, Full
<1>4. CASE ConfirmWrite(c)
  <2>1. Full(row.refs) /\ cf[c].refs = row.refs
    BY <1>4 DEF ConfirmWrite, Good, LabelsOnRecord, ConfirmerIsUpToDate
  <2>2. booked = row.refs
    BY <2>1, FullIsOnRecord DEF Good, LabelsOnRecord
  <2>3. /\ row'.refs = row.refs
        /\ row'.tracked = cf[c].tracked \cup Shown(cf[c].refs)
    BY <1>4, <2>1 DEF ConfirmWrite, Write
  <2>4. row'.tracked = Parcel
    <3>1. cf[c].tracked \cup Shown(cf[c].refs) \in SUBSET Parcel
      BY DEF Good, TypeOK, Conf, Shown
    <3> QED
      BY <1>4, <2>1, <2>3, <3>1, CreatedIsTracked
      DEF ConfirmWrite, Confirmable
  <2>5. \A x \in Confirmer : cf'[x].pc = "polling" => cf'[x] = cf[x]
    BY <1>4 DEF ConfirmWrite, IdleConf, Good, TypeOK
  <2>6. (BoughtOnce /\ InPlanOrder /\ OwnerIsUpToDate /\ StatusIsEarned)'
    BY <1>1, <2>1, <2>3, <2>4
    DEF Good, LabelsOnRecord, BoughtOnce, InPlanOrder, OwnerIsUpToDate,
        StatusIsEarned, Full
  <2>7. ConfirmerIsUpToDate'
    BY <2>3, <2>5 DEF Good, LabelsOnRecord, ConfirmerIsUpToDate, Full
  <2>8. OffRecordIsClaimed'
    BY <1>1, <2>2, <2>3 DEF OffRecordIsClaimed
  <2> QED
    BY <2>6, <2>7, <2>8 DEF LabelsOnRecord
<1> QED
  BY <1>3, <1>4 DEF ConfirmerStep

LEMMA LabelsElsewhere ==
  ASSUME Good, UNCHANGED <<row, ex, cf, booked>>
  PROVE  LabelsOnRecord'
  BY OtherOwners
  DEF Good, LabelsOnRecord, BoughtOnce, InPlanOrder, OwnerIsUpToDate,
      OffRecordIsClaimed, ConfirmerIsUpToDate, StatusIsEarned, Full

LEMMA LabelsStep ==
  ASSUME Good, Unexcused', [Next]_vars
  PROVE  LabelsOnRecord'
<1>1. ASSUME NEW e \in Executor,
             \/ \E d \in dlq \cup {0}, ask \in BOOLEAN : Begin(e, d, ask)
             \/ ExecutorStep(e)
             \/ Crash(e)
      PROVE  LabelsOnRecord'
  <2>1. \A x \in Executor \ {e} : ex'[x] = ex[x]
    BY <1>1, OthersKeep DEF Good
  <2>2. \A p \in Parcel : ~BookLost(e, p)
    BY DEF BookLost, Unexcused, Excused, DuplicateCause
  <2> QED
    BY <1>1, <2>1, <2>2, LabelsReading, LabelsClaim, LabelsBook,
       LabelsCheckpoint, LabelsComplete, LabelsPatch, LabelsRelease
    DEF ExecutorStep
<1>2. ASSUME NEW c \in Confirmer, ConfirmerStep(c)
      PROVE  LabelsOnRecord'
  BY <1>2, LabelsConfirm
<1>3. ASSUME NEW p \in Parcel, NEW n \in 1..booked[p], IssueWaybill(p, n)
      PROVE  LabelsOnRecord'
  BY <1>3, LabelsElsewhere DEF IssueWaybill, storeVars
<1>4. CASE UNCHANGED vars
  BY <1>4, LabelsElsewhere DEF vars
<1> QED
  BY <1>1, <1>2, <1>3, <1>4 DEF Next

(***************************************************************************)
(* The labels bought for a draft are bought once, in plan order, and are   *)
(* accounted for on the row or by the claim's owner (workflow.py:204),     *)
(* until one of the four causes of a duplicate occurs; a tracking number   *)
(* is never recorded without the courier having issued it.                 *)
(***************************************************************************)
THEOREM LabelInvariant == Spec => []LabelInv
<1>1. Init => LabelInv
  BY DEF Init, InitRow, NoRefs, IdleExec, IdleConf, LabelInv, LabelsOnRecord,
         TrackedIsConfirmed, Confirmed, BoughtOnce, InPlanOrder,
         OwnerIsUpToDate, OffRecordIsClaimed, ConfirmerIsUpToDate,
         StatusIsEarned, Owner, Full
<1>2. TypeOK /\ ClaimInv /\ LabelInv /\ [Next]_vars => LabelInv'
  <2> SUFFICES ASSUME TypeOK, ClaimInv, LabelInv, [Next]_vars
               PROVE  LabelInv'
    OBVIOUS
  <2>1. TrackedIsConfirmed'
    BY TrackedByExecutor, TrackedElsewhere DEF LabelInv, Next
  <2>2. CASE Excused(DuplicateCause)'
    BY <2>1, <2>2 DEF LabelInv
  <2>3. CASE Unexcused'
    <3>1. Good
      BY <2>3, CausesGrow DEF Good, LabelInv, Unexcused, Excused
    <3> QED
      BY <2>1, <2>3, <3>1, LabelsStep DEF LabelInv
  <2> QED
    BY <2>2, <2>3 DEF Unexcused
<1> QED
  BY <1>1, <1>2, TypeCorrect, ClaimInvariant, PTL DEF Spec

-----------------------------------------------------------------------------
(***************************************************************************)
(* What follows from the invariants.                                       *)
(***************************************************************************)

(***************************************************************************)
(* No parcel is paid for twice unless an answer of the courier was lost, a *)
(* checkpoint failed, a claim was won on an outdated snapshot, or a run    *)
(* failed after reopening the draft.                                       *)
(***************************************************************************)
THEOREM NoDuplicate == Spec => []NoDuplicateWithoutCause
<1>1. LabelInv => NoDuplicateWithoutCause
  BY DEF LabelInv, LabelsOnRecord, BoughtOnce, NoDuplicateWithoutCause
<1> QED
  BY <1>1, LabelInvariant, PTL

(***************************************************************************)
(* What was paid for is on the draft unless the draft is still claimed.    *)
(***************************************************************************)
THEOREM PaidIsRecordedHolds == Spec => []PaidIsRecorded
<1>1. LabelInv => PaidIsRecorded
  BY DEF LabelInv, LabelsOnRecord, OffRecordIsClaimed, PaidIsRecorded
<1> QED
  BY <1>1, LabelInvariant, PTL

(***************************************************************************)
(* A created draft has a label and a confirmed tracking number for every   *)
(* parcel of its plan.                                                     *)
(***************************************************************************)
THEOREM CreatedIsCompleteHolds == Spec => []CreatedIsComplete
<1>1. LabelInv => CreatedIsComplete
  BY DEF LabelInv, LabelsOnRecord, StatusIsEarned, TrackedIsConfirmed,
         Confirmed, CreatedIsComplete
<1> QED
  BY <1>1, LabelInvariant, PTL

\* the three things a step can do to labels
LEMMA LabelStep ==
  ASSUME Good, Unexcused', [Next]_vars
  PROVE  \/ booked' = booked /\ row'.refs = row.refs
         \/ booked' = booked /\ row'.refs = booked
         \/ \E p \in Parcel :
               /\ booked = row.refs /\ booked[p] = 0
               /\ \A q \in 1..(p - 1) : booked[q] = 1
               /\ booked' = [booked EXCEPT ![p] = 1]
               /\ row'.refs = row.refs
<1>1. ASSUME NEW e \in Executor, NEW p \in Parcel, NEW w \in BOOLEAN,
             Book(e, p, w)
      PROVE  /\ booked = row.refs /\ booked[p] = 0
             /\ \A q \in 1..(p - 1) : booked[q] = 1
             /\ booked' = [booked EXCEPT ![p] = 1]
             /\ row'.refs = row.refs
  <2>1. /\ ex[e].pc = "run" /\ ex[e].refs[p] = 0
        /\ \A q \in Parcel : q < p => ex[e].refs[q] # 0
    BY <1>1 DEF Book, Booking, IsNext, Todo, Parcel
  <2>2. booked = row.refs /\ ex[e].refs = row.refs
    BY <2>1, OwnerFacts DEF Owner, Good, LabelsOnRecord, OwnerIsUpToDate
  <2>3. ASSUME NEW q \in 1..(p - 1)
        PROVE  booked[q] = 1
    <3>1. q \in Parcel /\ q < p
      BY DEF Parcel
    <3> QED
      BY <2>1, <2>2, <3>1 DEF Good, LabelsOnRecord, BoughtOnce
  <2> QED
    BY <1>1, <2>1, <2>2, <2>3 DEF Book, storeVars
<1>2. ASSUME NEW e \in Executor,
             PersistShipment(e) \/ PersistShipmentFault(e)
      PROVE  booked' = booked /\ row'.refs \in {row.refs, booked}
  <2>1. booked = ex[e].refs
    BY <1>2 DEF PersistShipment, PersistShipmentFault, Good, LabelsOnRecord,
                OwnerIsUpToDate
  <2>2. Checkpointed(e).refs = ex[e].refs
    BY DEF Checkpointed, Good, TypeOK, Row
  <2> QED
    BY <1>2, <2>1, <2>2 DEF PersistShipment, PersistShipmentFault, Write,
                            Unwritten, courierVars
<1>3. ASSUME NEW e \in Executor, WritePatch(e) \/ WritePatchFault(e)
      PROVE  booked' = booked /\ row'.refs = row.refs
  <2>1. ex[e].refs = row.refs
    BY <1>3 DEF WritePatch, WritePatchFault, Good, LabelsOnRecord,
                OwnerIsUpToDate
  <2> QED
    BY <1>3, <2>1 DEF WritePatch, WritePatchFault, Patched, Write, Unwritten,
                      courierVars
<1>4. ASSUME NEW e \in Executor,
             TryClaimWin(e) \/ TryClaimFault(e) \/ ReleaseWrite(e)
      PROVE  booked' = booked /\ row'.refs = row.refs
  BY <1>4 DEF TryClaimWin, TryClaimFault, ReleaseWrite, Write, Unwritten,
              courierVars, Good, TypeOK, Row
<1>5. ASSUME NEW e \in Executor,
             \/ \E d \in dlq \cup {0}, ask \in BOOLEAN : Begin(e, d, ask)
             \/ TryClaimRead(e) \/ TryClaimRefused(e) \/ TryClaimLose(e)
             \/ RunFails(e)
             \/ \E seen \in SUBSET Parcel : Resume(e, seen)
             \/ AllBooked(e) \/ ReadBack(e) \/ ReadBackFault(e)
             \/ Unqueue(e) \/ RecordExecutionFailure(e)
             \/ ReleaseRead(e) \/ ReleaseFault(e) \/ Crash(e)
      PROVE  booked' = booked /\ row'.refs = row.refs
  BY <1>5 DEF Begin, TryClaimRead, TryClaimRefused, TryClaimLose, RunFails,
              Resume, AllBooked, ReadBack, ReadBackFault, Unqueue,
              RecordExecutionFailure, ReleaseRead, ReleaseFault, Crash,
              storeVars, courierVars
<1>6. \A e \in Executor, p \in Parcel : ~BookLost(e, p)
  BY DEF BookLost, Unexcused, Excused, DuplicateCause
<1>7. ASSUME NEW c \in Confirmer, ConfirmerStep(c)
      PROVE  booked' = booked /\ row'.refs = row.refs
  BY <1>7 DEF ConfirmerStep, ConfirmRead, ConfirmWrite, ConfirmGivesUp,
              Write, storeVars, courierVars, Good, LabelsOnRecord,
              ConfirmerIsUpToDate
<1>8. ASSUME NEW p \in Parcel, NEW n \in 1..booked[p], IssueWaybill(p, n)
      PROVE  booked' = booked /\ row'.refs = row.refs
  BY <1>8 DEF IssueWaybill, storeVars
<1>9. CASE UNCHANGED vars
  BY <1>9 DEF vars
<1>10. CASE \E e \in Executor, p \in Parcel, w \in BOOLEAN : Book(e, p, w)
  BY <1>1, <1>10
<1>11. CASE ~\E e \in Executor, p \in Parcel, w \in BOOLEAN : Book(e, p, w)
  BY <1>2, <1>3, <1>4, <1>5, <1>6, <1>7, <1>8, <1>9, <1>11
  DEF Next, ExecutorStep
<1> QED
  BY <1>10, <1>11

LEMMA Unexcusable ==
  ASSUME TypeOK, ClaimInv, LabelInv, [Next]_vars, ~Excused(DuplicateCause)'
  PROVE  Good /\ Unexcused'
  BY CausesGrow DEF Good, LabelInv, Unexcused, Excused

(***************************************************************************)
(* No step forgets or replaces a label recorded on the draft, until a      *)
(* duplicate is excused.                                                   *)
(***************************************************************************)
THEOREM LabelsAreKeptHolds == Spec => LabelsAreKept
<1> DEFINE Kept == \/ Excused(DuplicateCause)'
                   \/ \A p \in Parcel :
                         row.refs[p] # 0 => row'.refs[p] = row.refs[p]
<1>1. TypeOK /\ ClaimInv /\ LabelInv /\ [Next]_vars => [Kept]_vars
  <2> SUFFICES ASSUME TypeOK, ClaimInv, LabelInv, [Next]_vars,
                      ~Excused(DuplicateCause)', NEW p \in Parcel,
                      row.refs[p] # 0
               PROVE  row'.refs[p] = row.refs[p]
    OBVIOUS
  <2>1. Good /\ Unexcused'
    BY Unexcusable
  <2>2. booked[p] = row.refs[p]
    BY <2>1 DEF Good, LabelsOnRecord, BoughtOnce
  <2> QED
    BY <2>1, <2>2, LabelStep
<1> QED
  BY <1>1, TypeCorrect, ClaimInvariant, LabelInvariant, PTL
  DEF Spec, LabelsAreKept

(***************************************************************************)
(* Executing a draft implements the ledger: labels are bought one at a     *)
(* time, in plan order, none while another is off the record.              *)
(***************************************************************************)
THEOREM LedgerImplemented == Spec => ImplementsLedger
<1>1. Init => Ledger!Init
  BY DEF Init, InitRow, NoRefs, Ledger!Init, Ledger!Parcel, Parcel, Excused
<1>2. TypeOK /\ TypeOK' /\ ClaimInv /\ LabelInv /\ [Next]_vars
         => [Ledger!Next]_Ledger!ledger
  <2> SUFFICES ASSUME TypeOK, TypeOK', ClaimInv, LabelInv, [Next]_vars
               PROVE  Ledger!Next \/ UNCHANGED Ledger!ledger
    OBVIOUS
  <2>1. CASE Excused(DuplicateCause)'
    BY <2>1 DEF Ledger!Next, Ledger!Excuse, Ledger!Labels, Ledger!Parcel,
                Parcel, Refs, Row, TypeOK, Excused
  <2>2. CASE ~Excused(DuplicateCause)'
    <3>1. Good /\ Unexcused'
      BY <2>2, Unexcusable
    <3>2. UNCHANGED Excused(DuplicateCause)
      BY <3>1 DEF Good, Unexcused, Excused
    <3> QED
      BY <3>1, <3>2, LabelStep
      DEF Ledger!Next, Ledger!Buy, Ledger!Record, Ledger!ledger,
          Ledger!Parcel, Parcel
  <2> QED
    BY <2>1, <2>2
<1> QED
  BY <1>1, <1>2, TypeCorrect, ClaimInvariant, LabelInvariant, PTL
  DEF Spec, ImplementsLedger, Ledger!Spec

-----------------------------------------------------------------------------
(***************************************************************************)
(* Every step is that of an executor that leaves the others alone, of a    *)
(* confirmer, or of the courier.                                           *)
(***************************************************************************)
LEMMA StepCases ==
  ASSUME TypeOK, [Next]_vars
  PROVE  \/ \E e \in Executor :
              /\ \A x \in Executor \ {e} : ex'[x] = ex[x]
              /\ \/ \E d \in dlq \cup {0}, ask \in BOOLEAN : Begin(e, d, ask)
                 \/ ExecutorStep(e)
                 \/ Crash(e)
         \/ /\ \E c \in Confirmer : ConfirmerStep(c)
            /\ UNCHANGED <<ex, dispatches, dlq, causes>>
         \/ UNCHANGED <<row, ex, cf, dispatches, dlq, causes>>
<1>1. ASSUME NEW e \in Executor,
             \/ \E d \in dlq \cup {0}, ask \in BOOLEAN : Begin(e, d, ask)
             \/ ExecutorStep(e)
             \/ Crash(e)
      PROVE  \A x \in Executor \ {e} : ex'[x] = ex[x]
  BY <1>1, OthersKeep
<1>2. ASSUME NEW c \in Confirmer, ConfirmerStep(c)
      PROVE  UNCHANGED <<ex, dispatches, dlq, causes>>
  BY <1>2 DEF ConfirmerStep, ConfirmRead, ConfirmWrite, ConfirmGivesUp,
              storeVars, courierVars, historyVars
<1>3. ASSUME NEW p \in Parcel, NEW n \in 1..booked[p], IssueWaybill(p, n)
      PROVE  UNCHANGED <<row, ex, cf, dispatches, dlq, causes>>
  BY <1>3 DEF IssueWaybill, storeVars, historyVars
<1> QED
  BY <1>1, <1>2, <1>3 DEF Next, vars

-----------------------------------------------------------------------------
LEMMA DispatchedElsewhere ==
  ASSUME NEW x \in Executor, ex'[x] = ex[x], Dispatched(x),
         row' = row \/ row'.status = "created"
  PROVE  Dispatched(x)'
  BY DEF Dispatched, Result

\* a pickup is ordered by the owner only, when none was ordered before
LEMMA DispatchOrdered ==
  ASSUME TypeOK, ClaimInv, DispatchInv, ~Excused(DispatchCause),
         ~Excused({"late_failure"}), NEW e \in Executor, AllBooked(e),
         \A x \in Executor \ {e} : ex'[x] = ex[x]
  PROVE  DispatchInv'
<1>1. Owner(e) /\ ~Dispatched(e)
  BY DEF AllBooked, Booking, Owner, Dispatched
<1>2. dispatches = 0
  BY <1>1 DEF DispatchInv
<1>3. /\ row.status \in {"executing", "created"}
      /\ \A x \in Executor : Owner(x) => x = e
  BY <1>1 DEF ClaimInv, OwnerIsUnique, OwnerBlocksClaims
<1>4. CASE dispatches' = 0
  BY <1>4 DEF DispatchInv
<1>5. CASE dispatches' = 1
  <2>1. PickupDue(e)
    BY <1>2, <1>5 DEF AllBooked
  <2>2. ex'[e].pc = "patch" /\ Result(e)' = Result(e)
    BY DEF AllBooked, Result, TypeOK, Exec
  <2>3. Dispatched(e)'
    BY <2>1, <2>2 DEF PickupDue, Dispatched
  <2>4. row' = row
    BY DEF AllBooked, storeVars
  <2> QED
    BY <1>3, <1>5, <2>3, <2>4, OtherOwners DEF DispatchInv
<1> QED
  BY <1>2, <1>4, <1>5 DEF AllBooked

\* after it, the owner's steps lead to the end of its run
LEMMA DispatchKept ==
  ASSUME TypeOK, ClaimInv, DispatchInv, dispatches = 1,
         ~Excused(DispatchCause), ~Excused(DispatchCause)',
         NEW e \in Executor,
         \/ \E d \in dlq \cup {0}, ask \in BOOLEAN : Begin(e, d, ask)
         \/ ExecutorStep(e)
         \/ Crash(e),
         \A x \in Executor \ {e} : ex'[x] = ex[x]
  PROVE  DispatchInv'
<1>1. /\ row.status \in {"executing", "created"}
      /\ \A x \in Executor : Owner(x) => Dispatched(x)
  BY DEF DispatchInv
<1>2. fresh = {}
  BY <1>1 DEF ClaimInv, FreshIsClaimable, CanExecute, EXECUTABLE_STATES
<1>3. ~ \/ TryClaimRead(e) \/ TryClaimWin(e)
        \/ \E p \in Parcel, w \in BOOLEAN : Book(e, p, w)
        \/ \E p \in Parcel : BookLost(e, p)
        \/ RunFails(e) \/ PersistShipment(e) \/ PersistShipmentFault(e)
        \/ \E seen \in SUBSET Parcel : Resume(e, seen)
        \/ AllBooked(e) \/ ReleaseWrite(e)
  BY <1>1, <1>2
  DEF TryClaimRead, CanExecute, EXECUTABLE_STATES, TryClaimWin, ETagMatches,
      Book, BookLost, Booking, RunFails, PersistShipment, PersistShipmentFault,
      Resume, AllBooked, ReleaseWrite, Owner, Dispatched
<1>4. SUFFICES /\ dispatches' = 1
               /\ row' = row \/ row'.status = "created"
               /\ Owner(e)' => Dispatched(e)'
  BY <1>1, OtherOwners, DispatchedElsewhere DEF DispatchInv
<1>5. CASE \/ \E d \in dlq \cup {0}, ask \in BOOLEAN : Begin(e, d, ask)
           \/ TryClaimRefused(e) \/ TryClaimLose(e) \/ TryClaimFault(e)
           \/ ReadBack(e) \/ Unqueue(e) \/ ReleaseFault(e) \/ Crash(e)
  <2>1. ex'[e].pc \in {"read", "idle", "unqueue"}
    BY <1>5 DEF Begin, TryClaimRefused, TryClaimLose, TryClaimFault, ReadBack,
                Unqueue, ReleaseFault, Crash, Goto, Finish, IdleExec, TypeOK, Exec
  <2>2. ~Owner(e)'
    BY <2>1 DEF Owner
  <2>3. dispatches' = 1 /\ row' = row
    BY <1>2, <1>5
    DEF Begin, TryClaimRefused, TryClaimLose, TryClaimFault, ReadBack, Unqueue,
        ReleaseFault, Crash, storeVars, courierVars, ETagMatches, Unwritten
  <2> QED  BY <2>2, <2>3
<1>6. CASE WritePatch(e) \/ WritePatchFault(e)
  <2>1. Result(e) = "created"
    BY <1>1, <1>6 DEF WritePatch, WritePatchFault, Owner, Dispatched
  <2>3. row' = Patched(e)
    BY <1>6 DEF WritePatch, WritePatchFault, Write, Excused, DispatchCause
  <2>4. row'.status = "created"
    BY <2>1, <2>3 DEF Patched
  <2>5. ex'[e].pc \in {"done", "failed"}
    BY <1>6 DEF WritePatch, WritePatchFault, Goto, TypeOK, Exec
  <2> QED
    BY <1>6, <2>4, <2>5 DEF WritePatch, WritePatchFault, courierVars, Dispatched
<1>7. CASE ReadBackFault(e) \/ RecordExecutionFailure(e) \/ ReleaseRead(e)
  <2>1. Owner(e)
    <3>1. CASE ReadBackFault(e)
      <4>1. ~CanExecute(Result(e))
        BY <3>1 DEF ReadBackFault, LateFailure, Excused, DispatchCause,
                    DuplicateCause
      <4>2. Result(e) = "created"
        BY <4>1, PatchStatusType DEF Result, CanExecute, EXECUTABLE_STATES
      <4> QED  BY <3>1, <4>2 DEF ReadBackFault, Owner
    <3> QED  BY <1>7, <3>1 DEF RecordExecutionFailure, ReleaseRead, Owner
  <2>2. row.status = "created"
    BY <1>1, <1>7, <2>1
    DEF Dispatched, ReadBackFault, RecordExecutionFailure, ReleaseRead
  <2>3. ex'[e].pc \in {"failed", "release", "idle"}
    BY <1>7, <2>2 DEF ReadBackFault, RecordExecutionFailure, ReleaseRead,
       StillClaimed, Goto, Finish, IdleExec, TypeOK, Exec
  <2>4. row' = row /\ dispatches' = 1
    BY <1>7 DEF ReadBackFault, RecordExecutionFailure, ReleaseRead, storeVars,
                courierVars
  <2> QED
    BY <2>2, <2>3, <2>4 DEF Owner, Dispatched
<1> QED
  BY <1>3, <1>5, <1>6, <1>7 DEF ExecutorStep

LEMMA DispatchUntouched ==
  ASSUME NEW e \in Executor,
         \/ \E d \in dlq \cup {0}, ask \in BOOLEAN : Begin(e, d, ask)
         \/ ExecutorStep(e)
         \/ Crash(e),
         ~AllBooked(e)
  PROVE  dispatches' = dispatches
  BY DEF Begin, Crash, ExecutorStep, TryClaimRead, TryClaimRefused,
         TryClaimWin, TryClaimLose, TryClaimFault, Book, BookLost, RunFails,
         PersistShipment, PersistShipmentFault, Resume, WritePatch,
         WritePatchFault, ReadBack, ReadBackFault, Unqueue,
         RecordExecutionFailure, ReleaseRead, ReleaseWrite, ReleaseFault,
         courierVars

\* confirmers write nothing but created
LEMMA ConfirmedIsCreated ==
  ASSUME NEW c \in Confirmer, ConfirmerStep(c)
  PROVE  row' = row \/ row'.status = "created"
  BY DEF ConfirmerStep, ConfirmRead, ConfirmWrite, ConfirmGivesUp, storeVars,
         Write

LEMMA DispatchStep ==
  ASSUME TypeOK, ClaimInv, DispatchInv, [Next]_vars
  PROVE  DispatchInv'
<1>1. SUFFICES ASSUME ~Excused(DispatchCause)' PROVE DispatchInv'
  BY DEF DispatchInv
<1>2. /\ ~Excused(DispatchCause)
      /\ ~Excused({"late_failure"})
  BY <1>1, CausesGrow DEF Excused, DispatchCause, DuplicateCause
<1>3. dispatches \in {0, 1}
  BY <1>2 DEF DispatchInv
<1>4. ASSUME NEW e \in Executor, \A x \in Executor \ {e} : ex'[x] = ex[x],
             \/ \E d \in dlq \cup {0}, ask \in BOOLEAN : Begin(e, d, ask)
             \/ ExecutorStep(e)
             \/ Crash(e)
      PROVE  DispatchInv'
  <2>1. CASE AllBooked(e)
    BY <1>2, <1>4, <2>1, DispatchOrdered
  <2>2. CASE dispatches = 0 /\ ~AllBooked(e)
    BY <1>4, <2>2, DispatchUntouched DEF DispatchInv
  <2>3. CASE dispatches = 1
    BY <1>1, <1>2, <1>4, <2>3, DispatchKept
  <2> QED
    BY <1>3, <2>1, <2>2, <2>3
<1>5. ASSUME UNCHANGED <<ex, dispatches>>,
             row' = row \/ row'.status = "created"
      PROVE  DispatchInv'
  BY <1>2, <1>5, OtherOwners, DispatchedElsewhere DEF DispatchInv
<1> QED
  BY <1>4, <1>5, StepCases, ConfirmedIsCreated

(***************************************************************************)
(* The pickup asked for at execution is ordered at most once, until one of *)
(* the named causes occurs.                                                *)
(***************************************************************************)
THEOREM DispatchedOnceHolds == Spec => []DispatchedOnce
<1>1. Init => DispatchInv
  BY DEF Init, DispatchInv
<1>2. TypeOK /\ ClaimInv /\ DispatchInv /\ [Next]_vars => DispatchInv'
  BY DispatchStep
<1>3. DispatchInv => DispatchedOnce
  BY DEF DispatchInv, DispatchedOnce, DispatchCause
<1> QED
  BY <1>1, <1>2, <1>3, TypeCorrect, ClaimInvariant, PTL DEF Spec

-----------------------------------------------------------------------------
(***************************************************************************)
(* The dead-letter queue.  Failing is the draft's state in which an entry  *)
(* has to be there.                                                        *)
(***************************************************************************)
Failing == \/ row.status = "error"
           \/ \E e \in Executor : ex[e].pc \in {"release", "releaseWrite"}

Queued == Failing => \E d \in dlq : Lasting(d)

LEMMA QueueInvIs ==
  QueueInv <=> Excused(QueueCause) \/ (EntriesDiffer /\ Queued)
  BY DEF QueueInv, Queued, Failing

\* the steps that touch neither the queue nor the entry they were started for
LEMMA QueueKept ==
  ASSUME EntriesDiffer, Queued, dlq' = dlq, NEW e \in Executor,
         \A x \in Executor \ {e} : ex'[x] = ex[x],
         ex'[e].entry \in {ex[e].entry, 0},
         ex'[e].pc \in {"done", "unqueue"} =>
            ex[e].pc \in {"done", "unqueue"} /\ ex'[e].entry = ex[e].entry,
         ex'[e].pc \in {"release", "releaseWrite"} =>
            ex[e].pc \in {"release", "releaseWrite"},
         row'.status = "error" =>
            row.status = "error" \/ ex[e].pc = "releaseWrite"
  PROVE  EntriesDiffer' /\ Queued'
<1>1. EntriesDiffer'
  BY DEF EntriesDiffer
<1>2. Failing' => Failing
  BY DEF Failing
<1>3. ASSUME NEW d, Lasting(d) PROVE Lasting(d)'
  BY <1>3 DEF Lasting
<1> QED
  BY <1>1, <1>2, <1>3 DEF Queued

\* a run's own steps keep the entry it was started for
LEMMA RunMoves ==
  ASSUME TypeOK, NEW e \in Executor,
         \/ \E p \in Parcel : \/ \E w \in BOOLEAN : Book(e, p, w)
                              \/ BookLost(e, p)
         \/ \E seen \in SUBSET Parcel : Resume(e, seen)
         \/ AllBooked(e)
  PROVE  /\ ex'[e].entry = ex[e].entry
         /\ ex'[e].pc \in {"checkpoint", "failed", "patch"}
<1>1. CASE \E p \in Parcel, w \in BOOLEAN : Book(e, p, w)
  <2>1. PICK p \in Parcel, w \in BOOLEAN : Book(e, p, w)
    BY <1>1
  <2>2. ex' = [ex EXCEPT ![e] =
                 [ex[e] EXCEPT !.pc = "checkpoint",
                               !.refs = [@ EXCEPT ![p] = booked[p] + 1],
                               !.tracked = IF w THEN @ \cup {p} ELSE @,
                               !.cur = p]]
    BY <2>1 DEF Book, TypeOK, Exec
  <2>3. ex[e] \in Exec
    BY DEF TypeOK
  <2> QED  BY <2>2, <2>3 DEF TypeOK, Exec
<1>2. CASE \E p \in Parcel : BookLost(e, p)
  BY <1>2 DEF BookLost, Goto, TypeOK, Exec
<1>3. CASE \E seen \in SUBSET Parcel : Resume(e, seen)
  <2>1. PICK seen \in SUBSET Parcel : Resume(e, seen)
    BY <1>3
  <2>2. ex' = [ex EXCEPT ![e] = [ex[e] EXCEPT !.pc = "patch",
                                              !.tracked = @ \cup seen]]
    BY <2>1 DEF Resume, TypeOK, Exec
  <2> QED  BY <2>2 DEF TypeOK, Exec
<1>4. CASE AllBooked(e)
  BY <1>4 DEF AllBooked, TypeOK, Exec
<1> QED  BY <1>1, <1>2, <1>3, <1>4

LEMMA QueueRead ==
  ASSUME TypeOK, EntriesDiffer, Queued, NEW e \in Executor,
         \/ TryClaimRead(e) \/ TryClaimRefused(e) \/ TryClaimLose(e)
         \/ \E p \in Parcel : \/ \E w \in BOOLEAN : Book(e, p, w)
                              \/ BookLost(e, p)
         \/ RunFails(e)
         \/ \E seen \in SUBSET Parcel : Resume(e, seen)
         \/ AllBooked(e) \/ ReadBack(e) \/ ReadBackFault(e)
         \/ ReleaseRead(e) \/ ReleaseFault(e) \/ Crash(e),
         \A x \in Executor \ {e} : ex'[x] = ex[x]
  PROVE  EntriesDiffer' /\ Queued'
<1>1. row' = row /\ dlq' = dlq
  BY DEF TryClaimRead, TryClaimRefused, TryClaimLose, Book, BookLost,
         RunFails, Resume, AllBooked, ReadBack, ReadBackFault, ReleaseRead,
         ReleaseFault, Crash, storeVars
<1>2. ex'[e].entry \in {ex[e].entry, 0}
  <2>1. CASE \/ \E p \in Parcel : \/ \E w \in BOOLEAN : Book(e, p, w)
                                 \/ BookLost(e, p)
             \/ \E seen \in SUBSET Parcel : Resume(e, seen)
             \/ AllBooked(e)
    BY <2>1, RunMoves
  <2>2. CASE \/ TryClaimRead(e) \/ TryClaimRefused(e) \/ TryClaimLose(e)
             \/ RunFails(e) \/ ReadBack(e) \/ ReadBackFault(e)
             \/ ReleaseRead(e) \/ ReleaseFault(e) \/ Crash(e)
    BY <2>2 DEF TryClaimRead, TryClaimRefused, TryClaimLose, RunFails,
                ReadBack, ReadBackFault, ReleaseRead, ReleaseFault, Crash,
                Goto, Finish, IdleExec, TypeOK, Exec
  <2> QED  BY <2>1, <2>2
<1>3. CASE ReadBack(e) /\ ex[e].entry # 0
  <2>1. ex'[e].pc = "unqueue" /\ ex'[e].entry = ex[e].entry
    BY <1>3 DEF ReadBack, Goto, TypeOK, Exec
  <2>2. ex[e].pc = "done"
    BY <1>3 DEF ReadBack
  <2> QED  BY <1>1, <2>1, <2>2, QueueKept
<1>4. CASE ReleaseRead(e) /\ StillClaimed
  <2>1. ex'[e].pc = "releaseWrite"
    BY <1>4 DEF ReleaseRead, Goto, TypeOK, Exec
  <2>2. ex[e].pc = "release"
    BY <1>4 DEF ReleaseRead
  <2> QED  BY <1>1, <1>2, <2>1, <2>2, QueueKept
<1>5. CASE /\ ~(ReadBack(e) /\ ex[e].entry # 0)
           /\ ~(ReleaseRead(e) /\ StillClaimed)
  <2>1. ex'[e].pc \notin {"done", "unqueue", "release", "releaseWrite"}
    <3>1. CASE \/ \E p \in Parcel : \/ \E w \in BOOLEAN : Book(e, p, w)
                                   \/ BookLost(e, p)
               \/ \E seen \in SUBSET Parcel : Resume(e, seen)
               \/ AllBooked(e)
      BY <3>1, RunMoves
    <3>2. CASE \/ TryClaimRead(e) \/ TryClaimRefused(e) \/ TryClaimLose(e)
               \/ RunFails(e) \/ ReadBack(e) \/ ReadBackFault(e)
               \/ ReleaseRead(e) \/ ReleaseFault(e) \/ Crash(e)
      BY <1>5, <3>2
      DEF TryClaimRead, TryClaimRefused, TryClaimLose, RunFails, ReadBack,
          ReadBackFault, ReleaseRead, ReleaseFault, Crash, Goto, Finish,
          IdleExec, TypeOK, Exec
    <3> QED  BY <3>1, <3>2
  <2> QED  BY <1>1, <1>2, <2>1, QueueKept
<1> QED  BY <1>3, <1>4, <1>5

LEMMA QueueWrite ==
  ASSUME TypeOK, EntriesDiffer, Queued, NEW e \in Executor,
         \/ TryClaimWin(e) \/ TryClaimFault(e) \/ PersistShipment(e)
         \/ PersistShipmentFault(e) \/ WritePatchFault(e) \/ ReleaseWrite(e),
         \A x \in Executor \ {e} : ex'[x] = ex[x]
  PROVE  EntriesDiffer' /\ Queued'
<1>1. dlq' = dlq
  BY DEF TryClaimWin, TryClaimFault, PersistShipment, PersistShipmentFault,
         WritePatchFault, ReleaseWrite
<1>2. ex'[e].entry \in {ex[e].entry, 0}
  BY DEF TryClaimWin, TryClaimFault, PersistShipment, PersistShipmentFault,
         WritePatchFault, ReleaseWrite, Goto, Finish, IdleExec, TypeOK, Exec
<1>3. ex'[e].pc \notin {"done", "unqueue", "release", "releaseWrite"}
  BY DEF TryClaimWin, TryClaimFault, PersistShipment, PersistShipmentFault,
         WritePatchFault, ReleaseWrite, Goto, Finish, IdleExec, TypeOK, Exec
<1>4. row'.status = "error" =>
         row.status = "error" \/ ex[e].pc = "releaseWrite"
  <2>1. Patched(e).status # "error"
    BY PatchStatusType DEF Patched, Result
  <2>2. Checkpointed(e).status = row.status
    BY DEF Checkpointed, TypeOK, Row
  <2> QED
    BY <2>1, <2>2
    DEF TryClaimWin, TryClaimFault, PersistShipment, PersistShipmentFault,
        WritePatchFault, ReleaseWrite, Write, Unwritten, TypeOK, Row
<1> QED  BY <1>1, <1>2, <1>3, <1>4, QueueKept

\* a retry of an entry that nobody else retries
LEMMA QueueBegin ==
  ASSUME TypeOK, EntriesDiffer, Queued, ~Excused(QueueCause)',
         NEW e \in Executor, NEW d \in dlq \cup {0}, NEW ask \in BOOLEAN,
         Begin(e, d, ask), \A x \in Executor \ {e} : ex'[x] = ex[x]
  PROVE  EntriesDiffer' /\ Queued'
<1>1. ex'[e].pc = "read" /\ ex'[e].entry = d
  BY DEF Begin, TypeOK
<1>2. d # 0 => \A x \in Executor \ {e} : ex[x].entry # d
  BY DEF Begin, Excused, QueueCause
<1>3. EntriesDiffer'
  BY <1>1, <1>2 DEF EntriesDiffer
<1>4. row' = row /\ dlq' = dlq
  BY DEF Begin, storeVars
<1>5. Failing' => Failing
  BY <1>1, <1>4 DEF Failing
<1>6. ASSUME NEW k, Lasting(k) PROVE Lasting(k)'
  BY <1>1, <1>6 DEF Lasting
<1> QED
  BY <1>3, <1>4, <1>5, <1>6 DEF Queued

\* a stored outcome: nobody else is releasing the draft
LEMMA QueuePatch ==
  ASSUME TypeOK, ClaimInv, EntriesDiffer, ~Excused(QueueCause),
         NEW e \in Executor, WritePatch(e),
         \A x \in Executor \ {e} : ex'[x] = ex[x]
  PROVE  EntriesDiffer' /\ Queued'
<1>1. ex'[e].pc = "done" /\ ex'[e].entry = ex[e].entry
  BY DEF WritePatch, Goto, TypeOK, Exec
<1>2. row'.status # "error"
  BY PatchStatusType DEF WritePatch, Write, Patched, Result
<1>3. \A x \in Executor \ {e} : ex[x].pc \notin {"release", "releaseWrite"}
  BY DEF WritePatch, ClaimInv, OwnerIsUnique, Owner, Excused, QueueCause
<1>4. ~Failing'
  BY <1>1, <1>2, <1>3 DEF Failing
<1>5. EntriesDiffer'
  BY <1>1 DEF EntriesDiffer
<1> QED
  BY <1>4, <1>5 DEF Queued

LEMMA QueueUnqueue ==
  ASSUME TypeOK, EntriesDiffer, Queued, NEW e \in Executor, Unqueue(e),
         \A x \in Executor \ {e} : ex'[x] = ex[x]
  PROVE  EntriesDiffer' /\ Queued'
<1>1. ex[e].pc = "unqueue" /\ row' = row /\ dlq \ {ex[e].entry} \subseteq dlq'
  BY DEF Unqueue
<1>2. ex'[e].pc = "idle" /\ ex'[e].entry = 0
  BY DEF Unqueue, Finish, IdleExec, TypeOK
<1>3. EntriesDiffer'
  BY <1>2 DEF EntriesDiffer
<1>4. Failing' => Failing
  BY <1>1, <1>2 DEF Failing
<1>5. ASSUME NEW d \in dlq, Lasting(d) PROVE d \in dlq' /\ Lasting(d)'
  BY <1>1, <1>2, <1>5 DEF Lasting
<1> QED
  BY <1>3, <1>4, <1>5 DEF Queued

\* a failure's own entry: its retry has not succeeded
LEMMA QueueFailure ==
  ASSUME TypeOK, EntriesDiffer, ~Excused(QueueCause)', NEW e \in Executor,
         RecordExecutionFailure(e),
         \A x \in Executor \ {e} : ex'[x] = ex[x]
  PROVE  EntriesDiffer' /\ Queued'
<1>1. ex'[e].pc = "release" /\ ex'[e].entry = ex[e].entry
  BY DEF RecordExecutionFailure, Goto, TypeOK, Exec
<1>2. EntriesDiffer'
  BY <1>1 DEF EntriesDiffer
<1>3. PICK d \in 1..MaxRuns : FailureEntry(e, d) /\ dlq' = dlq \cup {d}
  BY DEF RecordExecutionFailure, Excused, QueueCause
<1>4. \A x \in Executor \ {e} : ex[x].entry # d
  <2>1. CASE ex[e].entry = 0
    BY <1>3, <2>1 DEF FailureEntry, Unused
  <2>2. CASE ex[e].entry # 0
    BY <1>3, <2>2 DEF FailureEntry, EntriesDiffer
  <2> QED  BY <2>1, <2>2
<1>5. Lasting(d)'
  BY <1>1, <1>4 DEF Lasting
<1> QED
  BY <1>2, <1>3, <1>5 DEF Queued

LEMMA QueueStep ==
  ASSUME TypeOK, ClaimInv, QueueInv, [Next]_vars
  PROVE  QueueInv'
<1>1. SUFFICES ASSUME ~Excused(QueueCause)'
               PROVE  EntriesDiffer' /\ Queued'
  BY QueueInvIs DEF QueueInv, Queued, Failing
<1>2. ~Excused(QueueCause) /\ EntriesDiffer /\ Queued
  BY <1>1, CausesGrow, QueueInvIs DEF Excused, QueueCause
<1>3. ASSUME NEW e \in Executor, \A x \in Executor \ {e} : ex'[x] = ex[x],
             \/ \E d \in dlq \cup {0}, ask \in BOOLEAN : Begin(e, d, ask)
             \/ ExecutorStep(e)
             \/ Crash(e)
      PROVE  EntriesDiffer' /\ Queued'
  BY <1>1, <1>2, <1>3, QueueRead, QueueWrite, QueueBegin, QueuePatch,
     QueueUnqueue, QueueFailure DEF ExecutorStep
<1>4. ASSUME UNCHANGED <<ex, dlq>>, row' = row \/ row'.status = "created"
      PROVE  EntriesDiffer' /\ Queued'
  BY <1>2, <1>4 DEF EntriesDiffer, Queued, Failing, Lasting
<1> QED
  BY <1>3, <1>4, StepCases, ConfirmedIsCreated

(***************************************************************************)
(* A draft left in error has a dead-letter entry to be retried from, until *)
(* one of the named causes occurs.                                         *)
(***************************************************************************)
THEOREM ErrorIsQueuedHolds == Spec => []ErrorIsQueued
<1>1. Init => QueueInv
  BY DEF Init, InitRow, IdleExec, QueueInv, EntriesDiffer
<1>2. TypeOK /\ ClaimInv /\ QueueInv /\ [Next]_vars => QueueInv'
  BY QueueStep
<1>3. QueueInv => ErrorIsQueued
  BY DEF QueueInv, ErrorIsQueued, QueueCause
<1> QED
  BY <1>1, <1>2, <1>3, TypeCorrect, ClaimInvariant, PTL DEF Spec

-----------------------------------------------------------------------------
(***************************************************************************)
(* At Apaczka nothing is confirmed later: the confirmers stay idle.        *)
(***************************************************************************)
LEMMA NobodyConfirms ==
  ASSUME Courier = "apaczka", TypeOK, FinalInv, [Next]_vars
  PROVE  /\ \A c \in Confirmer : cf'[c].pc = "idle"
         /\ \A c \in Confirmer : ~ConfirmWrite(c)
<1>1. ~IsResumable(row)
  BY DEF IsResumable
<1>2. \A c \in Confirmer :
         ~ConfirmRead(c) /\ ~ConfirmWrite(c) /\ ~ConfirmGivesUp(c)
  BY <1>1 DEF FinalInv, ConfirmRead, ConfirmWrite, ConfirmGivesUp
<1>3. ASSUME NEW e \in Executor,
             \/ \E d \in dlq \cup {0}, ask \in BOOLEAN : Begin(e, d, ask)
             \/ ExecutorStep(e)
             \/ Crash(e)
      PROVE  cf' = cf
  BY <1>3
  DEF Begin, Crash, ExecutorStep, TryClaimRead, TryClaimRefused, TryClaimWin,
      TryClaimLose, TryClaimFault, Book, BookLost, RunFails, PersistShipment,
      PersistShipmentFault, Resume, AllBooked, WritePatch, WritePatchFault,
      ReadBack, ReadBackFault, Unqueue, RecordExecutionFailure, ReleaseRead,
      ReleaseWrite, ReleaseFault
<1>4. cf' = cf
  BY <1>2, <1>3, StepCases DEF ConfirmerStep
<1> QED
  BY <1>2, <1>4 DEF FinalInv

Settled(e) == Owner(e) => ex[e].pc \in {"done", "failed", "release"}

\* a settled executor neither writes a created row nor takes it up again
LEMMA SettledStep ==
  ASSUME TypeOK, ClaimInv, row.status = "created", NEW e \in Executor,
         Settled(e),
         \/ \E d \in dlq \cup {0}, ask \in BOOLEAN : Begin(e, d, ask)
         \/ ExecutorStep(e)
         \/ Crash(e)
  PROVE  row' = row /\ Settled(e)'
<1>1. fresh = {}
  BY DEF ClaimInv, FreshIsClaimable, CanExecute, EXECUTABLE_STATES
<1>2. ~ \/ TryClaimRead(e) \/ TryClaimWin(e)
        \/ \E p \in Parcel, w \in BOOLEAN : Book(e, p, w)
        \/ \E p \in Parcel : BookLost(e, p)
        \/ RunFails(e) \/ PersistShipment(e) \/ PersistShipmentFault(e)
        \/ \E seen \in SUBSET Parcel : Resume(e, seen)
        \/ AllBooked(e) \/ WritePatch(e) \/ WritePatchFault(e)
        \/ ReleaseWrite(e)
  BY <1>1
  DEF TryClaimRead, CanExecute, EXECUTABLE_STATES, TryClaimWin, ETagMatches,
      Book, BookLost, Booking, RunFails, PersistShipment, PersistShipmentFault,
      Resume, AllBooked, WritePatch, WritePatchFault, ReleaseWrite, Owner,
      Settled
<1>3. CASE \/ \E d \in dlq \cup {0}, ask \in BOOLEAN : Begin(e, d, ask)
           \/ TryClaimRefused(e) \/ TryClaimLose(e) \/ TryClaimFault(e)
           \/ ReadBack(e) \/ Unqueue(e) \/ ReleaseFault(e) \/ Crash(e)
  <2>1. ex'[e].pc \in {"read", "idle", "unqueue"}
    BY <1>3 DEF Begin, TryClaimRefused, TryClaimLose, TryClaimFault, ReadBack,
                Unqueue, ReleaseFault, Crash, Goto, Finish, IdleExec, TypeOK,
                Exec
  <2>2. row' = row
    BY <1>1, <1>3
    DEF Begin, TryClaimRefused, TryClaimLose, TryClaimFault, ReadBack, Unqueue,
        ReleaseFault, Crash, storeVars, ETagMatches, Unwritten
  <2> QED  BY <2>1, <2>2 DEF Settled, Owner
<1>4. CASE ReadBackFault(e) \/ RecordExecutionFailure(e) \/ ReleaseRead(e)
  <2>1. ex'[e].pc \in {"failed", "release", "idle"}
    BY <1>4 DEF ReadBackFault, RecordExecutionFailure, ReleaseRead,
                StillClaimed, Goto, Finish, IdleExec, TypeOK, Exec
  <2>2. row' = row
    BY <1>4 DEF ReadBackFault, RecordExecutionFailure, ReleaseRead, storeVars
  <2> QED  BY <2>1, <2>2 DEF Settled, Owner
<1> QED
  BY <1>2, <1>3, <1>4 DEF ExecutorStep

\* who stores created is the one that answers for the draft, and is settled
LEMMA SettledByCreation ==
  ASSUME TypeOK, ClaimInv, ~Excused({"late_failure"}), NEW e \in Executor,
         ExecutorStep(e), \A x \in Executor \ {e} : ex'[x] = ex[x],
         row.status # "created", row'.status = "created"
  PROVE  \A x \in Executor : Settled(x)'
<1>1. ~PersistShipment(e) /\ ~PersistShipmentFault(e)
  BY DEF PersistShipment, PersistShipmentFault, Checkpointed, Write, Unwritten,
         TypeOK, Row
<1>2. WritePatch(e) \/ WritePatchFault(e)
  BY <1>1
  DEF ExecutorStep, TryClaimRead, TryClaimRefused, TryClaimWin, TryClaimLose,
      TryClaimFault, Book, BookLost, RunFails, Resume, AllBooked, ReadBack,
      ReadBackFault, Unqueue, RecordExecutionFailure, ReleaseRead,
      ReleaseWrite, ReleaseFault, storeVars, Write, Unwritten, TypeOK, Row
<1>3. ex[e].pc = "patch" /\ ex'[e].pc \in {"done", "failed"}
  BY <1>2 DEF WritePatch, WritePatchFault, Goto, TypeOK, Exec
<1>4. \A x \in Executor \ {e} : ~Owner(x)
  BY <1>3 DEF ClaimInv, OwnerIsUnique, Owner
<1> QED
  BY <1>3, <1>4, OtherOwners DEF Settled

LEMMA FinalStep ==
  ASSUME Courier = "apaczka", TypeOK, ClaimInv, FinalInv, [Next]_vars
  PROVE  /\ FinalInv'
         /\ row.status = "created" =>
               row'.status = "created" \/ Excused({"late_failure"})
<1>1. \A c \in Confirmer : cf'[c].pc = "idle"
  BY NobodyConfirms
<1>2. CASE Excused({"late_failure"})
  BY <1>1, <1>2, CausesGrow DEF FinalInv, Excused
<1>3. CASE ~Excused({"late_failure"})
  <2>1. ASSUME NEW e \in Executor, \A x \in Executor \ {e} : ex'[x] = ex[x],
               \/ \E d \in dlq \cup {0}, ask \in BOOLEAN : Begin(e, d, ask)
               \/ ExecutorStep(e)
               \/ Crash(e)
        PROVE  /\ row'.status = "created" => \A x \in Executor : Settled(x)'
               /\ row.status = "created" => row'.status = "created"
    <3>1. CASE row.status = "created"
      <4>1. \A x \in Executor : Settled(x)
        BY <1>3, <3>1 DEF FinalInv, Settled
      <4>2. row' = row /\ Settled(e)'
        BY <2>1, <3>1, <4>1, SettledStep
      <4> QED
        BY <2>1, <3>1, <4>1, <4>2, OtherOwners DEF Settled
    <3>2. CASE row.status # "created"
      <4>1. CASE ExecutorStep(e)
        BY <1>3, <2>1, <3>2, <4>1, SettledByCreation
      <4>2. CASE ~ExecutorStep(e)
        BY <2>1, <3>2, <4>2 DEF Begin, Crash, storeVars
      <4> QED  BY <4>1, <4>2
    <3> QED  BY <3>1, <3>2
  <2>2. ASSUME UNCHANGED <<row, ex>>
        PROVE  /\ row'.status = "created" => \A x \in Executor : Settled(x)'
               /\ row.status = "created" => row'.status = "created"
    BY <1>3, <2>2, OtherOwners DEF FinalInv, Settled
  <2>3. \A c \in Confirmer : ConfirmerStep(c) => row' = row
    BY NobodyConfirms DEF ConfirmerStep, ConfirmRead, ConfirmGivesUp, storeVars
  <2>4. /\ row'.status = "created" => \A x \in Executor : Settled(x)'
        /\ row.status = "created" => row'.status = "created"
    BY <2>1, <2>2, <2>3, StepCases
  <2> QED
    BY <1>1, <2>4 DEF FinalInv, Settled
<1> QED
  BY <1>2, <1>3

(***************************************************************************)
(* At Apaczka a created draft stays created, until a run fails after it    *)
(* reopened the draft.                                                     *)
(***************************************************************************)
THEOREM CreatedIsFinalHolds ==
  ASSUME Courier = "apaczka"
  PROVE  Spec => CreatedIsFinal
<1> DEFINE Kept == row.status = "created" =>
                      row'.status = "created" \/ Excused({"late_failure"})
<1>1. Init => FinalInv
  BY DEF Init, InitRow, IdleConf, FinalInv
<1>2. TypeOK /\ ClaimInv /\ FinalInv /\ [Next]_vars => FinalInv'
  BY FinalStep
<1>3. TypeOK /\ ClaimInv /\ FinalInv /\ [Next]_vars => [Kept]_vars
  BY FinalStep
<1> QED
  BY <1>1, <1>2, <1>3, TypeCorrect, ClaimInvariant, PTL
  DEF Spec, CreatedIsFinal

=============================================================================
