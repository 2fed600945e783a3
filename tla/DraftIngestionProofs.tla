------------------------ MODULE DraftIngestionProofs ------------------------
(***************************************************************************)
(* Theorems about DraftIngestion, for every set of processes and delivery  *)
(* ids, every set of histories an order may have, and every number of      *)
(* drafts, executions, requests and faults.                                *)
(***************************************************************************)
EXTENDS DraftIngestionInv, FiniteSetTheorems, WellFoundedInduction,
        TLAPS

-----------------------------------------------------------------------------
(***************************************************************************)
(* The records a builder makes and a sync merges are drafts                *)
(* (shipping_draft_composition.py:593, drafts.py:149).                     *)
(***************************************************************************)
LEMMA CourierTyped ==
  ASSUME NEW order \in Order
  PROVE  /\ DraftCourier(order) \in Courier
         /\ DraftService(order) \in Service
<1>1. PickCourier(order.title) \in Courier
  BY TitleMapsAssumption DEF PickCourier, Courier
<1>2. DraftCourier(order) \in Courier
  BY <1>1 DEF DraftCourier, Courier
<1>3. DraftService(order) \in Service
  BY <1>2 DEF DraftService, Courier, Service
<1> QED  BY <1>2, <1>3

LEMMA ApaczkaTyped ==
  ASSUME NEW order \in Order
  PROVE  DraftApaczkaService(order) \in ApaczkaService
<1>1. PickApaczkaService(order.title) \in ApaczkaService
  BY TitleMapsAssumption DEF PickApaczkaService, ApaczkaService
<1>2. PickupProvider(order) \in {"dpd", "poczta"}
         => APACZKA_PICKUP_SERVICES[PickupProvider(order)] \in ApaczkaService
  BY DEF APACZKA_PICKUP_SERVICES, ApaczkaService
<1> QED  BY <1>1, <1>2 DEF DraftApaczkaService, ApaczkaService

LEMMA BuildTyped ==
  ASSUME NEW order \in Order
  PROVE  Build(order) \in Draft
<1>1. /\ order.lines \in Nat /\ order.readable \in BOOLEAN
      /\ order.octolize \in BOOLEAN /\ order.point \in BOOLEAN
      /\ order.phone \in {"null", "empty", "bad", "ok"}
      /\ order.notedLocker \in BOOLEAN /\ order.cancelled \in BOOLEAN
  BY DEF Order
<1>2. /\ DraftPhone(order) \in {"null", "empty", "ok"}
      /\ HasPoint(order) \in BOOLEAN /\ HasLocker(order) \in BOOLEAN
  BY <1>1 DEF DraftPhone, NormalizedPhone, ValidPhone, HasPoint, HasLocker
<1>3. Match(order) \in {"auto_matched", "requires_selection", "unrecognized",
                        "manual"}
  BY DEF Match
<1>4. SourceTracking(order) \in {"none", "source", "ours"}
  BY DEF SourceTracking
<1>5. Cod(order) \in [amount : {"none", "due", "due2"}, error : BOOLEAN]
  <2>1. order.outstanding \in {"missing", "invalid", "negative", "subcent",
                               "zero", "due", "due2"}
    BY DEF Order
  <2> QED  BY <2>1 DEF Cod
<1>6. SourceFulfillment(order) \in {"none", "new", "processing", "partial",
                                    "fulfilled", "cancelled"}
  <2>1. /\ order.fulfillment \in {"none", "new", "processing", "partial",
                                  "fulfilled", "sent", "cancelled"}
        /\ order.fulfillment = "sent" => order.source = "allegro"
    BY DEF Order
  <2> QED  BY <2>1 DEF SourceFulfillment
<1>7. StatusFromSource(order, IF ReviewReasons(order) # {}
                              THEN "needs_review" ELSE "pending") \in Status
  BY DEF StatusFromSource, Status
<1> QED  BY <1>1, <1>2, <1>3, <1>4, <1>5, <1>6, <1>7, CourierTyped,
            ApaczkaTyped DEF Build, Draft

(***************************************************************************)
(* Merging keeps what an execution has recorded, and the draft's status    *)
(* is what MergedStatus says (drafts.py:149).                              *)
(***************************************************************************)
MatchField == {"auto_matched", "requires_selection", "unrecognized", "manual"}
TrackingField == {"none", "source", "ours"}
OriginField == {"none", "system", "external"}
CodField == [amount : {"none", "due", "due2"}, error : BOOLEAN]

\* e is a draft with the execution and the status of d
Edited(d, e) == /\ e \in Draft
                /\ e.shipments = d.shipments /\ e.started = d.started
                /\ e.status = d.status

LEMMA DraftEdits ==
  ASSUME NEW d \in Draft
  PROVE  /\ \A service \in Service, courier \in Courier :
               Edited(d, [d EXCEPT !.service = service, !.courier = courier])
         /\ \A apaczka \in ApaczkaService, match \in MatchField :
               Edited(d, [d EXCEPT !.apaczka = apaczka, !.match = match])
         /\ \A plan \in Nat :
               Edited(d, [d EXCEPT !.plan = plan, !.planBy = "operator"])
         /\ \A cod \in CodField, items \in Nat :
               Edited(d, [d EXCEPT !.cod = cod, !.items = items])
         /\ Edited(d, [d EXCEPT !.fulfillment = "fulfilled"])
<1>1. ASSUME NEW service \in Service, NEW courier \in Courier
      PROVE  Edited(d, [d EXCEPT !.service = service, !.courier = courier])
  BY DEF Edited, Draft
<1>2. ASSUME NEW apaczka \in ApaczkaService, NEW match \in MatchField
      PROVE  Edited(d, [d EXCEPT !.apaczka = apaczka, !.match = match])
  BY DEF Edited, Draft, MatchField
<1>3. ASSUME NEW plan \in Nat
      PROVE  Edited(d, [d EXCEPT !.plan = plan, !.planBy = "operator"])
  BY DEF Edited, Draft
<1>4. ASSUME NEW cod \in CodField, NEW items \in Nat
      PROVE  Edited(d, [d EXCEPT !.cod = cod, !.items = items])
  BY DEF Edited, Draft, CodField
<1>5. Edited(d, [d EXCEPT !.fulfillment = "fulfilled"])
  BY DEF Edited, Draft
<1> QED  BY <1>1, <1>2, <1>3, <1>4, <1>5

\* the draft a sync makes of d before it looks at the rest
Synced(d, tracking, origin, status, error) ==
    [d EXCEPT !.tracking = tracking, !.origin = origin, !.status = status,
              !.error = error]

LEMMA SyncedIsDraft ==
  ASSUME NEW d \in Draft, NEW tracking \in TrackingField,
         NEW origin \in OriginField,
         NEW status \in Status, NEW error \in BOOLEAN
  PROVE  LET e == Synced(d, tracking, origin, status, error)
         IN /\ e \in Draft /\ e.shipments = d.shipments
            /\ e.started = d.started /\ e.status = status
  BY DEF Draft, Synced, TrackingField, OriginField

LEMMA DraftMoves ==
  ASSUME NEW d \in Draft, NEW status \in Status
  PROVE  /\ \A started \in BOOLEAN :
               [d EXCEPT !.status = status, !.started = started] \in Draft
         /\ \A error \in BOOLEAN :
               [d EXCEPT !.status = status, !.error = error] \in Draft
         /\ \A shipments \in Nat, tracking \in TrackingField :
               [d EXCEPT !.shipments = shipments, !.draftId = TRUE,
                         !.status = status, !.tracking = tracking] \in Draft
<1>1. ASSUME NEW started \in BOOLEAN
      PROVE  [d EXCEPT !.status = status, !.started = started] \in Draft
  BY DEF Draft
<1>2. ASSUME NEW error \in BOOLEAN
      PROVE  [d EXCEPT !.status = status, !.error = error] \in Draft
  BY DEF Draft
<1>3. ASSUME NEW shipments \in Nat, NEW tracking \in TrackingField
      PROVE  [d EXCEPT !.shipments = shipments, !.draftId = TRUE,
                       !.status = status, !.tracking = tracking] \in Draft
  BY DEF Draft, TrackingField
<1> QED  BY <1>1, <1>2, <1>3

LEMMA MergeTyped ==
  ASSUME NEW old \in Draft, NEW new \in Draft
  PROVE  /\ Merge(old, new) \in Draft
         /\ Merge(old, new).shipments = old.shipments
         /\ Merge(old, new).started = old.started
         /\ Merge(old, new).status = MergedStatus(old, new)
<1>. DEFINE executed == WithExecution(old, new)
            fromNew == [executed EXCEPT
                 !.tracking = IF old.tracking # "none" THEN old.tracking ELSE @,
                 !.origin = IF new.tracking = "none" \/ old.origin # "none"
                            THEN old.origin
                            ELSE IF old.draftId THEN "system" ELSE "external",
                 !.status = MergedStatus(old, new),
                 !.error = old.error /\ MergedStatus(old, new) = "error"]
            fulfilled == IF old.fulfillment = "fulfilled"
                         THEN [fromNew EXCEPT !.fulfillment = "fulfilled"]
                         ELSE fromNew
            apaczka == IF KeepsApaczkaService(old, new)
                       THEN [fulfilled EXCEPT
                               !.apaczka = old.apaczka,
                               !.match = IF old.match = "manual"
                                         THEN "manual" ELSE @]
                       ELSE fulfilled
            packed == IF KeepsPlan(old)
                      THEN [apaczka EXCEPT !.plan = old.plan,
                                           !.planBy = "operator"]
                      ELSE apaczka
            serviced == IF ServiceIsFrozen(old)
                        THEN [packed EXCEPT !.service = old.service,
                                            !.courier = old.courier]
                        ELSE packed
            merged == IF MoneyIsFrozen(old)
                      THEN [serviced EXCEPT !.cod = old.cod, !.items = old.items]
                      ELSE serviced
            Good(d) == /\ d \in Draft /\ d.shipments = old.shipments
                       /\ d.started = old.started
                       /\ d.status = MergedStatus(old, new)
<1>1. MergedStatus(old, new) \in Status
  BY DEF MergedStatus, Draft, Status
<1>2. /\ executed \in Draft
      /\ executed.shipments = old.shipments /\ executed.started = old.started
  BY DEF WithExecution, Draft
<1>3. /\ old.tracking \in TrackingField
      /\ old.origin \in OriginField
      /\ old.apaczka \in ApaczkaService /\ old.plan \in Nat
      /\ old.service \in Service /\ old.courier \in Courier
      /\ old.cod \in CodField /\ old.items \in Nat
  BY DEF Draft, CodField, TrackingField, OriginField
<1>4. \A d \in Draft : /\ d.tracking \in TrackingField
                       /\ d.match \in MatchField
  BY DEF Draft, MatchField, TrackingField
<1> HIDE DEF executed
<1>5. Good(fromNew)
  <2> DEFINE tracking == IF old.tracking # "none" THEN old.tracking
                         ELSE executed.tracking
             origin == IF new.tracking = "none" \/ old.origin # "none"
                       THEN old.origin
                       ELSE IF old.draftId THEN "system" ELSE "external"
             error == old.error /\ MergedStatus(old, new) = "error"
  <2>1. /\ tracking \in TrackingField
        /\ origin \in OriginField
        /\ error \in BOOLEAN
    BY <1>2, <1>3, <1>4 DEF TrackingField, OriginField
  <2>2. fromNew = Synced(executed, tracking, origin, MergedStatus(old, new), error)
    BY DEF Synced
  <2> HIDE DEF tracking, origin, error, fromNew
  <2> QED  BY <1>1, <1>2, <2>1, <2>2, SyncedIsDraft
<1> HIDE DEF fromNew
<1>6. Good(fulfilled)
  BY <1>5, DraftEdits DEF Edited
<1> HIDE DEF fulfilled
<1>7. Good(apaczka)
  <2> DEFINE match == IF old.match = "manual" THEN "manual" ELSE fulfilled.match
  <2>1. match \in MatchField
    BY <1>4, <1>6 DEF MatchField
  <2>2. Edited(fulfilled, [fulfilled EXCEPT !.apaczka = old.apaczka,
                                            !.match = match])
    <3> HIDE DEF match
    <3> QED  BY <1>3, <1>6, <2>1, DraftEdits
  <2> QED  BY <1>6, <2>2 DEF Edited
<1> HIDE DEF apaczka
<1>8. Good(packed)
  BY <1>3, <1>7, DraftEdits DEF Edited
<1> HIDE DEF packed
<1>9. Good(serviced)
  <2>1. Edited(packed, [packed EXCEPT !.service = old.service,
                                      !.courier = old.courier])
    BY <1>3, <1>8, DraftEdits
  <2> QED  BY <1>8, <2>1 DEF Edited
<1> HIDE DEF serviced
<1>10. Good(merged)
  <2>1. Edited(serviced, [serviced EXCEPT !.cod = old.cod, !.items = old.items])
    BY <1>3, <1>9, DraftEdits
  <2> QED  BY <1>9, <2>1 DEF Edited
<1>11. Merge(old, new) = merged
  BY DEF Merge, merged, serviced, packed, apaczka, fulfilled, fromNew, executed
<1> HIDE DEF merged
<1> QED  BY <1>10, <1>11

-----------------------------------------------------------------------------
(***************************************************************************)
(* Types.                                                                  *)
(***************************************************************************)
USE HistoriesAssumption, IngestionBounds

LEMMA BuiltIsDraft ==
  ASSUME NEW k \in DOMAIN Histories, NEW v \in DOMAIN Histories[k]
  PROVE  Built[k][v] \in Draft
<1>1. Histories[k] \in Seq(Order) /\ Histories[k][v] \in Order
  OBVIOUS
<1> QED  BY <1>1, BuildTyped DEF Built

LEMMA VersionsFacts ==
  ASSUME history \in DOMAIN Histories
  PROVE  /\ Versions \in Seq(Order) /\ DOMAIN Versions = 1..Len(Versions)
         /\ Len(Versions) \in Nat \ {0} /\ 1 \in DOMAIN Versions
         /\ \A v \in DOMAIN Versions : Built[history][v] \in Draft
<1>1. Versions \in Seq(Order) \ {<< >>}
  BY DEF Versions
<1>2. \A v \in DOMAIN Versions : Built[history][v] \in Draft
  BY BuiltIsDraft DEF Versions
<1> QED  BY <1>1, <1>2

LEMMA IdleIsProc == IdleProc \in Proc
<1>1. 1 \in DOMAIN Histories[1]
  OBVIOUS
<1>2. NoCopy \in Draft
  BY <1>1, BuiltIsDraft DEF NoCopy
<1> QED  BY <1>2 DEF IdleProc, Proc, Op

LEMMA IdleFits == ASSUME history \in DOMAIN Histories PROVE Fits(IdleProc)
  BY VersionsFacts DEF Fits, IdleProc, Marking

LEMMA TypeInit == Init => TypeOK /\ StepsFit
<1> SUFFICES ASSUME Init PROVE TypeOK /\ StepsFit
  OBVIOUS
<1>1. /\ history \in DOMAIN Histories /\ version \in DOMAIN Versions
  BY VersionsFacts DEF Init
<1>2. proc \in [Process -> Proc] /\ StepsFit
  BY <1>1, IdleIsProc, IdleFits DEF Init, StepsFit
<1>3. DOMAIN rows \subseteq Id /\ \A i \in DOMAIN rows : rows[i] \in Draft
  BY DEF Init
<1> QED  BY <1>1, <1>2, <1>3 DEF Init, TypeOK

(***************************************************************************)
(* One process moves, to a state that fits its step.                       *)
(***************************************************************************)
Moves(p, r) == r \in Proc /\ Fits(r) /\ proc' = [proc EXCEPT ![p] = r]

LEMMA MovesType ==
  ASSUME TypeOK, StepsFit, history' = history,
         NEW p \in Process, NEW r, Moves(p, r)
  PROVE  proc' \in [Process -> Proc] /\ StepsFit'
<1>1. \A q \in Process : proc'[q] = IF q = p THEN r ELSE proc[q]
  BY DEF Moves, TypeOK
<1>2. Versions' = Versions
  BY DEF Versions
<1>3. \A q \in Process : Fits(proc'[q])
  BY <1>1 DEF Moves, StepsFit
<1>4. StepsFit'
  BY <1>2, <1>3 DEF StepsFit, Fits
<1> QED  BY <1>4 DEF Moves, TypeOK

Marked(p) == MarkCreate(p) \/ MarkLook(p) \/ MarkDelete(p) \/ MarkFault(p)

Looked(p) == FindNone(p) \/ (\E i \in Id : FindDraft(p, i)) \/ FindFault(p)

Cleaned(p) ==
    \/ QueryDuplicates(p) \/ QueryFault(p)
    \/ \E i \in Id : DeleteDuplicate(p, i) \/ DeleteFault(p, i)

Wrote(p) == Upsert(p) \/ UpsertFault(p)

Queued(p) == EnqueueDlq(p) \/ DeleteDlqEntry(p)

Started(p) ==
    \/ \E w \in WebhookId \cup {"none"} : Deliver(p, w)
    \/ Sync(p) \/ Poll(p)
    \/ \E entry \in dlq : Retry(p, entry)

LEMMA ProcFields ==
  ASSUME TypeOK, StepsFit, NEW p \in Process
  PROVE  proc[p] \in Proc /\ Fits(proc[p])
BY DEF TypeOK, StepsFit

LEMMA EndMoves ==
  ASSUME TypeOK, NEW p \in Process, End(p)
  PROVE  \E r : Moves(p, r)
BY IdleIsProc, IdleFits DEF End, Moves, TypeOK

LEMMA StartedMoves ==
  ASSUME TypeOK, StepsFit, NEW p \in Process, Started(p)
  PROVE  \E r : Moves(p, r)
<1> DEFINE Began(pc, op, wid, ver, entry) ==
              [IdleProc EXCEPT !.pc = pc, !.op = op, !.wid = wid, !.ver = ver,
                               !.entry = entry]
<1>1. ASSUME NEW pc \in {"create", "persist", "find"}, NEW op \in Op,
             NEW wid \in WebhookId \cup {"none"}, NEW ver \in DOMAIN Versions,
             NEW entry \in Nat,
             pc = "create" => wid \in WebhookId,
             op = "retry" => entry \in 1..MaxFaults,
             Start(p, op, pc, wid, ver, entry)
      PROVE  \E r : Moves(p, r)
  <2>1. Began(pc, op, wid, ver, entry) \in Proc
    <3>1. ver \in Nat
      BY VersionsFacts DEF TypeOK
    <3> QED  BY <3>1, IdleIsProc DEF Proc
  <2>2. Fits(Began(pc, op, wid, ver, entry))
    BY <1>1, VersionsFacts DEF Fits, IdleProc, Marking, Id
  <2> QED  BY <1>1, <2>1, <2>2 DEF Start, Moves
<1>2. 1 \in DOMAIN Versions /\ version \in DOMAIN Versions
  BY VersionsFacts DEF TypeOK
<1>3. ASSUME NEW w \in WebhookId \cup {"none"}, Deliver(p, w)
      PROVE  \E r : Moves(p, r)
  BY <1>1, <1>2, <1>3 DEF Deliver, Op
<1>4. CASE Sync(p) \/ Poll(p)
  BY <1>1, <1>2, <1>4 DEF Sync, Poll, Op
<1>5. ASSUME NEW entry \in dlq, Retry(p, entry)
      PROVE  \E r : Moves(p, r)
  <2>1. entry \in 1..MaxFaults /\ entry \in Nat
    <3>1. MaxFaults \in Nat
      BY IngestionBounds
    <3>2. dlq \subseteq 1..MaxFaults
      BY DEF TypeOK
    <3> QED  BY <3>1, <3>2
  <2>2. Start(p, "retry", "persist", "none", 1, entry)
    BY <1>5 DEF Retry
  <2>3. /\ "persist" \in {"create", "persist", "find"} /\ "retry" \in Op
        /\ "none" \in WebhookId \cup {"none"} /\ "persist" # "create"
    BY DEF Op
  <2> QED  BY Zenon, <1>1, <1>2, <2>1, <2>2, <2>3
<1> QED  BY <1>3, <1>4, <1>5 DEF Started

LEMMA MarkedMoves ==
  ASSUME TypeOK, StepsFit, NEW p \in Process, Marked(p)
  PROVE  \E r : Moves(p, r)
<1>1. ASSUME NEW pc \in {"look", "again", "delete"}, proc[p].pc \in Marking,
             Goto(p, pc)
      PROVE  \E r : Moves(p, r)
  <2>1. [proc[p] EXCEPT !.pc = pc] \in Proc
    BY ProcFields DEF Proc
  <2>2. Fits([proc[p] EXCEPT !.pc = pc])
    BY <1>1, <2>1, ProcFields DEF Fits, Proc
  <2> QED  BY <1>1, <2>1, <2>2 DEF Goto, Moves, TypeOK
<1>2. ASSUME proc[p].pc \in Marking, Inserted(p)
      PROVE  \E r : Moves(p, r)
  <2> DEFINE r == [proc[p] EXCEPT !.pc = "persist", !.wid = "none"]
  <2>1. r \in Proc
    BY ProcFields DEF Proc
  <2>2. Fits(r)
    BY <1>2, ProcFields DEF Fits, Proc, Marking
  <2> QED  BY <1>2, <2>1, <2>2 DEF Inserted, Moves, TypeOK
<1>3. CASE MarkCreate(p)
  BY <1>1, <1>2, <1>3, EndMoves DEF MarkCreate, Marking
<1>4. CASE MarkLook(p)
  BY <1>1, <1>4, EndMoves DEF MarkLook, Marking
<1>5. CASE MarkDelete(p)
  BY <1>1, <1>5 DEF MarkDelete, Marking
<1>6. CASE MarkFault(p)
  BY <1>6, EndMoves DEF MarkFault
<1> QED  BY <1>3, <1>4, <1>5, <1>6 DEF Marked

LEMMA GotoMoves ==
  ASSUME TypeOK, StepsFit, NEW p \in Process,
         NEW pc \in {"persist", "enqueue", "unqueue"}, Goto(p, pc),
         pc = "persist" \/ proc[p].op = "retry"
  PROVE  \E r : Moves(p, r)
<1>1. [proc[p] EXCEPT !.pc = pc] \in Proc
  BY ProcFields DEF Proc
<1>2. Fits([proc[p] EXCEPT !.pc = pc])
  BY <1>1, ProcFields DEF Fits, Proc, Marking
<1> QED  BY <1>1, <1>2 DEF Goto, Moves, TypeOK

LEMMA CleaningMoves ==
  ASSUME TypeOK, StepsFit, NEW p \in Process, NEW dups \in SUBSET Id,
         Cleaning(p, dups)
  PROVE  \E r : Moves(p, r)
<1> DEFINE r == [proc[p] EXCEPT
                   !.pc = IF dups = {} THEN "upsert" ELSE "clean",
                   !.dups = dups]
<1>1. r \in Proc
  BY ProcFields DEF Proc
<1>2. Fits(r)
  BY <1>1, ProcFields DEF Fits, Proc, Marking
<1> QED  BY <1>1, <1>2 DEF Cleaning, Moves, TypeOK

LEMMA LookedMoves ==
  ASSUME TypeOK, StepsFit, NEW p \in Process, Looked(p)
  PROVE  \E r : Moves(p, r)
<1>1. ASSUME NEW i \in Id, FindDraft(p, i)
      PROVE  \E r : Moves(p, r)
  <2>1. i \in DOMAIN rows /\ rows[i] \in Draft
    BY <1>1 DEF FindDraft, Found, TypeOK
  <2> DEFINE r == [proc[p] EXCEPT !.pc = "persist", !.id = i, !.copy = rows[i]]
  <2>2. r \in Proc
    <3>1. i \in Nat
      BY DEF Id
    <3> QED  BY <2>1, <3>1, ProcFields DEF Proc
  <2>3. Fits(r)
    BY <2>2, ProcFields DEF Fits, Proc, Marking
  <2> QED  BY <1>1, <2>2, <2>3, EndMoves DEF FindDraft, Moves, TypeOK
<1>2. CASE FindNone(p)
  BY <1>2, GotoMoves DEF FindNone
<1>3. CASE FindFault(p)
  BY <1>3, EndMoves DEF FindFault
<1> QED  BY <1>1, <1>2, <1>3 DEF Looked

LEMMA CleanedMoves ==
  ASSUME TypeOK, StepsFit, NEW p \in Process, Cleaned(p)
  PROVE  \E r : Moves(p, r)
<1>1. /\ Duplicates(p) \subseteq Id /\ {} \subseteq Id
      /\ \A i : proc[p].dups \ {i} \subseteq Id
  BY ProcFields DEF Duplicates, TypeOK, Proc
<1>2. CASE QueryDuplicates(p) \/ QueryFault(p)
  BY <1>1, <1>2, CleaningMoves DEF QueryDuplicates, QueryFault
<1>3. ASSUME NEW i \in Id, DeleteDuplicate(p, i) \/ DeleteFault(p, i)
      PROVE  \E r : Moves(p, r)
  BY <1>1, <1>3, CleaningMoves DEF DeleteDuplicate, DeleteFault
<1> QED  BY <1>2, <1>3 DEF Cleaned

LEMMA WroteMoves ==
  ASSUME TypeOK, StepsFit, NEW p \in Process, Wrote(p)
  PROVE  \E r : Moves(p, r)
<1>1. CASE Upsert(p)
  BY <1>1, GotoMoves, EndMoves DEF Upsert
<1>2. CASE UpsertFault(p)
  <2>1. proc[p].op \in Op
    BY ProcFields DEF Proc
  <2>2. CASE proc[p].op = "webhook"
    <3> DEFINE r == [proc[p] EXCEPT !.pc = "enqueue", !.entry = faults']
    <3>1. faults' \in 1..MaxFaults /\ faults' \in Nat
      BY <1>2 DEF UpsertFault, MayFault, TypeOK
    <3>2. r \in Proc
      BY <3>1, ProcFields DEF Proc
    <3>3. Fits(r)
      BY <3>1, <3>2, ProcFields DEF Fits, Proc, Marking
    <3> QED  BY <1>2, <2>2, <3>2, <3>3 DEF UpsertFault, AfterFault, Moves, TypeOK
  <2>3. CASE proc[p].op = "retry"
    BY <1>2, <2>3, GotoMoves DEF UpsertFault, AfterFault
  <2>4. CASE proc[p].op = "sync"
    BY <1>2, <2>4, EndMoves DEF UpsertFault, AfterFault
  <2> QED  BY <2>1, <2>2, <2>3, <2>4 DEF Op
<1> QED  BY <1>1, <1>2 DEF Wrote

LEMMA ProcessMoves ==
  ASSUME TypeOK, StepsFit, NEW p \in Process, Started(p) \/ Step(p) \/ Fault(p)
  PROVE  (\E r : Moves(p, r)) /\ history' = history
<1>1. Started(p) \/ Marked(p) \/ Looked(p) \/ Cleaned(p) \/ Wrote(p) \/ Queued(p)
         \/ Crash(p)
  BY DEF Step, PersistStep, Fault, Marked, Looked, Cleaned, Wrote, Queued
<1>2. ASSUME Queued(p) \/ Crash(p)
      PROVE  \E r : Moves(p, r)
  <2>1. End(p)
    BY <1>2 DEF Queued, EnqueueDlq, DeleteDlqEntry, Crash
  <2> QED  BY <2>1, EndMoves
<1>3. \E r : Moves(p, r)
  BY <1>1, <1>2, StartedMoves, MarkedMoves, LookedMoves, CleanedMoves,
     WroteMoves
<1>4. history' = history
  BY <1>1 DEF Started, Deliver, Sync, Poll, Retry, Marked, MarkCreate, MarkLook,
     MarkDelete, MarkFault, Looked, FindNone, FindDraft, FindFault, Cleaned,
     QueryDuplicates, QueryFault, DeleteDuplicate, DeleteFault, Wrote, Upsert,
     UpsertFault, Queued, EnqueueDlq, DeleteDlqEntry, Crash, orderVars
<1> QED  BY <1>3, <1>4

-----------------------------------------------------------------------------
(***************************************************************************)
(* The id a draft is written under, and the row of it.                     *)
(***************************************************************************)
LEMMA MinOfIds ==
  ASSUME NEW S \in SUBSET Id, S # {}
  PROVE  Min(S) \in S
<1>1. S \subseteq Nat
  BY DEF Id
<1> DEFINE R == OpToRel(<, Nat)
<1>2. \E m \in S : \A k \in S : ~(<<k, m>> \in R)
  <2>1. IsWellFoundedOn(R, Nat)
    BY NatLessThanWellFounded
  <2> HIDE DEF R
  <2> QED  BY <1>1, <2>1, WFMin
<1>3. \A m, k \in S : k < m => <<k, m>> \in R
  BY <1>1 DEF OpToRel
<1>4. \E m \in S : \A k \in S : m =< k
  <2> HIDE DEF R
  <2>1. PICK m \in S : \A k \in S : ~(<<k, m>> \in R)
    BY <1>2
  <2>2. ASSUME NEW k \in S PROVE m =< k
    <3>1. ~(k < m)
      BY <1>3, <2>1
    <3> QED  BY <1>1, <3>1
  <2> QED  BY <2>2
<1> QED  BY <1>4 DEF Min

\* where a write goes, and what it leaves there
Writes(p, t, d) ==
    /\ t \in Id /\ d \in Draft
    /\ DOMAIN rows' = DOMAIN rows \cup {t}
    /\ \A i \in DOMAIN rows' : rows'[i] = IF i = t THEN d ELSE rows[i]
    /\ causes \subseteq causes'
    /\ proc[p].id = 0 => t \notin DOMAIN rows /\ labels[t] = 0 /\ runner[t] = "idle"
    /\ proc[p].id # 0 =>
          /\ t = proc[p].id
          /\ \/ "overwritten" \in causes'
             \/ /\ t \in DOMAIN rows /\ d.shipments = rows[t].shipments
                /\ d.started = rows[t].started
                /\ \/ d.status = rows[t].status
                   \/ rows[t].status \notin {"executing", "created", "cancelled"}

LEMMA WrittenWrites ==
  ASSUME TypeOK, StepsFit, NEW p \in Process, Written(p)
  PROVE  Writes(p, Target(p), Record(p))
<1>1. Built[history][proc[p].ver] \in Draft /\ proc[p].copy \in Draft
      /\ proc[p].id \in Id \cup {0}
  BY ProcFields, VersionsFacts DEF Fits, TypeOK, Proc
<1>2. Record(p) \in Draft
  BY <1>1, MergeTyped DEF Record
<1>3. ASSUME proc[p].id = 0
      PROVE  /\ Target(p) \notin DOMAIN rows /\ labels[Target(p)] = 0
             /\ runner[Target(p)] = "idle"
  <2>1. Target(p) # 0
    BY DEF Written, Id
  <2>2. Target(p) = Min(FreeIds) /\ FreeIds # {}
    BY <1>3, <2>1 DEF Target
  <2>3. Target(p) \in FreeIds
    BY <2>2, MinOfIds DEF FreeIds
  <2> QED  BY <2>3 DEF FreeIds
<1>4. ASSUME proc[p].id # 0, Current(p)
      PROVE  /\ Target(p) \in DOMAIN rows
             /\ Record(p).shipments = rows[Target(p)].shipments
             /\ Record(p).started = rows[Target(p)].started
             /\ \/ Record(p).status = rows[Target(p)].status
                \/ rows[Target(p)].status \notin {"executing", "created", "cancelled"}
  <2> DEFINE old == rows[Target(p)]
             new == Built[history][proc[p].ver]
  <2>1. Target(p) \in DOMAIN rows /\ old = proc[p].copy
    BY <1>4 DEF Target, Current
  <2>2. Record(p) = Merge(old, new)
    BY <1>4, <2>1 DEF Record
  <2>3. /\ Record(p).shipments = old.shipments /\ Record(p).started = old.started
        /\ Record(p).status = MergedStatus(old, new)
    BY <1>1, <2>1, <2>2, MergeTyped
  <2>4. old.status \in {"executing", "created", "cancelled"}
           => MergedStatus(old, new) = old.status
    BY DEF MergedStatus, SYNC_TERMINAL_STATUSES, SYNC_BUSY_STATUSES
  <2> QED  BY <2>1, <2>3, <2>4
<1>5. /\ Target(p) \in Id /\ causes \subseteq causes'
      /\ DOMAIN rows' = DOMAIN rows \cup {Target(p)}
      /\ \A i \in DOMAIN rows' : rows'[i] = IF i = Target(p) THEN Record(p)
                                            ELSE rows[i]
      /\ proc[p].id # 0 /\ ~Current(p) => "overwritten" \in causes'
  BY DEF Written
<1>6. proc[p].id # 0 => Target(p) = proc[p].id
  BY DEF Target
<1> QED  BY <1>2, <1>3, <1>4, <1>5, <1>6 DEF Writes

\* what no process touches but by its own step
Tables ==
    /\ seen \in [WebhookId -> {"none", "fresh", "expired"}]
    /\ DOMAIN rows \subseteq Id /\ \A i \in DOMAIN rows : rows[i] \in Draft
    /\ runner \in [Id -> {"idle", "run", "patch"}]
    /\ labels \in [Id -> Nat]
    /\ dlq \subseteq 1..MaxFaults
    /\ accepted \in [WebhookId -> Nat]
    /\ ops \in 0..MaxOps /\ faults \in 0..MaxFaults
    /\ causes \subseteq Cause

LEMMA TablesType ==
  ASSUME TypeOK, StepsFit, NEW p \in Process, Started(p) \/ Step(p) \/ Fault(p)
  PROVE  Tables' /\ UNCHANGED orderVars
<1>1. Tables
  BY DEF Tables, TypeOK
<1>2. proc[p] \in Proc /\ Fits(proc[p])
  BY ProcFields
<1>3. /\ Counted => ops' \in 0..MaxOps
      /\ MayFault => faults' \in 0..MaxFaults
  BY <1>1 DEF Counted, MayFault, Tables
<1>4. CASE Started(p)
  BY <1>1, <1>3, <1>4 DEF Started, Deliver, Sync, Poll, Retry, Unstored, Tables,
     tableVars, courierVars, orderVars, bounds
<1>5. CASE Marked(p)
  <2>1. CASE Inserted(p) /\ MarkCreate(p)
    BY <1>1, <1>2, <2>1 DEF MarkCreate, Inserted, Fits, Marking, Tables,
       courierVars, orderVars, bounds, Cause
  <2>2. CASE MarkCreate(p) /\ UNCHANGED <<seen, accepted, causes>>
    BY <1>1, <2>2 DEF MarkCreate, Tables, courierVars, orderVars, bounds
  <2>3. CASE MarkLook(p)
    BY <1>1, <2>3 DEF MarkLook, Unstored, Tables, tableVars, courierVars,
       orderVars, bounds
  <2>4. CASE MarkDelete(p)
    BY <1>1, <1>2, <2>4 DEF MarkDelete, Fits, Marking, Tables, courierVars,
       orderVars, bounds
  <2>5. CASE MarkFault(p)
    BY <1>1, <1>2, <1>3, <2>5 DEF MarkFault, Fits, Marking, Tables, courierVars,
       orderVars, Cause
  <2> QED  BY <1>5, <2>1, <2>2, <2>3, <2>4, <2>5 DEF Marked, MarkCreate
<1>6. CASE Looked(p)
  BY <1>1, <1>3, <1>6 DEF Looked, FindNone, FindDraft, FindFault, Unstored,
     Tables, tableVars, courierVars, orderVars, bounds
<1>7. CASE Cleaned(p)
  <2>1. CASE QueryDuplicates(p) \/ QueryFault(p)
    BY <1>1, <1>3, <2>1 DEF QueryDuplicates, QueryFault, Overlap, Unstored,
       Tables, tableVars, courierVars, orderVars, bounds, Cause
  <2>2. ASSUME NEW i \in Id, DeleteDuplicate(p, i)
        PROVE  Tables' /\ UNCHANGED orderVars
    BY <1>1, <2>2 DEF DeleteDuplicate, Restrict, Tables, courierVars, orderVars,
       bounds, Cause
  <2>3. ASSUME NEW i \in Id, DeleteFault(p, i)
        PROVE  Tables' /\ UNCHANGED orderVars
    BY <1>1, <1>3, <2>3 DEF DeleteFault, Unstored, Tables, tableVars,
       courierVars, orderVars, Cause
  <2> QED  BY <1>7, <2>1, <2>2, <2>3 DEF Cleaned
<1>8. CASE Wrote(p)
  <2>1. ASSUME Written(p)
        PROVE  /\ DOMAIN rows' \subseteq Id
               /\ \A i \in DOMAIN rows' : rows'[i] \in Draft
               /\ causes' \subseteq Cause
    <3>1. Writes(p, Target(p), Record(p))
      BY <2>1, WrittenWrites
    <3>2. causes' \subseteq Cause
      BY <1>1, <2>1 DEF Written, Tables, Cause
    <3> QED  BY <1>1, <3>1, <3>2 DEF Writes, Tables
  <2>2. CASE Upsert(p)
    BY <1>1, <2>1, <2>2 DEF Upsert, Tables, courierVars, orderVars, bounds
  <2>3. CASE UpsertFault(p)
    <3>1. /\ DOMAIN rows' \subseteq Id
          /\ \A i \in DOMAIN rows' : rows'[i] \in Draft
          /\ causes' \subseteq Cause
      BY <1>1, <2>1, <2>3 DEF UpsertFault, Tables, Cause
    <3> QED  BY <1>1, <1>3, <2>3, <3>1 DEF UpsertFault, Tables, courierVars,
             orderVars
  <2> QED  BY <1>8, <2>2, <2>3 DEF Wrote
<1>9. CASE Queued(p)
  <2>1. CASE EnqueueDlq(p)
    BY <1>1, <1>2, <1>3, <2>1 DEF EnqueueDlq, Fits, Tables, courierVars,
       orderVars, Cause
  <2>2. CASE DeleteDlqEntry(p)
    BY <1>1, <1>3, <2>2 DEF DeleteDlqEntry, Tables, courierVars, orderVars
  <2> QED  BY <1>9, <2>1, <2>2 DEF Queued
<1>10. CASE Crash(p)
  BY <1>1, <1>3, <1>10 DEF Crash, Unstored, Tables, tableVars, courierVars,
     orderVars, Cause
<1> QED  BY <1>4, <1>5, <1>6, <1>7, <1>8, <1>9, <1>10 DEF Step, PersistStep,
         Fault, Marked, Looked, Cleaned, Wrote, Queued

\* what happens outside the processes
Elsewhere ==
    \/ OrderChanges
    \/ \E w \in WebhookId : MarkExpires(w)
    \/ \E entry \in dlq : Discard(entry)
    \/ \E i \in Id : Execute(i) \/ Execution(i)

LEMMA RowMoves ==
  ASSUME TypeOK, NEW i \in Id, Execute(i) \/ Execution(i)
  PROVE  /\ DOMAIN rows' = DOMAIN rows
         /\ \A j \in DOMAIN rows' : rows'[j] \in Draft
<1>1. \A j \in DOMAIN rows : rows[j] \in Draft
  BY DEF TypeOK
<1>2. "executing" \in Status /\ "error" \in Status /\ TRUE \in BOOLEAN
  BY DEF Status
<1>3. CASE Execute(i)
  <2>1. i \in DOMAIN rows
    BY <1>3 DEF Execute
  <2>2. [rows[i] EXCEPT !.status = "executing", !.started = TRUE] \in Draft
    BY <1>1, <1>2, <2>1, DraftMoves
  <2> QED  BY <1>1, <1>3, <2>2 DEF Execute
<1>4. ASSUME NEW status \in Status, RecordLabel(i, status)
      PROVE  /\ DOMAIN rows' = DOMAIN rows
             /\ \A j \in DOMAIN rows' : rows'[j] \in Draft
  <2>1. CASE i \in DOMAIN rows
    <3> DEFINE tracking == IF status = "created" THEN "ours" ELSE rows[i].tracking
    <3>1. labels[i] \in Nat /\ tracking \in TrackingField
      BY <1>1, <2>1 DEF TypeOK, Draft, TrackingField
    <3>2. [rows[i] EXCEPT !.shipments = labels[i], !.draftId = TRUE,
             !.status = status, !.tracking = tracking] \in Draft
      <4> HIDE DEF tracking
      <4> QED  BY <1>1, <2>1, <3>1, DraftMoves
    <3> QED  BY <1>1, <1>4, <2>1, <3>2 DEF RecordLabel
  <2>2. CASE i \notin DOMAIN rows
    BY <1>1, <1>4, <2>2 DEF RecordLabel
  <2> QED  BY <2>1, <2>2
<1>5. CASE ExecutionFails(i)
  <2>1. ASSUME i \in DOMAIN rows
        PROVE  [rows[i] EXCEPT !.status = "error", !.error = TRUE] \in Draft
    BY <1>1, <1>2, <2>1, DraftMoves
  <2> QED  BY <1>1, <1>5, <2>1 DEF ExecutionFails
<1>6. CASE BuyLabel(i)
  BY <1>1, <1>6 DEF BuyLabel, tableVars
<1> QED  BY <1>3, <1>4, <1>5, <1>6 DEF Execution

LEMMA ElsewhereType ==
  ASSUME TypeOK, StepsFit, Elsewhere
  PROVE  TypeOK' /\ StepsFit'
<1>1. Tables /\ history \in DOMAIN Histories /\ version \in DOMAIN Versions
      /\ proc \in [Process -> Proc]
  BY DEF Tables, TypeOK
<1>2. history' = history /\ proc' = proc
  BY DEF Elsewhere, OrderChanges, MarkExpires, Discard, Execute, Execution,
     BuyLabel, RecordLabel, ExecutionFails, orderVars
<1>3. StepsFit'
  BY <1>2 DEF StepsFit, Fits, Versions
<1>4. version' \in DOMAIN Versions'
  <2>1. Versions' = Versions
    BY <1>2 DEF Versions
  <2>2. CASE OrderChanges
    BY <1>1, <2>1, <2>2, VersionsFacts DEF OrderChanges
  <2>3. CASE version' = version
    BY <1>1, <2>1, <2>3
  <2>4. OrderChanges \/ version' = version
    BY DEF Elsewhere, MarkExpires, Discard, Execute, Execution, BuyLabel,
       RecordLabel, ExecutionFails, orderVars
  <2> QED  BY <2>2, <2>3, <2>4
<1>5. Tables'
  <2>1. CASE OrderChanges
    BY <1>1, <2>1 DEF OrderChanges, Tables, tableVars, courierVars, bounds
  <2>2. ASSUME NEW w \in WebhookId, MarkExpires(w)
        PROVE  Tables'
    BY <1>1, <2>2 DEF MarkExpires, Tables, courierVars, bounds
  <2>3. ASSUME NEW entry \in dlq, Discard(entry)
        PROVE  Tables'
    BY <1>1, <2>3 DEF Discard, Tables, courierVars, bounds, Cause
  <2>4. ASSUME NEW i \in Id, Execute(i) \/ Execution(i)
        PROVE  Tables'
    <3>1. /\ DOMAIN rows' \subseteq Id
          /\ \A j \in DOMAIN rows' : rows'[j] \in Draft
      BY <1>1, <2>4, RowMoves DEF Tables
    <3>2. /\ runner' \in [Id -> {"idle", "run", "patch"}]
          /\ labels' \in [Id -> Nat]
      <4>1. CASE Execute(i)
        BY <1>1, <4>1 DEF Execute, Tables
      <4>2. CASE BuyLabel(i)
        BY <1>1, <4>2 DEF BuyLabel, Tables
      <4>3. CASE ExecutionFails(i) \/ \E status \in Status : RecordLabel(i, status)
        BY <1>1, <4>3 DEF ExecutionFails, RecordLabel, Tables
      <4> QED  BY <2>4, <4>1, <4>2, <4>3 DEF Execution
    <3>3. UNCHANGED <<seen, dlq, accepted, causes, ops, faults>>
      BY <2>4 DEF Execute, Execution, BuyLabel, RecordLabel, ExecutionFails,
         tableVars, bounds
    <3> QED  BY <1>1, <3>1, <3>2, <3>3 DEF Tables
  <2> QED  BY <2>1, <2>2, <2>3, <2>4 DEF Elsewhere
<1> QED  BY <1>1, <1>2, <1>3, <1>4, <1>5 DEF TypeOK, Tables

LEMMA NextCases ==
  ASSUME Next
  PROVE  \/ Elsewhere
         \/ \E p \in Process : Started(p) \/ Step(p) \/ Fault(p)
BY DEF Next, Elsewhere, Started

LEMMA TypeStep == TypeOK /\ StepsFit /\ [Next]_vars => TypeOK' /\ StepsFit'
<1> SUFFICES ASSUME TypeOK, StepsFit, [Next]_vars
             PROVE  TypeOK' /\ StepsFit'
  OBVIOUS
<1>1. CASE UNCHANGED vars
  BY <1>1 DEF vars, TypeOK, StepsFit, Fits, Versions
<1>2. ASSUME NEW p \in Process, Started(p) \/ Step(p) \/ Fault(p)
      PROVE  TypeOK' /\ StepsFit'
  <2>1. Tables' /\ UNCHANGED orderVars
    BY <1>2, TablesType
  <2>2. proc' \in [Process -> Proc] /\ StepsFit'
    BY <1>2, ProcessMoves, MovesType
  <2>3. history' \in DOMAIN Histories /\ version' \in DOMAIN Versions'
    BY <2>1 DEF orderVars, TypeOK, Versions
  <2> QED  BY <2>1, <2>2, <2>3 DEF TypeOK, Tables
<1> QED  BY <1>1, <1>2, NextCases, ElsewhereType

(***************************************************************************)
(* Drafts are rows the builders can produce, failures are filed with their *)
(* order, and every handler is at a step of its own (ingestion.py:258,     *)
(* shipping_draft_composition.py:593).                                     *)
(***************************************************************************)
THEOREM IngestionTypeCorrect == Spec => []TypeOK
<1>1. Init => TypeOK /\ StepsFit
  BY TypeInit
<1>2. TypeOK /\ StepsFit /\ [Next]_vars => TypeOK' /\ StepsFit'
  BY TypeStep
<1> QED  BY <1>1, <1>2, PTL DEF Spec

-----------------------------------------------------------------------------
(***************************************************************************)
(* What a process does to the drafts: nothing, it deletes one, or writes   *)
(* one (shipping_store.py:197).                                            *)
(***************************************************************************)
Deletes(i) == /\ DOMAIN rows' = DOMAIN rows \ {i}
              /\ \A j \in DOMAIN rows' : rows'[j] = rows[j]
              /\ Executed(i) => "replaced" \in causes'

RowsChange(p) == \/ rows' = rows
                 \/ \E i \in Id : Deletes(i)
                 \/ \E t \in Id, d \in Draft : Writes(p, t, d)

LEMMA ProcessRows ==
  ASSUME TypeOK, StepsFit, NEW p \in Process, Started(p) \/ Step(p) \/ Fault(p)
  PROVE  /\ RowsChange(p) /\ causes \subseteq causes'
         /\ UNCHANGED <<runner, labels>>
<1>1. CASE Started(p) \/ Marked(p) \/ Looked(p) \/ Queued(p) \/ Crash(p)
  BY <1>1 DEF Started, Deliver, Sync, Poll, Retry, Marked, MarkCreate, Inserted,
     MarkLook, MarkDelete, MarkFault, Looked, FindNone, FindDraft, FindFault,
     Queued, EnqueueDlq, DeleteDlqEntry, Crash, Unstored, tableVars, courierVars,
     RowsChange
<1>2. CASE Cleaned(p)
  <2>1. CASE QueryDuplicates(p) \/ QueryFault(p)
    BY <2>1 DEF QueryDuplicates, QueryFault, Unstored, tableVars, courierVars,
       RowsChange
  <2>2. ASSUME NEW i \in Id, DeleteDuplicate(p, i)
        PROVE  /\ RowsChange(p) /\ causes \subseteq causes'
               /\ UNCHANGED <<runner, labels>>
    BY <2>2 DEF DeleteDuplicate, Restrict, Deletes, courierVars, RowsChange
  <2>3. ASSUME NEW i \in Id, DeleteFault(p, i)
        PROVE  /\ RowsChange(p) /\ causes \subseteq causes'
               /\ UNCHANGED <<runner, labels>>
    BY <2>3 DEF DeleteFault, Unstored, tableVars, courierVars, RowsChange
  <2> QED  BY <1>2, <2>1, <2>2, <2>3 DEF Cleaned
<1>3. CASE Wrote(p)
  <2>1. UNCHANGED <<runner, labels>> /\ (Written(p) \/ rows' = rows)
    BY <1>3 DEF Wrote, Upsert, UpsertFault, courierVars
  <2>2. CASE Written(p)
    BY <2>1, <2>2, WrittenWrites DEF Writes, RowsChange
  <2>3. CASE rows' = rows /\ ~Written(p)
    BY <1>3, <2>1, <2>3 DEF Wrote, Upsert, UpsertFault, RowsChange
  <2> QED  BY <2>1, <2>2, <2>3
<1> QED  BY <1>1, <1>2, <1>3 DEF Step, PersistStep, Fault, Marked, Looked,
         Cleaned, Wrote, Queued

LEMMA CausesGrow ==
  ASSUME TypeOK, StepsFit, [Next]_vars
  PROVE  causes \subseteq causes'
<1>1. CASE Elsewhere
  BY <1>1 DEF Elsewhere, OrderChanges, MarkExpires, Discard, Execute, Execution,
     BuyLabel, RecordLabel, ExecutionFails
<1> QED  BY <1>1, ProcessRows, NextCases DEF vars

(***************************************************************************)
(* Runs.  A sync may write what it read before a draft was executed, and a *)
(* creation may delete an executed draft: these are the two excuses.       *)
(***************************************************************************)
LEMMA RunsStep ==
  ASSUME TypeOK, StepsFit, RunsExecute, RunsAreTold, [Next]_vars
  PROVE  RunsExecute' /\ RunsAreTold'
<1>1. DOMAIN rows \subseteq Id
  BY DEF TypeOK
<1>2. CASE UNCHANGED <<rows, runner, labels>> /\ causes \subseteq causes'
  BY <1>2 DEF RunsExecute, RunsAreTold, Excused
<1>3. ASSUME NEW p \in Process, Started(p) \/ Step(p) \/ Fault(p)
      PROVE  RunsExecute' /\ RunsAreTold'
  <2>1. /\ RowsChange(p) /\ causes \subseteq causes'
        /\ UNCHANGED <<runner, labels>>
    BY <1>3, ProcessRows
  <2>2. ASSUME NEW i \in Id, Deletes(i)
        PROVE  RunsExecute' /\ RunsAreTold'
    <3>1. RunsExecute'
      BY <2>1, <2>2 DEF RunsExecute, Deletes, Excused
    <3>2. \/ "replaced" \in causes'
          \/ ~(i \in DOMAIN rows /\ (rows[i].started \/ rows[i].shipments > 0))
      BY <2>2 DEF Deletes, Executed
    <3>3. labels \in [Id -> Nat]
      BY DEF TypeOK
    <3>4. RunsAreTold'
      BY <2>1, <2>2, <3>2, <3>3 DEF RunsAreTold, Deletes, Excused
    <3> QED  BY <3>1, <3>4
  <2>3. ASSUME NEW t \in Id, NEW d \in Draft, Writes(p, t, d)
        PROVE  RunsExecute' /\ RunsAreTold'
    <3>1. RunsExecute'
      BY <2>1, <2>3 DEF RunsExecute, Writes, Excused
    <3>2. RunsAreTold'
      BY <2>1, <2>3 DEF RunsAreTold, Writes, Excused
    <3> QED  BY <3>1, <3>2
  <2> QED  BY <1>2, <2>1, <2>2, <2>3 DEF RowsChange
<1>4. ASSUME NEW i \in Id, Execute(i)
      PROVE  RunsExecute' /\ RunsAreTold'
  <2>1. RunsExecute'
    BY <1>1, <1>4 DEF Execute, RunsExecute, Excused, TypeOK
  <2>2. RunsAreTold'
    BY <1>1, <1>4 DEF Execute, RunsAreTold, Excused, TypeOK
  <2> QED  BY <2>1, <2>2
<1>5. ASSUME NEW i \in Id, BuyLabel(i)
      PROVE  RunsExecute' /\ RunsAreTold'
  BY <1>5 DEF BuyLabel, RunsExecute, RunsAreTold, Excused, TypeOK, tableVars
<1>6. ASSUME NEW i \in Id, NEW status \in Status, RecordLabel(i, status)
      PROVE  RunsExecute' /\ RunsAreTold'
  <2>1. RunsExecute'
    BY <1>6 DEF RecordLabel, RunsExecute, Excused, TypeOK
  <2>2. RunsAreTold'
    BY <1>6 DEF RecordLabel, RunsAreTold, Excused, TypeOK
  <2> QED  BY <2>1, <2>2
<1>7. ASSUME NEW i \in Id, ExecutionFails(i)
      PROVE  RunsExecute' /\ RunsAreTold'
  <2>1. RunsExecute'
    BY <1>7 DEF ExecutionFails, RunsExecute, Excused, TypeOK
  <2>2. RunsAreTold'
    BY <1>7 DEF ExecutionFails, RunsAreTold, Excused, TypeOK
  <2> QED  BY <2>1, <2>2
<1>8. CASE UNCHANGED vars
  BY <1>2, <1>8 DEF vars
<1>9. CASE Elsewhere
  <2>1. CASE \/ OrderChanges
             \/ \E w \in WebhookId : MarkExpires(w)
             \/ \E entry \in dlq : Discard(entry)
    BY <1>2, <2>1 DEF OrderChanges, MarkExpires, Discard, tableVars, courierVars
  <2> QED  BY <1>4, <1>5, <1>6, <1>7, <1>9, <2>1 DEF Elsewhere, Execution
<1> QED  BY <1>3, <1>8, <1>9, NextCases

LEMMA FinalStep ==
  ASSUME TypeOK, StepsFit, RunsExecute, [Next]_vars,
         NEW i \in DOMAIN rows \cap DOMAIN rows',
         rows[i].status \in {"created", "cancelled"},
         rows'[i].status # rows[i].status
  PROVE  "overwritten" \in causes'
<1>1. rows' # rows
  OBVIOUS
<1>2. ASSUME NEW p \in Process, Started(p) \/ Step(p) \/ Fault(p)
      PROVE  "overwritten" \in causes'
  <2>1. RowsChange(p)
    BY <1>2, ProcessRows
  <2>2. PICK t \in Id, d \in Draft : Writes(p, t, d)
    BY <1>1, <2>1 DEF RowsChange, Deletes
  <2>3. i = t /\ proc[p].id # 0
    BY <2>2 DEF Writes
  <2> QED  BY <2>2, <2>3 DEF Writes
<1>3. CASE Elsewhere
  <2>1. PICK j \in Id : Execute(j) \/ Execution(j)
    BY <1>1, <1>3 DEF Elsewhere, OrderChanges, MarkExpires, Discard, tableVars
  <2>2. ~Execute(j)
    BY DEF Execute, EXECUTABLE_STATES, TypeOK
  <2>3. ~BuyLabel(j) /\ ~ExecutionFails(j)
    BY DEF BuyLabel, ExecutionFails, tableVars, TypeOK
  <2>4. PICK status : RecordLabel(j, status)
    BY <2>1, <2>2, <2>3 DEF Execution
  <2>5. i = j /\ runner[i] # "idle" /\ causes' = causes
    BY <2>4 DEF RecordLabel, TypeOK
  <2> QED  BY <2>5 DEF RunsExecute, Excused
<1> QED  BY <1>1, <1>2, <1>3, NextCases DEF vars

RunInv == TypeOK /\ StepsFit /\ RunsExecute /\ RunsAreTold

LEMMA RunInit == Init => RunInv
<1> SUFFICES ASSUME Init PROVE RunInv
  OBVIOUS
<1>1. RunsExecute /\ RunsAreTold
  BY DEF Init, RunsExecute, RunsAreTold
<1> QED  BY <1>1, TypeInit DEF RunInv

(***************************************************************************)
(* A label that was bought stays on record: no sync, no redelivery and no  *)
(* retry drops the draft or the shipment it carries, short of a draft      *)
(* replaced or overwritten (drafts.py:289).                                *)
(***************************************************************************)
THEOREM LabelsAreKnownHolds == Spec => []LabelsAreKnown
<1>1. RunInv /\ [Next]_vars => RunInv'
  BY TypeStep, RunsStep DEF RunInv
<1>2. RunInv => LabelsAreKnown
  BY DEF RunInv, RunsAreTold, LabelsAreKnown
<1> QED  BY RunInit, <1>1, <1>2, PTL DEF Spec

(***************************************************************************)
(* No sync makes a finished or cancelled draft executable again, unless it *)
(* writes over what it has not read (drafts.py:166).                       *)
(***************************************************************************)
THEOREM FinalStaysHolds == Spec => FinalStays
<1> DEFINE Stays == \A i \in DOMAIN rows \cap DOMAIN rows' :
                       rows[i].status \in {"created", "cancelled"}
                          /\ rows'[i].status # rows[i].status
                       => "overwritten" \in causes'
<1>1. RunInv /\ [Next]_vars => RunInv'
  BY TypeStep, RunsStep DEF RunInv
<1>2. RunInv /\ [Next]_vars => [Stays]_vars
  BY FinalStep DEF RunInv
<1> QED  BY RunInit, <1>1, <1>2, PTL DEF Spec, FinalStays

-----------------------------------------------------------------------------
(***************************************************************************)
(* Marks of deliveries.                                                    *)
(***************************************************************************)
LEMMA ProcEdits ==
  ASSUME TypeOK, NEW p \in Process
  PROVE  /\ \A pc : Goto(p, pc) =>
               \A q \in Process :
                  proc'[q] = IF q = p THEN [proc[p] EXCEPT !.pc = pc] ELSE proc[q]
         /\ End(p) => \A q \in Process :
                         proc'[q] = IF q = p THEN IdleProc ELSE proc[q]
BY DEF TypeOK, Goto, End

\* a step that is not about marks sends nobody to delete one
Unmarked(p) == /\ UNCHANGED <<seen, accepted>> /\ causes \subseteq causes'
               /\ \A q \in Process : q # p => proc'[q] = proc[q]
               /\ proc'[p].pc # "delete"

LEMMA StartedUnmarked ==
  ASSUME TypeOK, NEW p \in Process, Started(p)
  PROVE  Unmarked(p)
<1>1. ASSUME NEW op, NEW pc \in {"create", "persist", "find"}, NEW wid, NEW ver,
             NEW entry, Start(p, op, pc, wid, ver, entry)
      PROVE  /\ \A q \in Process : q # p => proc'[q] = proc[q]
             /\ proc'[p].pc # "delete"
  BY <1>1 DEF Start, TypeOK, IdleProc
<1>2. ASSUME NEW w \in WebhookId \cup {"none"}, Deliver(p, w) PROVE Unmarked(p)
  BY <1>1, <1>2 DEF Deliver, Unstored, tableVars, Unmarked
<1>3. CASE Sync(p) \/ Poll(p)
  BY <1>1, <1>3 DEF Sync, Poll, Unstored, tableVars, Unmarked
<1>4. ASSUME NEW entry \in dlq, Retry(p, entry) PROVE Unmarked(p)
  BY <1>1, <1>4 DEF Retry, Unstored, tableVars, Unmarked
<1> QED  BY <1>2, <1>3, <1>4 DEF Started

LEMMA WorkUnmarked ==
  ASSUME TypeOK, StepsFit, NEW p \in Process,
         Looked(p) \/ Cleaned(p) \/ Wrote(p) \/ Queued(p) \/ Crash(p)
  PROVE  Unmarked(p)
<1>1. End(p) => /\ \A q \in Process : q # p => proc'[q] = proc[q]
                /\ proc'[p].pc # "delete"
  BY ProcEdits DEF IdleProc
<1>2. \A pc : Goto(p, pc) /\ pc # "delete" =>
                /\ \A q \in Process : q # p => proc'[q] = proc[q]
                /\ proc'[p].pc # "delete"
  BY DEF Goto, TypeOK, Proc
<1>3. \A dups : Cleaning(p, dups) =>
                /\ \A q \in Process : q # p => proc'[q] = proc[q]
                /\ proc'[p].pc # "delete"
  BY DEF Cleaning, TypeOK, Proc
<1>4. CASE Looked(p)
  <2>1. ASSUME NEW i \in Id, FindDraft(p, i) PROVE Unmarked(p)
    BY <1>1, <2>1 DEF FindDraft, Unstored, tableVars, Unmarked, TypeOK, Proc
  <2>2. CASE FindNone(p) \/ FindFault(p)
    BY <1>1, <1>2, <2>2 DEF FindNone, FindFault, Unstored, tableVars, Unmarked
  <2> QED  BY <1>4, <2>1, <2>2 DEF Looked
<1>5. CASE Cleaned(p)
  BY <1>3, <1>5 DEF Cleaned, QueryDuplicates, QueryFault, DeleteDuplicate,
     DeleteFault, Unstored, tableVars, Unmarked
<1>6. CASE Wrote(p)
  <2>1. UNCHANGED <<seen, accepted>> /\ causes \subseteq causes'
    BY <1>6 DEF Wrote, Upsert, UpsertFault, Written
  <2>2. CASE Upsert(p)
    BY <1>1, <1>2, <2>1, <2>2 DEF Upsert, Unmarked
  <2>3. CASE UpsertFault(p)
    <3>1. CASE proc[p].op = "webhook"
      BY <2>1, <2>3, <3>1 DEF UpsertFault, AfterFault, Unmarked, TypeOK, Proc
    <3>2. CASE proc[p].op # "webhook"
      BY <1>1, <1>2, <2>1, <2>3, <3>2 DEF UpsertFault, AfterFault, Unmarked
    <3> QED  BY <3>1, <3>2
  <2> QED  BY <1>6, <2>2, <2>3 DEF Wrote
<1>7. CASE Queued(p) \/ Crash(p)
  BY <1>1, <1>7 DEF Queued, EnqueueDlq, DeleteDlqEntry, Crash, Unstored,
     tableVars, Unmarked
<1> QED  BY <1>4, <1>5, <1>6, <1>7

LEMMA MarksInit == Init => MarksCount
BY DEF Init, MarksCount, IdleProc

\* MarksCount where nothing of it is excused
Counts == /\ \A w \in WebhookId : /\ accepted[w] <= 1
                                  /\ seen[w] # "fresh" => accepted[w] = 0
          /\ \A p \in Process : proc[p].pc = "delete" => accepted[proc[p].wid] = 0

LEMMA MarkedCounts ==
  ASSUME TypeOK, StepsFit, Counts, NEW p \in Process, Marked(p)
  PROVE  "expiry_race" \in causes' \/ Counts'
<1>1. /\ seen \in [WebhookId -> {"none", "fresh", "expired"}]
      /\ accepted \in [WebhookId -> Nat]
      /\ proc[p].pc \in Marking => proc[p].wid \in WebhookId
      /\ \A q \in Process : proc[q].pc = "delete" => proc[q].wid \in WebhookId
  BY DEF TypeOK, StepsFit, Fits, Marking
<1>2. CASE proc[p].pc \in {"create", "again"} /\ seen[proc[p].wid] = "none"
           /\ Inserted(p)
  <2> DEFINE w == proc[p].wid
  <2>1. w \in WebhookId /\ accepted[w] = 0
    BY <1>1, <1>2 DEF Counts, Marking
  <2>2. /\ \A v \in WebhookId : accepted'[v] = IF v = w THEN 1 ELSE accepted[v]
        /\ \A v \in WebhookId : seen'[v] = IF v = w THEN "fresh" ELSE seen[v]
    BY <1>1, <1>2, <2>1 DEF Inserted
  <2>3. /\ proc'[p].pc = "persist"
        /\ \A q \in Process : q # p => proc'[q] = proc[q]
    BY <1>2 DEF Inserted, TypeOK, Proc
  <2>4. CASE Racing(p)
    BY <1>2, <2>4 DEF Inserted
  <2>5. CASE ~Racing(p)
    <3>1. \A q \in Process : proc'[q].pc = "delete" =>
             /\ proc'[q] = proc[q] /\ proc[q].wid \in WebhookId
             /\ proc[q].wid # w
      BY <1>1, <2>3, <2>5 DEF Racing
    <3> QED  BY <2>1, <2>2, <3>1 DEF Counts
  <2> QED  BY <2>4, <2>5
<1>3. CASE MarkCreate(p) /\ seen[proc[p].wid] # "none"
  <2>1. UNCHANGED <<seen, accepted>>
    BY <1>3 DEF MarkCreate
  <2>2. \A q \in Process : proc'[q].pc = "delete" => proc'[q] = proc[q]
    <3>1. CASE Goto(p, "look")
      BY <3>1 DEF Goto, TypeOK, Proc
    <3>2. CASE End(p)
      BY <3>2, ProcEdits DEF IdleProc
    <3> QED  BY <1>3, <3>1, <3>2 DEF MarkCreate
  <2> QED  BY <2>1, <2>2 DEF Counts
<1>4. CASE MarkLook(p)
  <2>1. UNCHANGED <<seen, accepted>>
    BY <1>4 DEF MarkLook, Unstored, tableVars
  <2>2. \A q \in Process : q # p => proc'[q] = proc[q]
    BY <1>4 DEF MarkLook, Goto, End, TypeOK
  <2>3. proc'[p].pc = "delete" => /\ seen[proc[p].wid] = "expired"
                                  /\ proc'[p].wid = proc[p].wid
    BY <1>1, <1>4 DEF MarkLook, Marking, Goto, End, IdleProc, TypeOK, Proc
  <2>4. proc[p].wid \in WebhookId
    BY <1>1, <1>4 DEF MarkLook, Marking
  <2> QED  BY <2>1, <2>2, <2>3, <2>4 DEF Counts
<1>5. CASE MarkDelete(p)
  <2>1. proc[p].wid \in WebhookId /\ accepted[proc[p].wid] = 0
    BY <1>1, <1>5 DEF MarkDelete, Counts, Marking
  <2>2. /\ accepted' = accepted
        /\ \A w \in WebhookId : w # proc[p].wid => seen'[w] = seen[w]
        /\ \A q \in Process : proc'[q].pc = "delete" => proc'[q] = proc[q]
    BY <1>1, <1>5 DEF MarkDelete, Goto, TypeOK, Proc
  <2> QED  BY <2>1, <2>2 DEF Counts
<1>6. CASE MarkFault(p)
  <2>1. /\ accepted' = accepted
        /\ \A w \in WebhookId : seen'[w] = seen[w] \/ seen'[w] = "fresh"
        /\ \A q \in Process : proc'[q].pc = "delete" => proc'[q] = proc[q]
    BY <1>1, <1>6, ProcEdits DEF MarkFault, IdleProc
  <2> QED  BY <2>1 DEF Counts
<1> QED  BY <1>2, <1>3, <1>4, <1>5, <1>6 DEF Marked, MarkCreate

LEMMA MarksStep ==
  ASSUME TypeOK, StepsFit, MarksCount, [Next]_vars
  PROVE  MarksCount'
<1>1. causes \subseteq causes'
  BY CausesGrow
<1>2. MarksCount <=> Excused({"expiry_race"}) \/ Counts
  BY DEF MarksCount, Counts
<1>3. MarksCount' <=> Excused({"expiry_race"})' \/ Counts'
  BY DEF MarksCount, Counts
<1> SUFFICES ASSUME Counts PROVE "expiry_race" \in causes' \/ Counts'
  BY <1>1, <1>2, <1>3 DEF Excused
<1>4. CASE UNCHANGED <<seen, accepted, proc>>
  BY <1>4 DEF Counts
<1>5. ASSUME NEW p \in Process, Unmarked(p) PROVE Counts'
  BY <1>5 DEF Unmarked, Counts
<1>6. ASSUME NEW w \in WebhookId, MarkExpires(w) PROVE Counts'
  <2>1. /\ \A v \in WebhookId : accepted'[v] = IF v = w THEN 0 ELSE accepted[v]
        /\ \A v \in WebhookId : v # w => seen'[v] = seen[v]
        /\ proc' = proc
    BY <1>6 DEF MarkExpires, TypeOK
  <2>2. \A q \in Process : proc[q].pc = "delete" => proc[q].wid \in WebhookId
    BY DEF StepsFit, Fits, Marking
  <2> QED  BY <2>1, <2>2 DEF Counts
<1>7. CASE Elsewhere
  BY <1>4, <1>6, <1>7 DEF Elsewhere, OrderChanges, Discard, Execute, Execution,
     BuyLabel, RecordLabel, ExecutionFails, tableVars
<1>8. ASSUME NEW p \in Process, Started(p) \/ Step(p) \/ Fault(p)
      PROVE  "expiry_race" \in causes' \/ Counts'
  <2>1. \/ Started(p) \/ Marked(p)
        \/ Looked(p) \/ Cleaned(p) \/ Wrote(p) \/ Queued(p) \/ Crash(p)
    BY <1>8 DEF Step, PersistStep, Fault, Marked, Looked, Cleaned, Wrote, Queued
  <2> QED  BY <1>5, <2>1, StartedUnmarked, WorkUnmarked, MarkedCounts
<1> QED  BY <1>4, <1>7, <1>8, NextCases DEF vars

-----------------------------------------------------------------------------
(***************************************************************************)
(* One draft.  Only a creation adds a draft, and it has deleted all it did *)
(* not write, unless one of the causes occurred.                           *)
(***************************************************************************)
DraftCauses == {"concurrent_creation", "cleanup_failed", "overwritten"}

\* OneCreation where nothing of it is excused
CreatesOne ==
    /\ \A p, q \in Process : Creating(p) /\ Creating(q) => p = q
    /\ \A p \in Process : Creating(p) => DOMAIN rows \subseteq proc[p].dups
    /\ \A i, j \in DOMAIN rows : i = j

\* the drafts become no more, and nobody begins to create one
NoCreation ==
    /\ DOMAIN rows' \subseteq DOMAIN rows
    /\ \A q \in Process :
          Creating(q)' => Creating(q) /\ proc'[q].dups = proc[q].dups

LEMMA NoCreationKeeps ==
  ASSUME CreatesOne, NoCreation
  PROVE  CreatesOne'
<1>1. \A p, q \in Process : Creating(p)' /\ Creating(q)' => p = q
  BY DEF CreatesOne, NoCreation
<1>2. \A p \in Process : Creating(p)' => DOMAIN rows' \subseteq proc'[p].dups
  BY DEF CreatesOne, NoCreation
<1>3. \A i, j \in DOMAIN rows' : i = j
  BY DEF CreatesOne, NoCreation
<1> QED  BY <1>1, <1>2, <1>3 DEF CreatesOne

LEMMA OthersCreateNothing ==
  ASSUME TypeOK, StepsFit, NEW p \in Process,
         Started(p) \/ Marked(p) \/ Looked(p) \/ Queued(p) \/ Crash(p)
  PROVE  NoCreation
<1>1. rows' = rows
  BY DEF Started, Deliver, Sync, Poll, Retry, Marked, MarkCreate, Inserted,
     MarkLook, MarkDelete, MarkFault, Looked, FindNone, FindDraft, FindFault,
     Queued, EnqueueDlq, DeleteDlqEntry, Crash, Unstored, tableVars
<1>2. /\ \A q \in Process : q # p => proc'[q] = proc[q]
      /\ proc'[p].pc \notin {"clean", "upsert"}
  <2>1. CASE End(p)
    BY <2>1, ProcEdits DEF IdleProc
  <2>2. ASSUME NEW pc \in {"look", "again", "delete", "persist"}, Goto(p, pc)
        PROVE  /\ \A q \in Process : q # p => proc'[q] = proc[q]
               /\ proc'[p].pc \notin {"clean", "upsert"}
    BY <2>2 DEF Goto, TypeOK, Proc
  <2>3. ASSUME NEW op, NEW pc \in {"create", "persist", "find"}, NEW wid,
               NEW ver, NEW entry, Start(p, op, pc, wid, ver, entry)
        PROVE  /\ \A q \in Process : q # p => proc'[q] = proc[q]
               /\ proc'[p].pc \notin {"clean", "upsert"}
    BY <2>3 DEF Start, TypeOK, IdleProc
  <2>4. CASE Started(p)
    BY <2>3, <2>4 DEF Started, Deliver, Sync, Poll, Retry
  <2>5. CASE Marked(p)
    <3>1. CASE Inserted(p)
      BY <3>1 DEF Inserted, TypeOK, Proc
    <3> QED  BY <2>1, <2>2, <2>5, <3>1 DEF Marked, MarkCreate, MarkLook,
             MarkDelete, MarkFault
  <2>6. CASE Looked(p)
    <3>1. ASSUME NEW i \in Id, FindDraft(p, i), ~End(p)
          PROVE  /\ \A q \in Process : q # p => proc'[q] = proc[q]
                 /\ proc'[p].pc \notin {"clean", "upsert"}
      BY <3>1 DEF FindDraft, TypeOK, Proc
    <3> QED  BY <2>1, <2>2, <2>6, <3>1 DEF Looked, FindNone, FindFault
  <2>7. CASE Queued(p) \/ Crash(p)
    BY <2>1, <2>7 DEF Queued, EnqueueDlq, DeleteDlqEntry, Crash
  <2> QED  BY <2>4, <2>5, <2>6, <2>7
<1> QED  BY <1>1, <1>2 DEF NoCreation, Creating

LEMMA CleanedCreates ==
  ASSUME TypeOK, StepsFit, CreatesOne, NEW p \in Process, Cleaned(p)
  PROVE  causes' \cap DraftCauses # {} \/ CreatesOne'
<1>1. DOMAIN rows \subseteq Id /\ 0 \notin Id
  BY DEF TypeOK, Id
<1>2. ASSUME NEW dups, Cleaning(p, dups)
      PROVE  /\ \A q \in Process : q # p => proc'[q] = proc[q]
             /\ proc'[p].dups = dups /\ proc'[p].id = proc[p].id
             /\ proc'[p].pc \in {"clean", "upsert"}
  BY <1>2 DEF Cleaning, TypeOK, Proc
<1>3. CASE QueryDuplicates(p)
  <2>1. /\ \A q \in Process : q # p => proc'[q] = proc[q]
        /\ proc'[p].dups = Duplicates(p) /\ proc'[p].id = proc[p].id
        /\ rows' = rows /\ causes' = causes \cup Overlap(p)
    BY <1>2, <1>3 DEF QueryDuplicates, Unstored, tableVars
  <2>2. CASE proc[p].id # 0
    BY <2>1, <2>2, NoCreationKeeps DEF NoCreation, Creating
  <2>3. CASE proc[p].id = 0 /\ \E q \in Process \ {p} : Creating(q)
    BY <2>1, <2>3 DEF Overlap, DraftCauses
  <2>4. CASE proc[p].id = 0 /\ ~\E q \in Process \ {p} : Creating(q)
    <3>1. proc'[p].dups = DOMAIN rows
      BY <1>1, <2>1, <2>4 DEF Duplicates
    <3>2. \A q \in Process : Creating(q)' => q = p
      BY <2>1, <2>4 DEF Creating
    <3> QED  BY <2>1, <3>1, <3>2 DEF CreatesOne
  <2> QED  BY <2>2, <2>3, <2>4
<1>4. CASE QueryFault(p) \/ \E i \in Id : DeleteFault(p, i)
  BY <1>4 DEF QueryFault, DeleteFault, DraftCauses
<1>5. ASSUME NEW i \in Id, DeleteDuplicate(p, i)
      PROVE  CreatesOne'
  <2>1. /\ \A q \in Process : q # p => proc'[q] = proc[q]
        /\ proc'[p].dups = proc[p].dups \ {i} /\ proc'[p].id = proc[p].id
        /\ DOMAIN rows' = DOMAIN rows \ {i} /\ proc[p].pc = "clean"
    BY <1>2, <1>5 DEF DeleteDuplicate, Restrict
  <2>2. \A q \in Process : Creating(q)' => Creating(q)
    BY <2>1 DEF Creating
  <2>3. \A q \in Process : Creating(q)' => DOMAIN rows' \subseteq proc'[q].dups
    BY <2>1, <2>2 DEF CreatesOne
  <2> QED  BY <2>1, <2>2, <2>3 DEF CreatesOne
<1> QED  BY <1>3, <1>4, <1>5 DEF Cleaned

LEMMA WroteCreates ==
  ASSUME TypeOK, StepsFit, CreatesOne, NEW p \in Process, Wrote(p)
  PROVE  causes' \cap DraftCauses # {} \/ CreatesOne'
<1>1. proc[p].pc = "upsert" /\ proc[p].dups = {}
  BY DEF Wrote, Upsert, UpsertFault, StepsFit, Fits
<1>2. /\ \A q \in Process : q # p => proc'[q] = proc[q]
      /\ ~Creating(p)'
  <2>1. ASSUME NEW pc \in {"enqueue", "unqueue"}, Goto(p, pc)
        PROVE  /\ \A q \in Process : q # p => proc'[q] = proc[q]
               /\ proc'[p].pc \notin {"clean", "upsert"}
    BY <2>1 DEF Goto, TypeOK, Proc
  <2>2. CASE End(p)
    BY <2>2, ProcEdits DEF IdleProc, Creating
  <2>3. CASE Upsert(p)
    BY <2>1, <2>2, <2>3 DEF Upsert, Creating
  <2>4. CASE UpsertFault(p) /\ proc[p].op = "webhook"
    BY <2>4 DEF UpsertFault, AfterFault, Creating, TypeOK, Proc
  <2>5. CASE UpsertFault(p) /\ proc[p].op # "webhook"
    BY <2>1, <2>2, <2>5 DEF UpsertFault, AfterFault, Creating
  <2> QED  BY <2>3, <2>4, <2>5 DEF Wrote
<1>3. CASE rows' = rows
  BY <1>2, <1>3, NoCreationKeeps DEF NoCreation, Creating
<1>4. CASE Written(p)
  <2>1. PICK t, d : Writes(p, t, d)
    BY <1>4, WrittenWrites
  <2>2. CASE proc[p].id = 0
    <3>1. Creating(p) /\ DOMAIN rows = {}
      BY <1>1, <2>2 DEF Creating, CreatesOne
    <3>2. DOMAIN rows' = {t}
      BY <2>1, <3>1 DEF Writes
    <3>3. \A q \in Process : ~Creating(q)'
      BY <1>2, <3>1 DEF CreatesOne, Creating
    <3> QED  BY <3>2, <3>3 DEF CreatesOne
  <2>3. CASE proc[p].id # 0
    <3>1. "overwritten" \in causes' \/ DOMAIN rows' = DOMAIN rows
      BY <2>1, <2>3 DEF Writes
    <3>2. DOMAIN rows' = DOMAIN rows => CreatesOne'
      BY <1>2, NoCreationKeeps DEF NoCreation, Creating
    <3> QED  BY <3>1, <3>2 DEF DraftCauses
  <2> QED  BY <2>2, <2>3
<1> QED  BY <1>3, <1>4 DEF Wrote, Upsert, UpsertFault

LEMMA OneCreationStep ==
  ASSUME TypeOK, StepsFit, OneCreation, [Next]_vars
  PROVE  OneCreation'
<1>1. /\ OneCreation <=> Excused(DraftCauses) \/ CreatesOne
      /\ OneCreation' <=> Excused(DraftCauses)' \/ CreatesOne'
  BY DEF OneCreation, CreatesOne, DraftCauses
<1> SUFFICES ASSUME CreatesOne PROVE causes' \cap DraftCauses # {} \/ CreatesOne'
  BY <1>1, CausesGrow DEF Excused
<1>2. CASE DOMAIN rows' = DOMAIN rows /\ proc' = proc
  BY <1>2, NoCreationKeeps DEF NoCreation, Creating
<1>3. CASE Elsewhere
  <2>1. DOMAIN rows' = DOMAIN rows /\ proc' = proc
    BY <1>3, RowMoves DEF Elsewhere, OrderChanges, MarkExpires, Discard, Execute,
       Execution, BuyLabel, RecordLabel, ExecutionFails, tableVars
  <2> QED  BY <1>2, <2>1
<1>4. ASSUME NEW p \in Process, Started(p) \/ Step(p) \/ Fault(p)
      PROVE  causes' \cap DraftCauses # {} \/ CreatesOne'
  <2>1. \/ Started(p) \/ Marked(p) \/ Looked(p) \/ Queued(p) \/ Crash(p)
        \/ Cleaned(p) \/ Wrote(p)
    BY <1>4 DEF Step, PersistStep, Fault, Marked, Looked, Cleaned, Wrote, Queued
  <2> QED  BY <2>1, OthersCreateNothing, NoCreationKeeps, CleanedCreates,
           WroteCreates
<1> QED  BY <1>2, <1>3, <1>4, NextCases DEF vars

LEMMA OneCreationInit == Init => OneCreation
BY DEF Init, OneCreation, Creating, IdleProc

LEMMA OneCreationIsOneDraft == OneCreation => OneDraft
<1>1. ASSUME \A i, j \in DOMAIN rows : i = j
      PROVE  Cardinality(DOMAIN rows) <= 1
  <2>1. CASE DOMAIN rows = {}
    BY <2>1, FS_EmptySet
  <2>2. CASE DOMAIN rows # {}
    <3>1. PICK i : DOMAIN rows = {i}
      BY <1>1, <2>2
    <3>2. Cardinality({i}) = 1
      BY FS_Singleton
    <3> QED  BY <3>1, <3>2
  <2> QED  BY <2>1, <2>2
<1> QED  BY <1>1 DEF OneCreation, OneDraft

-----------------------------------------------------------------------------
(***************************************************************************)
(* No order is lost.  What keeps it is handed on: by a delivery to its     *)
(* draft, by a failed write to the queue, by a retry back to a draft.      *)
(***************************************************************************)
LostCauses == {"crash", "queue_failed", "discarded", "unmarked", "half_written",
               "double_retry"}

Marks == \E w \in WebhookId : seen[w] # "none"

Keeper == \/ DOMAIN rows # {}
          \/ \E p \in Process : Carrying(p)
          \/ \E entry \in dlq : ~Unqueuing(entry)

LEMMA BystanderKeeps ==
  ASSUME Keeper, UNCHANGED <<rows, dlq>>, NEW p \in Process,
         \A q \in Process : q # p => proc'[q] = proc[q],
         ~Carrying(p), proc'[p].pc # "unqueue"
  PROVE  Keeper'
<1>1. \A entry : Unqueuing(entry)' => Unqueuing(entry)
  BY DEF Unqueuing
<1>2. \A q \in Process : Carrying(q) => Carrying(q)'
  BY DEF Carrying
<1> QED  BY <1>1, <1>2 DEF Keeper

LEMMA CarrierKeeps ==
  ASSUME NEW p \in Process,
         proc'[p].pc \in {"persist", "clean", "upsert", "enqueue"}
  PROVE  Keeper'
BY DEF Keeper, Carrying

LEMMA MarkedKeeps ==
  ASSUME TypeOK, StepsFit, Marks => Keeper, NEW p \in Process, Marked(p)
  PROVE  causes' \cap LostCauses # {} \/ (Marks' => Keeper')
<1>1. /\ UNCHANGED <<rows, dlq>> /\ ~Carrying(p)
      /\ \A q \in Process : q # p => proc'[q] = proc[q]
  BY DEF Marked, MarkCreate, Inserted, MarkLook, MarkDelete, MarkFault, Unstored,
     tableVars, Carrying, Goto, End, TypeOK
<1>2. CASE Inserted(p)
  <2>1. proc'[p].pc = "persist"
    BY <1>2 DEF Inserted, TypeOK, Proc
  <2> QED  BY <2>1, CarrierKeeps
<1>3. CASE ~Inserted(p)
  <2>1. proc'[p].pc # "unqueue"
    <3>1. End(p) \/ \E pc \in {"look", "again", "delete"} : Goto(p, pc)
      BY <1>3 DEF Marked, MarkCreate, MarkLook, MarkDelete, MarkFault
    <3>2. End(p) => proc'[p].pc # "unqueue"
      BY ProcEdits DEF IdleProc
    <3>3. ASSUME NEW pc \in {"look", "again", "delete"}, Goto(p, pc)
          PROVE  proc'[p].pc # "unqueue"
      BY <3>3 DEF Goto, TypeOK, Proc
    <3> QED  BY <3>1, <3>2, <3>3
  <2>2. "unmarked" \in causes' \/ (Marks' => Marks)
    BY <1>3 DEF Marked, MarkCreate, MarkLook, MarkDelete, MarkFault, Unstored,
       tableVars, Marks, TypeOK
  <2> QED  BY <1>1, <2>1, <2>2, BystanderKeeps DEF LostCauses
<1> QED  BY <1>2, <1>3

LEMMA WroteKeeps ==
  ASSUME TypeOK, StepsFit, Marks => Keeper, NEW p \in Process, Wrote(p)
  PROVE  causes' \cap LostCauses # {} \/ (Marks' => Keeper')
<1>1. CASE Written(p)
  BY <1>1, WrittenWrites DEF Writes, Keeper
<1>2. CASE UpsertFault(p) /\ ~Written(p)
  <2>1. proc[p].op \in Op /\ rows' = rows
    BY <1>2, ProcFields DEF UpsertFault, Proc
  <2>2. CASE proc[p].op = "webhook"
    <3>1. proc'[p].pc = "enqueue"
      BY <1>2, <2>2 DEF UpsertFault, AfterFault, TypeOK, Proc
    <3> QED  BY <3>1, CarrierKeeps
  <2>3. CASE proc[p].op = "retry"
    <3>1. Goto(p, "enqueue")
      BY <1>2, <2>3 DEF UpsertFault, AfterFault
    <3>2. proc'[p].pc = "enqueue"
      BY <3>1 DEF Goto, TypeOK, Proc
    <3> QED  BY <3>2, CarrierKeeps
  <2>4. CASE proc[p].op = "sync"
    BY <1>2, <2>1, <2>4 DEF UpsertFault, Keeper, LostCauses
  <2> QED  BY <2>1, <2>2, <2>3, <2>4 DEF Op
<1> QED  BY <1>1, <1>2 DEF Wrote, Upsert

LEMMA QueuedKeeps ==
  ASSUME TypeOK, StepsFit, Marks => Keeper, NEW p \in Process, Queued(p)
  PROVE  causes' \cap LostCauses # {} \/ (Marks' => Keeper')
<1>1. /\ UNCHANGED <<seen, rows>>
      /\ \A q \in Process : proc'[q] = IF q = p THEN IdleProc ELSE proc[q]
  BY ProcEdits DEF Queued, EnqueueDlq, DeleteDlqEntry
<1>2. \A entry : Unqueuing(entry)' => Unqueuing(entry)
  BY <1>1 DEF Unqueuing, IdleProc
<1>3. CASE EnqueueDlq(p)
  BY <1>2, <1>3 DEF EnqueueDlq, Keeper, LostCauses
<1>4. CASE DeleteDlqEntry(p)
  <2>1. Marks' => Marks
    BY <1>1 DEF Marks
  <2>2. \A entry \in dlq : ~Unqueuing(entry) => entry \in dlq'
    BY <1>4 DEF DeleteDlqEntry, Unqueuing
  <2>3. \A q \in Process : Carrying(q) => Carrying(q)'
    BY <1>1, <1>4 DEF DeleteDlqEntry, Carrying
  <2> QED  BY <1>1, <1>2, <2>1, <2>2, <2>3 DEF Keeper
<1> QED  BY <1>3, <1>4 DEF Queued

LEMMA WorkKeeps ==
  ASSUME TypeOK, StepsFit, Marks => Keeper, NEW p \in Process,
         Started(p) \/ Looked(p) \/ Cleaned(p) \/ Crash(p)
  PROVE  causes' \cap LostCauses # {} \/ (Marks' => Keeper')
<1>1. CASE Crash(p)
  BY <1>1 DEF Crash, LostCauses
<1>2. CASE Cleaned(p)
  <2>1. ASSUME NEW dups, Cleaning(p, dups)
        PROVE  proc'[p].pc \in {"clean", "upsert"}
    BY <2>1 DEF Cleaning, TypeOK, Proc
  <2>2. proc'[p].pc \in {"clean", "upsert"}
    BY <1>2, <2>1 DEF Cleaned, QueryDuplicates, QueryFault, DeleteDuplicate,
       DeleteFault
  <2> QED  BY <2>2, CarrierKeeps
<1>3. CASE Started(p)
  <2>1. ASSUME NEW op, NEW pc \in {"create", "persist", "find"}, NEW wid, NEW ver,
               NEW entry, Start(p, op, pc, wid, ver, entry)
        PROVE  /\ \A q \in Process : q # p => proc'[q] = proc[q]
               /\ proc'[p].pc # "unqueue" /\ ~Carrying(p)
    BY <2>1 DEF Start, TypeOK, IdleProc, Carrying
  <2>2. /\ \A q \in Process : q # p => proc'[q] = proc[q]
        /\ proc'[p].pc # "unqueue" /\ ~Carrying(p)
    BY <1>3, <2>1 DEF Started, Deliver, Sync, Poll, Retry
  <2>3. UNCHANGED <<seen, rows, dlq>>
    BY <1>3 DEF Started, Deliver, Sync, Poll, Retry, Unstored, tableVars
  <2> QED  BY <2>2, <2>3, BystanderKeeps DEF Marks
<1>4. CASE Looked(p)
  <2>1. UNCHANGED <<seen, rows, dlq>> /\ ~Carrying(p)
    BY <1>4 DEF Looked, FindNone, FindDraft, FindFault, Unstored, tableVars,
       Carrying
  <2>2. /\ \A q \in Process : q # p => proc'[q] = proc[q]
        /\ proc'[p].pc # "unqueue"
    <3>1. CASE End(p)
      BY <3>1, ProcEdits DEF IdleProc
    <3>2. CASE Goto(p, "persist")
      BY <3>2 DEF Goto, TypeOK, Proc
    <3>3. ASSUME NEW i \in Id, FindDraft(p, i), ~End(p)
          PROVE  /\ \A q \in Process : q # p => proc'[q] = proc[q]
                 /\ proc'[p].pc # "unqueue"
      BY <3>3 DEF FindDraft, TypeOK, Proc
    <3> QED  BY <1>4, <3>1, <3>2, <3>3 DEF Looked, FindNone, FindFault
  <2> QED  BY <2>1, <2>2, BystanderKeeps DEF Marks
<1> QED  BY <1>1, <1>2, <1>3, <1>4

LEMMA KeepsStep ==
  ASSUME TypeOK, StepsFit, SomebodyKeepsIt, [Next]_vars
  PROVE  SomebodyKeepsIt'
<1>1. /\ SomebodyKeepsIt <=> Excused(LostCauses) \/ (Marks => Keeper)
      /\ SomebodyKeepsIt' <=> Excused(LostCauses)' \/ (Marks' => Keeper')
  BY DEF SomebodyKeepsIt, Marks, Keeper, LostCauses
<1> SUFFICES ASSUME Marks => Keeper
             PROVE  causes' \cap LostCauses # {} \/ (Marks' => Keeper')
  BY <1>1, CausesGrow DEF Excused
<1>2. CASE DOMAIN rows' = DOMAIN rows /\ UNCHANGED <<dlq, proc>> /\ (Marks' => Marks)
  BY <1>2 DEF Keeper, Carrying, Unqueuing
<1>3. CASE Elsewhere
  <2>1. CASE \E entry \in dlq : Discard(entry)
    BY <2>1 DEF Discard, LostCauses
  <2>2. CASE \E w \in WebhookId : MarkExpires(w)
    <3>1. UNCHANGED <<rows, dlq, proc>> /\ (Marks' => Marks)
      BY <2>2 DEF MarkExpires, Marks, TypeOK
    <3> QED  BY <1>2, <3>1
  <2>3. CASE OrderChanges \/ \E i \in Id : Execute(i) \/ Execution(i)
    <3>1. DOMAIN rows' = DOMAIN rows /\ UNCHANGED <<seen, dlq, proc>>
      BY <2>3, RowMoves DEF OrderChanges, Execute, Execution, BuyLabel,
         RecordLabel, ExecutionFails, tableVars
    <3> QED  BY <1>2, <3>1 DEF Marks
  <2> QED  BY <1>3, <2>1, <2>2, <2>3 DEF Elsewhere
<1>4. ASSUME NEW p \in Process, Started(p) \/ Step(p) \/ Fault(p)
      PROVE  causes' \cap LostCauses # {} \/ (Marks' => Keeper')
  <2>1. \/ Started(p) \/ Looked(p) \/ Cleaned(p) \/ Crash(p)
        \/ Marked(p) \/ Wrote(p) \/ Queued(p)
    BY <1>4 DEF Step, PersistStep, Fault, Marked, Looked, Cleaned, Wrote, Queued
  <2> QED  BY <2>1, WorkKeeps, MarkedKeeps, WroteKeeps, QueuedKeeps
<1>5. CASE UNCHANGED vars
  BY <1>2, <1>5 DEF vars, Marks
<1> QED  BY <1>3, <1>4, <1>5, NextCases

(***************************************************************************)
(* An order has one draft: of its repeated deliveries one is taken, no two *)
(* creations both stay, and no failure on the way leaves it without a      *)
(* draft and without a dead letter, short of the causes each part names    *)
(* (ingestion.py:281, shipping_store.py:200).                              *)
(***************************************************************************)
THEOREM OrderHasOneDraftHolds == Spec => []OrderHasOneDraft
<1> DEFINE Inv == TypeOK /\ StepsFit /\ MarksCount /\ OneCreation
                  /\ SomebodyKeepsIt
<1>1. Init => Inv
  <2>1. Init => SomebodyKeepsIt
    BY DEF Init, SomebodyKeepsIt
  <2> QED  BY <2>1, TypeInit, MarksInit, OneCreationInit
<1>2. Inv /\ [Next]_vars => Inv'
  BY TypeStep, MarksStep, OneCreationStep, KeepsStep
<1>3. Inv => OrderHasOneDraft
  <2>1. MarksCount => AcceptedOnce
    BY DEF MarksCount, AcceptedOnce
  <2>2. SomebodyKeepsIt => OrderIsKept
    BY DEF SomebodyKeepsIt, OrderIsKept, Excused, Carrying
  <2> QED  BY <2>1, <2>2, OneCreationIsOneDraft DEF OrderHasOneDraft
<1> QED  BY <1>1, <1>2, <1>3, PTL DEF Spec

=============================================================================
