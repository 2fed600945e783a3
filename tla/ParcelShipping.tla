----------------------------- MODULE ParcelShipping -----------------------------
(***************************************************************************)
(* One order on its way to the courier: planned, repacked by an operator,  *)
(* previewed, executed parcel by parcel and resumed after a failure.       *)
(* Claims and concurrent runs are the subject of ShippingExecution; here   *)
(* one run at a time reads the draft, claims it and posts its parcels.     *)
(***************************************************************************)
EXTENDS ParcelPlan

CONSTANTS
    Order,         \* orders to be shipped
    EditPlan,      \* plans an operator may ask for
    MaxRows,       \* rows of a plan (20 in the code)
    MaxParcels,    \* parcels of a plan (30 in the code)
    MaxEdits,      \* bound: accepted edits
    MaxParcelFaults \* bound: calls the courier refuses

ApaczkaService == {"none", "door", "point", "unlisted"}
Service == [c \in {"inpost", "apaczka"} |->
               IF c = "inpost" THEN {"locker", "courier"} ELSE ApaczkaService]

\* an order asks for a service its courier has, and a plan is a list of rows
ASSUME ParcelShape ==
    /\ MaxRows \in Nat /\ MaxParcels \in Nat
    /\ MaxEdits \in Nat /\ MaxParcelFaults \in Nat
    /\ Order \subseteq [lines : Seq(OrderLine), shipping : Nat, cod : Nat, codError : BOOLEAN,
                        courier : {"inpost", "apaczka"},
                        service : {"locker", "courier"} \cup ApaczkaService,
                        phone : BOOLEAN, locker : BOOLEAN, street : BOOLEAN,
                        point : BOOLEAN, pointTakesCod : BOOLEAN]
    /\ \A o \in Order : o.service \in Service[o.courier]
    /\ EditPlan \subseteq Seq([type : STRING, qty : Int])

VARIABLES
    order,        \* the order, which does not change
    packing,      \* its draft
    screen,       \* what the operator is shown, a set of at most one preview
    sending,      \* the run: "idle", "read" or "posting", and what it holds
    address,      \* the pickup address in the settings
    edits, parcelFaults, parcelCauses

parcelVars == <<order, packing, screen, sending, address, edits,
                parcelFaults, parcelCauses>>

(***************************************************************************)
(* The draft an order becomes, held for review when something is missing.  *)
(***************************************************************************)
NeedsReview(o) ==
    \/ Unreadable(o.lines) # {} \/ o.codError \/ ~o.phone
    \/ o.courier = "apaczka" /\ o.service = "none"
    \/ o.courier = "apaczka" /\ o.service = "point" /\ ~o.point

Packing(o) ==
    [plan |-> CalcPackages(o.lines), operator |-> FALSE, service |-> o.service,
     phone |-> o.phone, labels |-> <<>>,
     status |-> IF NeedsReview(o) THEN "needs_review" ELSE "pending"]

IdleRun == [pc |-> "idle", draft |-> {}, todo |-> <<>>, from |-> 0, shown |-> {}]

(***************************************************************************)
(* What each parcel's call asks of the courier, or a refusal.              *)
(***************************************************************************)
Cod(o) == IF o.codError THEN 0 ELSE o.cod

\* the smallest whole number of zlotys not less than the amount
InsuranceOf(cod) == ((cod + 99) \div 100) * 100

OneParcel(d) == Len(PhysicalParcels(d.plan)) = 1

InPostRefuses(d) ==
    \/ order.codError \/ ~d.phone
    \/ Cod(order) > 0 /\ d.service = "locker" /\ ~OneParcel(d)
    \/ Cod(order) > 0 /\ CodAllocation(order, d.plan) = <<>>

\* a point must be known to take cash, and the windows of one service are few
PointRefuses(d) ==
    Cod(order) > 0 /\ order.point /\ (d.service # "point" \/ ~order.pointTakesCod)

ApaczkaRefuses(d, window) ==
    \/ d.service = "point" /\ window = "odd"
    \/ PointRefuses(d) \/ order.codError
    \/ Cod(order) > 0 /\ CodAllocation(order, d.plan) = <<>>

PlanRefuses(d, window) ==
    IF order.courier = "inpost" THEN InPostRefuses(d) ELSE ApaczkaRefuses(d, window)

\* a run also needs the service, and a point where the service is to a point
Refuses(d, window) ==
    \/ order.courier = "apaczka" /\ d.service = "none"
    \/ order.courier = "apaczka" /\ d.service = "point" /\ ~order.point
    \/ PlanRefuses(d, window)

IsDone(d, parcel) ==
    \E l \in DOMAIN d.labels :
        /\ d.labels[l].parcel.type = parcel.type
        /\ d.labels[l].parcel.number = parcel.number

\* a call's share is that of its place among all the parcels
ShareOf(p, rest) == p

(***************************************************************************)
(* The payloads.  A locker is given a template, a courier the sender and   *)
(* the box, Apaczka both; each collects cash and is insured for it.        *)
(***************************************************************************)
Money(cod) == [cod |-> cod, insured |-> InsuranceOf(cod)]

PaczkomatPayload(parcel, cod) ==
    [service |-> "locker", label |-> Reference(parcel), from |-> 0,
     box |-> "large", money |-> Money(cod)]

KurierPayload(parcel, cod, from) ==
    [service |-> "courier", label |-> Reference(parcel), from |-> from,
     box |-> parcel.type, money |-> Money(cod)]

ShipmentOrder(d, parcel, cod, from) ==
    [service |-> d.service, label |-> Reference(parcel), from |-> from,
     box |-> parcel.type, money |-> Money(cod)]

Payload(d, parcel, cod, from) ==
    IF order.courier = "apaczka" THEN ShipmentOrder(d, parcel, cod, from)
    ELSE IF d.service = "locker" THEN PaczkomatPayload(parcel, cod)
    ELSE KurierPayload(parcel, cod, from)

CallSpecs(d, from) ==
    LET parcels == PhysicalParcels(d.plan)
        rest == {p \in DOMAIN parcels : ~IsDone(d, parcels[p])}
        parts == IF Cod(order) = 0 THEN [p \in DOMAIN parcels |-> 0]
                 ELSE CodAllocation(order, d.plan)
        Spec(p) == [parcel |-> parcels[p],
                    payload |-> Payload(d, parcels[p], parts[ShareOf(p, rest)], from)]
        Nth(k) == CHOOSE p \in rest : Cardinality({q \in rest : q <= p}) = k
    IN [k \in 1..Cardinality(rest) |-> Spec(Nth(k))]

\* the preview: the payloads, or none when the draft is refused
Preview(d, window) == IF PlanRefuses(d, window) THEN <<>> ELSE CallSpecs(d, address)

Matches(shown, d, window) ==
    /\ shown.window = window /\ shown.draft = d
    /\ shown.payloads = Preview(d, window)

(***************************************************************************)
(* The operator's edits.                                                   *)
(***************************************************************************)
\* mutant: the status alone
LockedWhileRunning(d) == d.status \in {"executing", "created"}

Locked(d) == d.status \in {"executing", "created"} \/ d.labels # <<>>

ValidBreakdown(rows) ==
    /\ rows # <<>> /\ Len(rows) <= MaxRows
    /\ \A r \in DOMAIN rows : rows[r].type \in ParcelType /\ rows[r].qty \in 1..99
    /\ Sum([r \in DOMAIN rows |-> rows[r].qty]) <= MaxParcels

Splits(d, rows) ==
    Cod(order) > 0 =>
        /\ d.service = "locker" => Sum([r \in DOMAIN rows |-> rows[r].qty]) = 1
        /\ CodAllocation(order, rows) # <<>>

TwoRows(rows) ==
    \E r, q \in DOMAIN rows : r # q /\ BoxType(rows[r]) = BoxType(rows[q])

Edited(d) ==
    /\ edits < MaxEdits /\ edits' = edits + 1 /\ packing' = d
    /\ parcelCauses' = parcelCauses
        \cup (IF TwoRows(d.plan) THEN {"two_rows"} ELSE {})
        \cup (IF sending.pc = "read" THEN {"late_edit"} ELSE {})
    /\ UNCHANGED <<order, screen, sending, address, parcelFaults>>

Repack(rows) ==
    /\ ~Locked(packing) /\ ValidBreakdown(rows) /\ Splits(packing, rows)
    /\ Edited([packing EXCEPT !.plan = rows, !.operator = TRUE])

ChooseService(s) ==
    /\ s # packing.service
    /\ s \in Service[order.courier] \ {"none"}
    /\ Edited([packing EXCEPT !.service = s])

GivePhone == ~packing.phone /\ Edited([packing EXCEPT !.phone = TRUE])

Review ==
    /\ packing.status = "needs_review"
    /\ order.courier = "inpost" => packing.phone
    /\ Edited([packing EXCEPT !.status = "pending"])

(***************************************************************************)
(* A run: the draft is read, compared with what was reviewed, claimed, and *)
(* its parcels are posted from the copy that was read.                     *)
(***************************************************************************)
Show(window) ==
    /\ sending.pc = "idle" /\ packing.status \in {"pending", "error"}
    /\ screen' = {[draft |-> packing, window |-> window,
                   payloads |-> Preview(packing, window)]}
    /\ UNCHANGED <<order, packing, sending, address, edits, parcelFaults, parcelCauses>>

ReadDraft(window, shown) ==
    /\ sending.pc = "idle" /\ packing.status # "needs_review"
    /\ shown \subseteq screen /\ \A v \in shown : Matches(v, packing, window)
    /\ sending' = [pc |-> "read", draft |-> {[packing |-> packing, window |-> window]},
                   todo |-> <<>>, from |-> address, shown |-> shown]
    /\ screen' = {}
    /\ UNCHANGED <<order, packing, address, edits, parcelFaults, parcelCauses>>

EndRun(status) ==
    /\ packing' = [packing EXCEPT !.status = status]
    /\ sending' = IdleRun

\* InPost's sender is the one that was reviewed; any other is read again
Sender == IF order.courier = "inpost" /\ sending.shown # {} THEN sending.from
          ELSE address

Claim ==
    /\ sending.pc = "read"
    /\ UNCHANGED <<order, screen, address, edits, parcelFaults>>
    /\ IF packing.status \notin {"pending", "error"}
       THEN sending' = IdleRun /\ UNCHANGED <<packing, parcelCauses>>
       ELSE \E d \in sending.draft :
              /\ parcelCauses' = parcelCauses \cup
                    (IF Sender # sending.from THEN {"moved"} ELSE {})
              /\ IF Refuses(d.packing, d.window) THEN EndRun("error")
                 ELSE /\ packing' = [packing EXCEPT !.status = "executing"]
                      /\ sending' = [sending EXCEPT !.pc = "posting",
                                        !.todo = CallSpecs(d.packing, Sender)]

\* the last check before a paid call: all that the service needs is there
Complete(spec) ==
    \/ order.courier = "apaczka"
    \/ spec.payload.service = "locker" /\ order.locker
    \/ spec.payload.service = "courier" /\ order.street

Post ==
    /\ sending.pc = "posting" /\ sending.todo # <<>>
    /\ LET spec == Head(sending.todo)
       IN IF Complete(spec)
          THEN /\ packing' = [packing EXCEPT !.labels = Append(@, spec)]
               /\ sending' = [sending EXCEPT !.todo = Tail(@)]
          ELSE EndRun("error")
    /\ UNCHANGED <<order, screen, address, edits, parcelFaults, parcelCauses>>

PostFails ==
    /\ sending.pc = "posting" /\ sending.todo # <<>>
    /\ parcelFaults < MaxParcelFaults /\ parcelFaults' = parcelFaults + 1
    /\ EndRun("error")
    /\ UNCHANGED <<order, screen, address, edits, parcelCauses>>

Done ==
    /\ sending.pc = "posting" /\ sending.todo = <<>> /\ EndRun("created")
    /\ UNCHANGED <<order, screen, address, edits, parcelFaults, parcelCauses>>

Move ==
    /\ address = 1 /\ address' = 2
    /\ UNCHANGED <<order, packing, screen, sending, edits, parcelFaults, parcelCauses>>

ParcelInit ==
    /\ order \in Order /\ packing = Packing(order)
    /\ screen = {} /\ sending = IdleRun /\ address = 1
    /\ edits = 0 /\ parcelFaults = 0 /\ parcelCauses = {}

\* a window matters to the one service that has few
Windows == IF packing.service = "point" THEN {"none", "odd"} ELSE {"none"}

ParcelNext ==
    \/ \E rows \in EditPlan : Repack(rows)
    \/ \E s \in {"locker", "courier", "door", "point", "unlisted"} : ChooseService(s)
    \/ GivePhone \/ Review
    \/ \E w \in Windows : Show(w) \/ \E v \in {{}, screen} : ReadDraft(w, v)
    \/ Claim \/ Post \/ PostFails \/ Done \/ Move

PackingSpec == ParcelInit /\ [][ParcelNext]_parcelVars

-----------------------------------------------------------------------------
(***************************************************************************)
(* Properties.                                                             *)
(***************************************************************************)
\* The planner's boxes hold the order: plastic exactly, glass with less than
\* a box to spare, in no more boxes than it takes, each small enough for a
\* locker (calc_packages).
PlanHoldsOrder ==
    ~packing.operator =>
        LET held(glass) ==
                Sum([r \in DOMAIN packing.plan |->
                        IF (packing.plan[r].type \in GlassType) = glass
                        THEN packing.plan[r].qty * Room[packing.plan[r].type] ELSE 0])
            wrapped == Sum([r \in DOMAIN packing.plan |-> packing.plan[r].qty])
        IN /\ held(FALSE) = Goods(order.lines, FALSE)
           /\ held(TRUE) - Goods(order.lines, TRUE) \in 0..1
           /\ wrapped <= (Goods(order.lines, FALSE) + 5) \div 6 + 1
                            + (Goods(order.lines, TRUE) + 1) \div 2
           /\ FitWarnings(packing.plan, "inpost") = {}

Despite(excuses) == parcelCauses \cap excuses = {}

\* A draft that is created collected the order's cash to the grosz, over
\* however many runs, and never insured a parcel for less than it collects
\* (cod_allocation, the position in apaczka_call_specs, _insurance_payload).
CollectsTheTotal ==
    packing.status = "created" /\ Despite({"two_rows", "late_edit"}) =>
        Sum([l \in DOMAIN packing.labels |-> packing.labels[l].payload.money.cod]) = Cod(order)

\* A parcel is insured for what it collects, rounded up to a whole zloty, so
\* a lost parcel never pays less than its cash on delivery (inpost.py,
\* _insurance_payload).
InsuredForCod ==
    \A l \in DOMAIN packing.labels :
        packing.labels[l].payload.money.insured - packing.labels[l].payload.money.cod \in 0..99

\* No parcel collects a grosz more or less than its fair share, and the glass
\* is paid for where the glass is (_largest_remainder, _assign_half_packs).
FairShares ==
    LET parcels == PhysicalParcels(packing.plan)
        parts == CodAllocation(order, packing.plan)
        weight == Weights(order.lines, parcels)
        goods == order.cod - order.shipping
    IN Cod(order) > 0 /\ parts # <<>> =>
        \A p \in DOMAIN parcels :
            LET share == goods * weight[p] * Len(parcels) + order.shipping * Sum(weight)
                off == parts[p] * Sum(weight) * Len(parcels) - share
            IN off < 2 * Sum(weight) * Len(parcels) /\ -off < 2 * Sum(weight) * Len(parcels)

\* A draft that is created has one label for every parcel of its plan.
EveryParcelIsSent ==
    packing.status = "created" /\ Despite({"two_rows", "late_edit"}) =>
        LET parcels == PhysicalParcels(packing.plan)
        IN /\ Len(packing.labels) = Len(parcels)
           /\ \A p \in DOMAIN parcels : IsDone(packing, parcels[p])

\* Labels of one draft number one plan: 1/2 is never beside 2/3
\* (_breakdown_locked_reason).
NumberedTogether ==
    Despite({"two_rows", "late_edit"}) =>
        \A k, l \in DOMAIN packing.labels :
            packing.labels[k].parcel.type = packing.labels[l].parcel.type =>
                packing.labels[k].parcel.of = packing.labels[l].parcel.of

\* Cash is never collected at a locker for one of several parcels.
LockerCollectsOnce ==
    \A l \in DOMAIN packing.labels :
        packing.labels[l].payload.service = "locker" /\ Cod(order) > 0
            => packing.labels[l].payload.money.cod = Cod(order)

\* A reviewed run posts what was reviewed, whatever was edited meanwhile
\* (fingerprints_match; the copy that was read is the copy that is sent).
ReviewedIsSent ==
    sending.pc = "posting" /\ Despite({"moved"}) =>
        \A v \in sending.shown :
            \A k \in DOMAIN sending.todo :
                \E j \in DOMAIN v.payloads : v.payloads[j] = sending.todo[k]

(***************************************************************************)
(* What is sent is what was planned and reviewed, though not yet that it   *)
(* is paid for: every parcel, of one plan, with the payload that was shown *)
(* (workflow.py:184).                                                      *)
(***************************************************************************)
SentAsReviewed == EveryParcelIsSent /\ NumberedTogether /\ ReviewedIsSent

\* The order, its plan, the edits of the operator and the labels bought keep
\* their types (drafts.py:117).
ParcelTypeOK ==
    /\ order \in Order
    /\ packing.status \in {"needs_review", "pending", "executing", "created", "error"}
    /\ packing.phone \in BOOLEAN /\ packing.operator \in BOOLEAN
    /\ \A r \in DOMAIN packing.plan : packing.plan[r].type \in ParcelType
    /\ \A l \in DOMAIN packing.labels :
            packing.labels[l].payload.money.cod \in Nat
    /\ order.courier = "inpost" /\ packing.status # "needs_review" => packing.phone
    /\ sending.pc \in {"idle", "read", "posting"} /\ Cardinality(screen) <= 1
    /\ address \in 1..2 /\ edits \in 0..MaxEdits
    /\ parcelFaults \in 0..MaxParcelFaults
    /\ parcelCauses \subseteq {"two_rows", "late_edit", "moved"}

(***************************************************************************)
(* The parcels sent are the order: all of its goods, all of its cash in    *)
(* fair shares, each parcel of one plan, and what the operator reviewed,   *)
(* over failed and resumed runs and edits between them (workflow.py:184,   *)
(* cod.py:81).                                                             *)
(***************************************************************************)
ShippedAsPlanned ==
    /\ ParcelTypeOK /\ PlanHoldsOrder /\ SentAsReviewed
    /\ CollectsTheTotal /\ InsuredForCod /\ FairShares /\ LockerCollectsOnce
=============================================================================
