----------------------------- MODULE DraftRecord -----------------------------
(***************************************************************************)
(* What a shipping draft says: the record built from an order of the shop  *)
(* or of Allegro (shipping_draft_composition.py), and the record a sync    *)
(* makes of it and of the stored draft (application/drafts.py).            *)
(*                                                                         *)
(* Texts are reduced to what the code tells apart: a shipping title to the *)
(* words it looks for, a phone number to whether it can be normalised, the *)
(* lines of an order (and the parcel plan made from them) to a number.     *)
(***************************************************************************)
EXTENDS Integers

CONSTANTS
    COURIER_TITLE_MAP,         \* titles mapped to a courier
    INPOST_SERVICE_TITLE_MAP,  \* titles mapped to an InPost service
    APACZKA_SERVICE_TITLE_MAP  \* titles mapped to an Apaczka service

Title == {"none", "paczkomat", "inpost", "mapped", "other"}
InPostService == {"paczkomat", "kurier"}
Provider == {"inpost", "dpd", "poczta"}
ApaczkaService == {"none", "23", "64", "catalog"}
Courier == {"inpost", "apaczka", "allegro_delivery"}
Service == {"inpost_locker_standard", "inpost_courier_standard", "apaczka",
            "allegro_delivery"}

ASSUME TitleMapsAssumption ==
    /\ DOMAIN COURIER_TITLE_MAP \subseteq Title
    /\ \A t \in DOMAIN COURIER_TITLE_MAP :
          COURIER_TITLE_MAP[t] \in {"inpost", "apaczka"}
    /\ DOMAIN INPOST_SERVICE_TITLE_MAP \subseteq Title
    /\ \A t \in DOMAIN INPOST_SERVICE_TITLE_MAP :
          INPOST_SERVICE_TITLE_MAP[t] \in InPostService
    /\ DOMAIN APACZKA_SERVICE_TITLE_MAP \subseteq Title
    /\ \A t \in DOMAIN APACZKA_SERVICE_TITLE_MAP :
          APACZKA_SERVICE_TITLE_MAP[t] \in ApaczkaService \ {"none"}

Status == {"pending", "needs_review", "pending_confirmation", "executing",
           "created", "error", "cancelled"}

(***************************************************************************)
(* An order in the shape both sources are brought to.  octolize: its title *)
(* is a pick-up point chosen in the shop's widget, with the providers its  *)
(* code and its note name and (point) an id; method: it names an Allegro   *)
(* delivery method; notedLocker: a locker id stands elsewhere in it.       *)
(* Being sent is a state of Allegro alone.                                 *)
(***************************************************************************)
Order == {order \in
     [source : {"shopify", "allegro"},
      phone : {"null", "empty", "bad", "ok"},
      title : Title, octolize : BOOLEAN,
      codeProvider : Provider \cup {"none"},
      noteProvider : Provider \cup {"none"},
      point : BOOLEAN, notedLocker : BOOLEAN, method : BOOLEAN,
      lines : Nat, readable : BOOLEAN, gateway : {"cod", "other"},
      outstanding : {"missing", "invalid", "negative", "subcent", "zero",
                     "due", "due2"},
      currency : {"PLN", "other"}, cancelled : BOOLEAN,
      fulfillment : {"none", "new", "processing", "partial", "fulfilled",
                     "sent", "cancelled"},
      fulfillments : {"none", "untracked", "tracked"}] :
     order.fulfillment = "sent" => order.source = "allegro"}

-----------------------------------------------------------------------------
(***************************************************************************)
(* From order to draft.                                                    *)
(***************************************************************************)
ValidPhone(phone) == phone = "ok"

\* normalize_pl_phone: nothing that is no Polish number survives
NormalizedPhone(phone) == IF ValidPhone(phone) THEN "ok" ELSE "null"

\* mutant: a number that cannot be normalised is kept as it stands
DraftPhoneRaw(order) == order.phone

\* an empty number is not normalised at all
DraftPhone(order) ==
    IF order.phone \in {"null", "empty"} THEN order.phone
    ELSE NormalizedPhone(order.phone)

\* _extract_shopify_pickup_point: the code's provider before the note's
PickupProvider(order) ==
    IF ~order.octolize THEN "none"
    ELSE IF order.codeProvider # "none" THEN order.codeProvider
    ELSE order.noteProvider

HasPoint(order) == order.octolize /\ order.point

APACZKA_PICKUP_SERVICES == [dpd |-> "23", poczta |-> "64"]

SERVICES_REQUIRING_PICKUP_POINT == {"23", "64"}

UsesAllegroDelivery(order) == order.source = "allegro" /\ order.method

PickCourier(title) ==
    IF title \in DOMAIN COURIER_TITLE_MAP THEN COURIER_TITLE_MAP[title]
    ELSE IF title \in {"paczkomat", "inpost"} THEN "inpost" ELSE "apaczka"

PickInPostService(title) ==
    IF title \in DOMAIN INPOST_SERVICE_TITLE_MAP
    THEN INPOST_SERVICE_TITLE_MAP[title]
    ELSE IF title = "paczkomat" THEN "paczkomat" ELSE "kurier"

PickApaczkaService(title) ==
    IF title \in DOMAIN APACZKA_SERVICE_TITLE_MAP
    THEN APACZKA_SERVICE_TITLE_MAP[title] ELSE "none"

DraftCourier(order) ==
    LET provider == PickupProvider(order) IN
    IF UsesAllegroDelivery(order) THEN "allegro_delivery"
    ELSE IF provider = "inpost" THEN "inpost"
    ELSE IF provider # "none" THEN "apaczka"
    ELSE PickCourier(order.title)

\* of an InPost draft, or of an Allegro one that goes to a locker
DraftInPostService(order) ==
    IF UsesAllegroDelivery(order)
    THEN IF order.title = "paczkomat" THEN "paczkomat" ELSE "none"
    ELSE IF DraftCourier(order) # "inpost" THEN "none"
    ELSE IF PickupProvider(order) = "inpost" THEN "paczkomat"
    ELSE PickInPostService(order.title)

DraftApaczkaService(order) ==
    IF DraftCourier(order) # "apaczka" THEN "none"
    ELSE IF PickupProvider(order) \in {"dpd", "poczta"}
    THEN IF HasPoint(order)
         THEN APACZKA_PICKUP_SERVICES[PickupProvider(order)] ELSE "none"
    ELSE PickApaczkaService(order.title)

DraftService(order) ==
    CASE DraftCourier(order) = "allegro_delivery" -> "allegro_delivery"
      [] DraftCourier(order) = "inpost" ->
            IF DraftInPostService(order) = "paczkomat"
            THEN "inpost_locker_standard" ELSE "inpost_courier_standard"
      [] OTHER -> "apaczka"

HasLocker(order) ==
    DraftInPostService(order) = "paczkomat" /\ (order.point \/ order.notedLocker)

\* _shipping_service_match_fields
Match(order) ==
    LET courier == DraftCourier(order)
        named == order.title # "none" IN
    IF \/ courier \in {"allegro_delivery", "inpost"}
       \/ DraftApaczkaService(order) # "none"
    THEN "auto_matched"
    ELSE IF named \/ PickupProvider(order) # "none"
    THEN "requires_selection" ELSE "unrecognized"

\* _shopify_cod_details: the amount to collect, or why it cannot be told
Cod(order) ==
    IF order.source # "shopify" \/ order.gateway # "cod"
    THEN [amount |-> "none", error |-> FALSE]
    ELSE CASE order.outstanding \in {"missing", "invalid", "negative",
                                     "subcent"} ->
                 [amount |-> "none", error |-> TRUE]
           [] order.outstanding = "zero" ->
                 [amount |-> "none", error |-> FALSE]
           [] OTHER ->
                 IF order.currency # "PLN"
                 THEN [amount |-> "none", error |-> TRUE]
                 ELSE [amount |-> order.outstanding, error |-> FALSE]

Reason == {"unreadable_products", "missing_phone", "apaczka_service_unmatched",
           "apaczka_pickup_point_missing", "cod_error"}

\* review_reasons
ReviewReasons(order) ==
    LET service == DraftApaczkaService(order)
        apaczka == DraftCourier(order) = "apaczka"
        Holds(r) ==
            CASE r = "unreadable_products" -> ~order.readable
              [] r = "missing_phone" -> DraftPhone(order) = "null"
              [] r = "apaczka_service_unmatched" -> apaczka /\ service = "none"
              [] r = "apaczka_pickup_point_missing" ->
                    /\ apaczka /\ service \in SERVICES_REQUIRING_PICKUP_POINT
                    /\ ~HasPoint(order)
              [] r = "cod_error" -> Cod(order).error
    IN {r \in Reason : Holds(r)}

\* source_fulfillment_status
SourceFulfillment(order) ==
    LET raw == order.fulfillment IN
    IF order.source = "allegro"
    THEN CASE raw = "sent" -> "fulfilled" [] OTHER -> raw
    ELSE IF raw = "none" /\ order.fulfillments # "none"
    THEN "fulfilled" ELSE raw

StatusFromSource(order, fallback) ==
    IF order.cancelled \/ SourceFulfillment(order) = "cancelled"
    THEN "cancelled"
    ELSE IF SourceFulfillment(order) = "fulfilled" THEN "created" ELSE fallback

SourceTracking(order) ==
    IF order.source = "shopify" /\ order.fulfillments = "tracked"
    THEN "source" ELSE "none"

\* build_draft_record
Build(order) ==
    [courier |-> DraftCourier(order), service |-> DraftService(order),
     apaczka |-> DraftApaczkaService(order), point |-> HasPoint(order),
     match |-> Match(order), tracking |-> SourceTracking(order),
     origin |-> "none", shipments |-> 0, draftId |-> FALSE,
     started |-> FALSE,
     status |-> StatusFromSource(order,
                   IF ReviewReasons(order) # {} THEN "needs_review"
                                                ELSE "pending"),
     plan |-> order.lines, planBy |-> "planner",
     unreadable |-> ~order.readable, items |-> order.lines,
     pickup |-> FALSE, phone |-> DraftPhone(order), locker |-> HasLocker(order),
     cod |-> Cod(order), error |-> FALSE,
     fulfillment |-> SourceFulfillment(order)]

Draft == [courier : Courier, service : Service, apaczka : ApaczkaService,
          point : BOOLEAN,
          match : {"auto_matched", "requires_selection", "unrecognized",
                   "manual"},
          tracking : {"none", "source", "ours"},
          origin : {"none", "system", "external"},
          shipments : Nat, draftId : BOOLEAN, started : BOOLEAN,
          status : Status, plan : Nat,
          planBy : {"planner", "operator"}, unreadable : BOOLEAN, items : Nat,
          pickup : BOOLEAN, phone : {"null", "empty", "ok"}, locker : BOOLEAN,
          cod : [amount : {"none", "due", "due2"}, error : BOOLEAN],
          error : BOOLEAN,
          fulfillment : {"none", "new", "processing", "partial", "fulfilled",
                         "cancelled"}]

-----------------------------------------------------------------------------
(***************************************************************************)
(* From order and stored draft to draft.                                   *)
(***************************************************************************)
SYNC_TERMINAL_STATUSES == {"created", "cancelled"}
SYNC_BUSY_STATUSES == {"executing", "pending_confirmation"}
SYNC_EXECUTION_STARTED == SYNC_BUSY_STATUSES \cup {"created"}

InPostPhoneMissing(draft) == draft.courier = "inpost" /\ ~ValidPhone(draft.phone)

\* mutant: an executing draft takes the status of its order
MergedStatusBusy(old, new) ==
    IF old.status \in SYNC_TERMINAL_STATUSES THEN old.status ELSE new.status

MergedStatus(old, new) ==
    IF old.status = "pending_confirmation" /\ new.tracking # "none"
    THEN "created"
    ELSE IF old.status \in SYNC_TERMINAL_STATUSES \cup SYNC_BUSY_STATUSES
    THEN old.status
    ELSE IF new.status \in {"created", "cancelled"} THEN new.status
    ELSE IF old.status = "error" THEN "error"
    ELSE IF /\ old.status = "pending" /\ new.status = "needs_review"
            /\ ~new.unreadable /\ ~InPostPhoneMissing(new)
    THEN "pending"
    ELSE new.status

MoneyIsFrozen(old) == old.started \/ old.status \in SYNC_EXECUTION_STARTED

ServiceIsFrozen(old) ==
    old.status \in SYNC_BUSY_STATUSES \cup SYNC_TERMINAL_STATUSES

KeepsApaczkaService(old, new) ==
    old.apaczka # "none" /\ new.courier = old.courier

KeepsPlan(old) == old.planBy = "operator"

\* mutant: the shipments are not among the preserved fields
WithExecutionUnshipped(old, new) ==
    [new EXCEPT !.started = old.started, !.draftId = old.draftId,
                !.pickup = old.pickup]

\* _SYNC_PRESERVED_FIELDS
WithExecution(old, new) ==
    [new EXCEPT !.shipments = old.shipments, !.started = old.started,
                !.draftId = old.draftId, !.pickup = old.pickup]

\* merge_synced_draft
Merge(old, new) ==
    LET fromNew == [WithExecution(old, new) EXCEPT
            !.tracking = IF old.tracking # "none" THEN old.tracking ELSE @,
            !.origin = IF new.tracking = "none" \/ old.origin # "none"
                       THEN old.origin
                       ELSE IF old.draftId THEN "system" ELSE "external",
            !.status = MergedStatus(old, new),
            !.error = old.error /\ MergedStatus(old, new) = "error"]
        fulfilled == IF old.fulfillment = "fulfilled"
                     THEN [fromNew EXCEPT !.fulfillment = "fulfilled"]
                     ELSE fromNew
        apaczka == IF KeepsApaczkaService(old, new)
                   THEN [fulfilled EXCEPT
                           !.apaczka = old.apaczka,
                           !.match = IF old.match = "manual"
                                     THEN "manual" ELSE @]
                   ELSE fulfilled
        packed == IF KeepsPlan(old)
                  THEN [apaczka EXCEPT !.plan = old.plan,
                                       !.planBy = "operator"]
                  ELSE apaczka
        serviced == IF ServiceIsFrozen(old)
                    THEN [packed EXCEPT !.service = old.service,
                                        !.courier = old.courier]
                    ELSE packed
    IN IF MoneyIsFrozen(old)
       THEN [serviced EXCEPT !.cod = old.cod, !.items = old.items]
       ELSE serviced
=============================================================================
