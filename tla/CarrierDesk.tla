------------------------------ MODULE CarrierDesk ------------------------------
(***************************************************************************)
(* What is asked of the carriers once a draft is created: an operator      *)
(* cancels a parcel or prints the labels of several drafts, a scheduled    *)
(* job fills in Apaczka's pickup numbers.  The clients turn what a carrier *)
(* answers into the shared exceptions, the endpoints those into what the   *)
(* operator is told.                                                       *)
(***************************************************************************)
EXTENDS Integers, Sequences, FiniteSets

CONSTANTS
    Shipped,           \* created drafts: [courier, parcels], parcels a sequence
    MaxBatch,          \* bound: drafts of a batch
    MaxRequests,       \* bound: cancellations and batches
    MaxCycles,         \* bound: cycles of the job
    MaxAttempts,       \* MAX_PICKUP_NUMBER_ATTEMPTS
    MaxDeskFaults      \* bound: calls that fail

ParcelsOf(d) == {d.parcels[k] : k \in DOMAIN d.parcels}
ParcelId == UNION {ParcelsOf(d) : d \in Shipped}
DraftOf(p) == CHOOSE d \in Shipped : p \in ParcelsOf(d)

ASSUME DeskShape ==
    /\ \A d \in Shipped : /\ d.courier \in {"inpost", "apaczka", "allegro"}
                          /\ d.parcels \in Seq(Nat) /\ d.parcels # <<>>
    /\ \A d, e \in Shipped : d # e => ParcelsOf(d) \cap ParcelsOf(e) = {}
    /\ MaxBatch \in Nat /\ MaxRequests \in Nat /\ MaxCycles \in Nat /\ MaxDeskFaults \in Nat
    /\ MaxAttempts \in Nat \ {0}

VARIABLES
    carrier,      \* [ParcelId -> new (no label yet), ready, sent, cancelled]
    numbered,     \* parcels Apaczka has given a pickup number
    stored,       \* [Shipped -> [numbers, attempts]]: the drafts
    canceller, printer, poller,     \* the requests and the job
    answer,       \* [ParcelId -> status last told of its cancellation; 0]
    learned,      \* [Shipped -> parcels whose number the job was told]
    asked,        \* [Shipped -> cycles it was asked for in]
    requests, cycles, deskFaults,
    repeated,     \* parcels cancelled before the request to cancel them
    unanswered    \* drafts the job met a failure with

deskVars == <<carrier, numbered, stored, canceller, printer, poller, answer, learned, asked,
              requests, cycles, deskFaults, repeated, unanswered>>

IdleCanceller == [pc |-> "idle", parcel |-> 0]
IdlePrinter == [pc |-> "idle", of |-> <<>>, todo |-> <<>>, got |-> <<>>, pdfs |-> <<>>,
                notReady |-> {}, told |-> 0, met |-> {}]
IdlePoller == [pc |-> "idle", todo |-> {}, of |-> {}, left |-> {}, view |-> <<>>, found |-> {}]

-----------------------------------------------------------------------------
(***************************************************************************)
(* The exceptions of shipping_exceptions.py, by what is to be done.        *)
(***************************************************************************)
PayloadErrors ==
    {"MissingShippingAddressError", "UnparseableShippingLineError", "UnknownCarrierError",
     "InvalidLockerIdError", "InvalidPhoneNumberError", "InvalidPostCodeError",
     "UnparseableAddressError", "WeightOutOfRangeError", "PackageTypeUnknownError"}

AuthErrors ==
    {"InPostAuthError", "ApaczkaAuthError", "ApaczkaSignatureError", "AllegroAuthError",
     "ApaczkaInsufficientBalanceError", "FakturowniaAuthError"}

InPostBusinessErrors ==
    {"InPostBusinessError", "InPostLockerUnavailableError", "InPostInvalidServiceError",
     "InPostRecipientPhoneError", "InPostShipmentNotCancellable", "InPostOrganizationError"}

BusinessErrors ==
    InPostBusinessErrors \cup
    {"LabelNotReadyError", "ApaczkaBusinessError", "ApaczkaServiceUnavailableError",
     "AllegroBusinessError", "AllegroCommandPending", "PickupSlotUnavailableError",
     "AddressGeocodingError", "FakturowniaBusinessError"}

TransientErrors ==
    {"CourierTimeoutError", "CourierConnectionError", "CourierServerError",
     "InPostTransientError", "ApaczkaTransientError", "FakturowniaServerError"}

CancellationErrors ==
    {"ShipmentAlreadyDispatchedError", "DispatchAlreadyAcceptedError", "MissingDispatchIdError"}

\* the handler of all routers: the first category that fits
Classified(error) ==
    CASE error \in PayloadErrors -> 400
      [] error \in AuthErrors \cup TransientErrors -> 502
      [] error = "LabelNotReadyError" -> 409
      [] error \in BusinessErrors \ {"LabelNotReadyError"} -> 422
      [] error \in CancellationErrors -> 409
      [] OTHER -> 500

\* _courier_cancel_http_status
CancelStatus(error) ==
    CASE error \in AuthErrors -> 401
      [] error \in BusinessErrors -> 409
      [] error \in TransientErrors -> 503
      [] OTHER -> 500

\* InPostClient._request
InPostRaises(action, response) ==
    CASE response \in {"lost", "down"} -> "InPostTransientError"
      [] response = "denied" -> "InPostAuthError"
      [] response = "blocked" -> "InPostOrganizationError"
      [] response = "refused" /\ action = "cancel" -> "InPostShipmentNotCancellable"
      [] OTHER -> "InPostBusinessError"

\* ApaczkaClient._call: the body may fail where the transport does not
ApaczkaRaises(response) ==
    CASE response \in {"lost", "down"} -> "ApaczkaTransientError"
      [] response = "denied" -> "ApaczkaSignatureError"
      [] response = "blocked" -> "ApaczkaInsufficientBalanceError"
      [] OTHER -> "ApaczkaBusinessError"

Raises(p, action, response) ==
    IF DraftOf(p).courier = "inpost" THEN InPostRaises(action, response)
    ELSE ApaczkaRaises(response)

Failure == {"lost", "down", "denied", "blocked"}
DeskFault == deskFaults < MaxDeskFaults /\ deskFaults' = deskFaults + 1
OnlyCarrier == UNCHANGED <<stored, canceller, printer, poller, answer, learned, asked, requests,
                           cycles, deskFaults, repeated, unanswered>>

(***************************************************************************)
(* The carrier confirms a parcel and collects it, and numbers its pickup.  *)
(***************************************************************************)
Advance(p) ==
    /\ \/ carrier[p] = "new" /\ carrier' = [carrier EXCEPT ![p] = "ready"]
       \/ carrier[p] = "ready" /\ carrier' = [carrier EXCEPT ![p] = "sent"]
    /\ UNCHANGED numbered /\ OnlyCarrier

NumberPickup(p) ==
    /\ DraftOf(p).courier = "apaczka" /\ carrier[p] # "cancelled"
    /\ p \notin numbered /\ numbered' = numbered \cup {p}
    /\ UNCHANGED carrier /\ OnlyCarrier

-----------------------------------------------------------------------------
(***************************************************************************)
(* DELETE of a shipment or of an Apaczka order.  The draft is not told.    *)
(***************************************************************************)
OnlyCanceller == UNCHANGED <<numbered, stored, printer, poller, learned, asked, cycles, unanswered>>

AskCancel(p) ==
    /\ canceller.pc = "idle" /\ requests < MaxRequests /\ requests' = requests + 1
    /\ DraftOf(p).courier # "allegro"
    /\ canceller' = [pc |-> IF DraftOf(p).courier = "inpost" THEN "preflight" ELSE "delete",
                     parcel |-> p]
    /\ repeated' = IF carrier[p] = "cancelled" THEN repeated \cup {p} ELSE repeated
    /\ UNCHANGED <<carrier, answer, deskFaults>> /\ OnlyCanceller

TellCancel(status) ==
    canceller' = IdleCanceller /\ answer' = [answer EXCEPT ![canceller.parcel] = status]

\* mutant: a parcel that is past cancelling needs no call
PreflightQuiet ==
    /\ canceller.pc = "preflight"
    /\ LET p == canceller.parcel
       IN IF carrier[p] \in {"sent", "cancelled"} THEN TellCancel(204)
          ELSE canceller' = [canceller EXCEPT !.pc = "delete"] /\ UNCHANGED answer
    /\ UNCHANGED <<carrier, requests, deskFaults, repeated>> /\ OnlyCanceller

\* a parcel that was handed over, or cancelled, is not asked for
Preflight ==
    /\ canceller.pc = "preflight"
    /\ LET p == canceller.parcel
       IN IF carrier[p] \in {"sent", "cancelled"}
          THEN TellCancel(CancelStatus("InPostShipmentNotCancellable"))
          ELSE canceller' = [canceller EXCEPT !.pc = "delete"] /\ UNCHANGED answer
    /\ UNCHANGED <<carrier, requests, deskFaults, repeated>> /\ OnlyCanceller

\* of the failures only a refusal goes on to the DELETE
PreflightFails ==
    /\ canceller.pc = "preflight" /\ DeskFault
    /\ \E response \in Failure :
          LET error == InPostRaises("get", response)
          IN IF error \in InPostBusinessErrors
             THEN canceller' = [canceller EXCEPT !.pc = "delete"] /\ UNCHANGED answer
             ELSE TellCancel(CancelStatus(error))
    /\ UNCHANGED <<carrier, requests, repeated>> /\ OnlyCanceller

Delete ==
    /\ canceller.pc = "delete"
    /\ LET p == canceller.parcel
       IN IF carrier[p] \in {"new", "ready"}
          THEN TellCancel(204) /\ carrier' = [carrier EXCEPT ![p] = "cancelled"]
          ELSE TellCancel(CancelStatus(Raises(p, "cancel", "refused"))) /\ UNCHANGED carrier
    /\ UNCHANGED <<requests, deskFaults, repeated>> /\ OnlyCanceller

\* the answer of a DELETE that was carried out may be the one that is lost
DeleteFails ==
    /\ canceller.pc = "delete" /\ DeskFault
    /\ \E response \in Failure :
          /\ TellCancel(CancelStatus(Raises(canceller.parcel, "cancel", response)))
          /\ \/ UNCHANGED carrier
             \/ /\ response = "lost" /\ carrier[canceller.parcel] \in {"new", "ready"}
                /\ carrier' = [carrier EXCEPT ![canceller.parcel] = "cancelled"]
    /\ UNCHANGED <<requests, repeated>> /\ OnlyCanceller

-----------------------------------------------------------------------------
(***************************************************************************)
(* A batch of labels: of every parcel of every draft, or none.  They are   *)
(* printed in the order they are fetched, a group for each draft.          *)
(***************************************************************************)
OnlyPrinter == UNCHANGED <<carrier, numbered, stored, canceller, poller, answer, learned, asked,
                           cycles, repeated, unanswered>>

AskLabels(ds) ==
    /\ printer.pc = "idle" /\ requests < MaxRequests /\ requests' = requests + 1
    /\ printer' = [IdlePrinter EXCEPT !.pc = "fetch", !.of = ds, !.todo = ds]
    /\ UNCHANGED deskFaults /\ OnlyPrinter

TellPrinter(status, response) ==
    [printer EXCEPT !.pc = "idle", !.told = status, !.met = @ \cup {response}, !.todo = <<>>,
                    !.got = <<>>]

Skipped(response) ==
    [printer EXCEPT !.todo = Tail(@), !.got = <<>>, !.met = @ \cup {response},
                    !.notReady = @ \cup {Head(printer.todo)}]

\* InPost's refusal means that the label is not ready; any other failure,
\* and a refusal of the others, ends the batch
LabelFails(response) ==
    LET d == Head(printer.todo) error == InPostRaises("label", response)
    IN CASE d.courier = "inpost" /\ error \in InPostBusinessErrors -> Skipped(response)
         [] d.courier = "inpost" /\ error \notin InPostBusinessErrors
            -> TellPrinter(Classified(error), response)
         [] d.courier = "apaczka" -> TellPrinter(Classified(ApaczkaRaises(response)), response)
         [] OTHER -> TellPrinter(502, response)

Printable(p) == carrier[p] \in {"ready", "sent"}

FetchLabel ==
    /\ printer.pc = "fetch" /\ printer.todo # <<>>
    /\ LET d == Head(printer.todo)
           p == d.parcels[Len(printer.got) + 1]
           got == Append(printer.got, p)
       IN \/ /\ Printable(p) /\ UNCHANGED deskFaults
             /\ printer' = IF Len(got) < Len(d.parcels) THEN [printer EXCEPT !.got = got]
                           ELSE [printer EXCEPT !.got = <<>>, !.todo = Tail(@),
                                                !.pdfs = Append(@, got)]
          \/ /\ ~Printable(p) /\ UNCHANGED deskFaults
             /\ printer' = LabelFails("refused")
          \/ DeskFault /\ \E response \in Failure : printer' = LabelFails(response)
    /\ UNCHANGED requests /\ OnlyPrinter

Print_ ==
    /\ printer.pc = "fetch" /\ printer.todo = <<>>
    /\ printer' = [printer EXCEPT !.pc = "idle", !.told = IF printer.notReady # {} THEN 409 ELSE 200]
    /\ UNCHANGED <<requests, deskFaults>> /\ OnlyPrinter

-----------------------------------------------------------------------------
(***************************************************************************)
(* The job of the pickup numbers: each draft as it was read when the cycle *)
(* began, its parcels one after the other, its numbers in one write.       *)
(***************************************************************************)
OnlyPoller == UNCHANGED <<carrier, numbered, canceller, printer, answer, requests, repeated>>

NeedsNumber(d) ==
    /\ d.courier = "apaczka" /\ stored[d].attempts < MaxAttempts
    /\ ParcelsOf(d) \ stored[d].numbers # {}

BeginCycle ==
    /\ poller.pc = "idle" /\ cycles < MaxCycles /\ cycles' = cycles + 1
    /\ LET pending == {d \in Shipped : NeedsNumber(d)}
       IN /\ pending # {}
          /\ poller' = [IdlePoller EXCEPT !.pc = "draft", !.todo = pending, !.view = stored]
    /\ UNCHANGED <<stored, learned, asked, deskFaults, unanswered>> /\ OnlyPoller

\* one draft after the other
TakeDraft ==
    /\ poller.pc = "draft"
    /\ IF poller.todo = {} THEN poller' = IdlePoller /\ UNCHANGED asked
       ELSE \E d \in poller.todo :
              /\ poller' = [poller EXCEPT !.pc = "ask", !.todo = @ \ {d}, !.of = {d}, !.found = {},
                                          !.left = ParcelsOf(d) \ poller.view[d].numbers]
              /\ asked' = [asked EXCEPT ![d] = @ + 1]
    /\ UNCHANGED <<stored, learned, cycles, deskFaults, unanswered>> /\ OnlyPoller

OfPoller == CHOOSE d \in poller.of : TRUE

\* an order may not have its number yet
NumberTold(p) == {p} \cap numbered

\* an order that is not answered for ends the draft's turn, unwritten
AskNumber ==
    /\ poller.pc = "ask" /\ poller.left # {}
    /\ \E p \in poller.left :
          \/ /\ carrier[p] # "cancelled" /\ UNCHANGED <<deskFaults, unanswered>>
             /\ poller' = [poller EXCEPT !.left = @ \ {p}, !.found = @ \cup NumberTold(p)]
             /\ learned' = [learned EXCEPT ![OfPoller] = @ \cup NumberTold(p)]
          \/ /\ poller' = [poller EXCEPT !.pc = "draft", !.of = {}, !.left = {}, !.found = {}]
             /\ (carrier[p] = "cancelled" /\ UNCHANGED deskFaults) \/ DeskFault
             /\ unanswered' = unanswered \cup {OfPoller} /\ UNCHANGED learned
    /\ UNCHANGED <<stored, asked, cycles>> /\ OnlyPoller

WithNumbers(view, found) ==
    [numbers |-> view.numbers \cup found, attempts |-> view.attempts + 1]

WriteNumbers ==
    /\ poller.pc = "ask" /\ poller.left = {}
    /\ poller' = [poller EXCEPT !.pc = "draft", !.of = {}, !.found = {}]
    /\ \/ /\ stored' = [stored EXCEPT ![OfPoller] =
                           WithNumbers(poller.view[OfPoller], poller.found)]
          /\ UNCHANGED <<deskFaults, unanswered>>
       \/ DeskFault /\ unanswered' = unanswered \cup {OfPoller} /\ UNCHANGED stored
    /\ UNCHANGED <<learned, asked, cycles>> /\ OnlyPoller

-----------------------------------------------------------------------------
Batch == UNION {[1..n -> Shipped] : n \in 1..MaxBatch}

DeskInit ==
    /\ carrier \in [ParcelId -> {"new"}] /\ numbered = {}
    /\ stored = [d \in Shipped |-> [numbers |-> {}, attempts |-> 0]]
    /\ canceller = IdleCanceller /\ printer = IdlePrinter /\ poller = IdlePoller
    /\ answer = [p \in ParcelId |-> 0]
    /\ learned = [d \in Shipped |-> {}] /\ asked = [d \in Shipped |-> 0]
    /\ requests = 0 /\ cycles = 0 /\ deskFaults = 0 /\ repeated = {} /\ unanswered = {}

Cancelling == (\E p \in ParcelId : AskCancel(p)) \/ Preflight \/ PreflightFails \/ Delete \/ DeleteFails
Printing == (\E ds \in Batch : AskLabels(ds)) \/ FetchLabel \/ Print_
Numbering == BeginCycle \/ TakeDraft \/ AskNumber \/ WriteNumbers

\* the operator's requests, and the job, each beside the cancellations
DeskNext == (\E p \in ParcelId : Advance(p)) \/ Cancelling \/ Printing
JobNext == (\E p \in ParcelId : NumberPickup(p)) \/ Cancelling \/ Numbering

DeskSpec == DeskInit /\ [][DeskNext \/ JobNext]_deskVars

-----------------------------------------------------------------------------
\* A parcel, the answer to its cancellation, the numbers stored of a draft
\* and the tables of the batch keep their types (inpost.py:693,
\* labels.py:150).
DeskTypeOK ==
    /\ \A p \in ParcelId : /\ carrier[p] \in {"new", "ready", "sent", "cancelled"}
                           /\ answer[p] \in {0, 204, 401, 409, 503}
    /\ \A d \in Shipped : /\ stored[d].numbers \subseteq ParcelsOf(d)
                          /\ stored[d].attempts \in 0..MaxAttempts
    /\ canceller.pc \in {"idle", "preflight", "delete"}
    /\ printer.pc \in {"idle", "fetch"} /\ printer.told \in {0, 200, 409, 422, 502}
    /\ poller.pc \in {"idle", "draft", "ask"} /\ poller.found \subseteq numbered

(***************************************************************************)
(* A cancellation refused as too late has left the parcel with the         *)
(* carrier, also when an answer was lost on the way; only a parcel that an *)
(* earlier request had cancelled is refused like one that was sent         *)
(* (fulfillment.py:303, inpost.py:57).                                     *)
(***************************************************************************)
RefusedIsNotCancelled ==
    \A p \in ParcelId : answer[p] = 409 => carrier[p] # "cancelled" \/ p \in repeated

(***************************************************************************)
(* Whoever is told that a parcel is cancelled may stop waiting for the     *)
(* courier, however the collection raced the request (inpost.py:682).      *)
(***************************************************************************)
ToldIsCancelled == \A p \in ParcelId : answer[p] = 204 => carrier[p] = "cancelled"

(***************************************************************************)
(* A printed batch holds a label of every parcel of its drafts, in their   *)
(* order, though each is fetched by itself while parcels are cancelled and *)
(* confirmed (labels.py:196).                                              *)
(***************************************************************************)
PrintedIsWhole ==
    printer.told = 200 => printer.pdfs = [k \in DOMAIN printer.of |-> printer.of[k].parcels]

(***************************************************************************)
(* Only a carrier that answered can have made a batch fail with a fault of *)
(* the order: an outage is never passed off as a label that is not ready,  *)
(* or as a parcel the operator has to mend (labels.py:88, errors.py:100).  *)
(***************************************************************************)
OutageIsNotRefusal ==
    printer.told \in {409, 422} => printer.met \cap {"refused", "blocked"} # {}

(***************************************************************************)
(* No draft is asked for more often than the attempts allow, unless the    *)
(* carrier or the store failed in one of them (apaczka_pickup_poller.py).  *)
(***************************************************************************)
AskedAtMost == \A d \in Shipped \ unanswered : asked[d] <= MaxAttempts

(***************************************************************************)
(* A number the carrier has told is in the draft once its turn is over,    *)
(* unless another parcel of the draft failed after it.                     *)
(***************************************************************************)
LearnedIsKept ==
    poller.pc # "ask" => \A d \in Shipped \ unanswered : learned[d] \subseteq stored[d].numbers

(***************************************************************************)
(* What the desk and the drafts say of a parcel is so at the carrier, over *)
(* lost answers, outages and drafts asked for one by one (inpost.py:693,   *)
(* labels.py:88, apaczka_pickup_poller.py:119).                            *)
(***************************************************************************)
DeskIsTrue ==
    /\ DeskTypeOK /\ RefusedIsNotCancelled /\ ToldIsCancelled /\ PrintedIsWhole
    /\ OutageIsNotRefusal /\ AskedAtMost /\ LearnedIsKept
=============================================================================
