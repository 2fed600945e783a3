------------------------------ MODULE RulesProofs ------------------------------
(***************************************************************************)
(* Theorems about four of the parts MCRules runs: ServiceHealth, for any   *)
(* environment the process may be given and any number of reports and      *)
(* faults; CarrierDesk, for any drafts and parcels, batches of any size,   *)
(* and any number of requests, attempts, cycles and faults; PeriodInputs,  *)
(* for any documents, and any number of uploads, stages and faults; and    *)
(* ParcelShipping, for any orders and plans, and any number of edits and   *)
(* failed calls: what its sums are, what the planner and the sharing out   *)
(* of the cash compute for orders of any length, and that the parcels sent *)
(* are the order.                                                          *)
(***************************************************************************)
EXTENDS ServiceHealth, CarrierDesk, PeriodInputs, ParcelShipping,
        FiniteSetTheorems, SequenceTheorems, WellFoundedInduction, TLAPS

-----------------------------------------------------------------------------
(***************************************************************************)
(* The health report.  A report that is being put together has the shape   *)
(* of one; between two items everything it says was read before, so what   *)
(* is true of an item when it is read stays true of the report.            *)
(***************************************************************************)
ReportShape ==
    healthReport \in [live : BOOLEAN, at : 0..ItemCount,
                      items : [Item -> [status : HealthStatus \cup {"unread"}, worked : BOOLEAN]]]

HealthInv == ReportShape /\ HealthIsTrue

LEMMA TenItems == ItemCount = 10 /\ Item = 1..10
  BY DEF Integration, ItemCount, Item

\* A status of each item is one of the four declared (integrations.py:23).
LEMMA StatusIsDeclared ==
    ASSUME NEW i \in Item, NEW live \in BOOLEAN
    PROVE  ItemStatus(Integration[i], live) \in HealthStatus
<1>1. Integration[i] \in {"auth", "storage", "table_storage", "keyvault", "shopify",
                 "fakturownia", "allegro", "inpost", "apaczka", "dlq_retry"}
  BY TenItems DEF Integration
<1>2. /\ AuthItem \in HealthStatus /\ StorageItem(live) \in HealthStatus
      /\ TableStorageItem(live) \in HealthStatus /\ KeyVaultItem \in HealthStatus
      /\ ShopifyItem \in HealthStatus /\ QueueItem \in HealthStatus
  BY DEF AuthItem, StorageItem, TableStorageItem, KeyVaultItem, ShopifyItem, QueueItem,
         HealthStatus
<1>3. \A p, called : Checked(p, live, called) \in HealthStatus
  BY DEF Checked, HealthStatus
<1>4. /\ FakturowniaItem(live) \in HealthStatus /\ AllegroItem(live) \in HealthStatus
      /\ InPostItem(live) \in HealthStatus /\ ApaczkaItem(live) \in HealthStatus
  BY <1>3 DEF FakturowniaItem, AllegroItem, InPostItem, ApaczkaItem, HealthStatus
<1> QED  BY <1>1, <1>2, <1>4 DEF ItemStatus

\* What a live check calls healthy would serve a call now (integrations.py:356).
LEMMA HealthyServes ==
    ASSUME NEW i \in Item, ItemStatus(Integration[i], TRUE) = "healthy"
    PROVE  Served(Integration[i])
<1>1. \A p, called : Checked(p, TRUE, called) = "healthy" => Works(p)
  BY DEF Checked, Works
<1>2. CASE Integration[i] \in Provider_
  <2>1. /\ FakturowniaItem(TRUE) = "healthy" => Works("fakturownia")
        /\ AllegroItem(TRUE) = "healthy" => Works("allegro")
        /\ InPostItem(TRUE) = "healthy" => Works("inpost")
        /\ ApaczkaItem(TRUE) = "healthy" => Works("apaczka")
    BY <1>1 DEF FakturowniaItem, AllegroItem, InPostItem, ApaczkaItem
  <2> QED  BY <1>2, <2>1 DEF Served, ItemStatus, Provider_
<1>3. CASE Integration[i] \notin Provider_
  BY <1>3 DEF Served, ItemStatus, Provider_, StorageItem, TableStorageItem, QueueItem
<1> QED  BY <1>2, <1>3

\* A provider called unavailable though it would serve a call is one whose
\* check asks something else than the application (integrations.py:480).
LEMMA UnavailableFails ==
    ASSUME NEW i \in Item, NEW live \in BOOLEAN, Integration[i] \in Provider_,
           ItemStatus(Integration[i], live) = "unavailable", Served(Integration[i])
    PROVE  \/ Integration[i] = "allegro"
           \/ Integration[i] \in {"inpost", "apaczka"} /\ setting.source[Integration[i]] # "env"
<1>1. Works(Integration[i])
  BY DEF Served, Provider_
<1>2. \A p : Works(p) /\ Checked(p, live, TRUE) = "unavailable" => FALSE
  BY DEF Works, Checked
<1>3. CASE Integration[i] = "fakturownia"
  BY <1>1, <1>2, <1>3 DEF ItemStatus, FakturowniaItem
<1>4. CASE Integration[i] \in {"inpost", "apaczka"}
  BY <1>1, <1>4 DEF ItemStatus, InPostItem, ApaczkaItem, Checked, Works
<1> QED  BY <1>3, <1>4 DEF Provider_

\* No report is there before the process starts, and no secret is kept.
LEMMA HealthFirst == HealthInit => HealthInv
<1> SUFFICES ASSUME HealthInit PROVE HealthInv
  OBVIOUS
<1>1. ReportShape
  BY TenItems DEF HealthInit, ReportShape, NotAsked
<1>2. HealthTypeOK
  BY TenItems DEF HealthInit, HealthTypeOK, NotAsked
<1>3. HealthyHasServed /\ UnavailableHasFailed /\ ServesSafely
  BY TenItems DEF HealthInit, HealthyHasServed, UnavailableHasFailed, ServesSafely, NotAsked
<1> QED  BY <1>1, <1>2, <1>3 DEF HealthInv, HealthIsTrue

\* The guards of the start keep what the process promises (main.py:97).
LEMMA StartedSafely ==
    ASSUME HealthInv, Start
    PROVE  HealthInv'
<1>1. UNCHANGED <<setting, kept, healthReport>> /\ process' \in {"refused", "up"}
      /\ (process' = "up" => ~RefusesStart(setting))
  BY DEF Start
<1>2. ServesSafely'
  <2> SUFFICES ASSUME process' = "up"
               PROVE  /\ setting.authOff =>
                            /\ setting.app \notin {"production", "prod", "live"}
                            /\ setting.vault => setting.app = "" \/ Named(setting.app) = "development"
                      /\ setting.app \in {"staging", "stage"}
                            => setting.mode = "fake" /\ setting.urls = "fake"
    BY <1>1 DEF ServesSafely
  <2>1. /\ setting.authOff => AppEnv(setting) # "production"
        /\ setting.authOff /\ setting.vault => AppEnv(setting) = "development"
        /\ AppEnv(setting) = "staging" => setting.mode = "fake" /\ setting.urls = "fake"
    BY <1>1 DEF RefusesStart, WritesAreSafe
  <2>2. setting.app # "" => AppEnv(setting) = Named(setting.app)
    BY DEF AppEnv
  <2>3. /\ setting.app \in {"production", "prod", "live"}
             => setting.app # "" /\ Named(setting.app) = "production"
        /\ setting.app \in {"staging", "stage"}
             => setting.app # "" /\ Named(setting.app) = "staging"
    BY DEF Named
  <2> QED  BY <2>1, <2>2, <2>3
<1>3. ReportShape'
  BY <1>1 DEF HealthInv, ReportShape
<1>4. HealthTypeOK'
  BY <1>1 DEF HealthInv, HealthIsTrue, HealthTypeOK
<1>5. HealthyHasServed' /\ UnavailableHasFailed'
  BY <1>1 DEF HealthInv, HealthIsTrue, HealthyHasServed, UnavailableHasFailed
<1> QED  BY <1>2, <1>3, <1>4, <1>5 DEF HealthInv, HealthIsTrue

LEMMA AskedAfresh ==
    ASSUME HealthInv, AskHealth
    PROVE  HealthInv'
<1>1. UNCHANGED <<setting, process, services, kept>>
  BY DEF AskHealth
<1>2. PICK live \in BOOLEAN : healthReport' = [live |-> live, at |-> 1,
                                   items |-> [i \in Item |-> NotAsked]]
  BY DEF AskHealth
<1>3. healthReport'.at = 1 /\ \A i \in Item : healthReport'.items[i] = NotAsked
  BY <1>2
<1>4. ReportShape'
  BY <1>2, TenItems DEF ReportShape, NotAsked
<1>5. HealthTypeOK'
  BY <1>1, <1>3, TenItems DEF HealthInv, HealthIsTrue, HealthTypeOK, NotAsked
<1>6. HealthyHasServed' /\ UnavailableHasFailed'
  BY <1>3, TenItems DEF HealthyHasServed, UnavailableHasFailed, NotAsked
<1>7. ServesSafely'
  BY <1>1 DEF HealthInv, HealthIsTrue, ServesSafely
<1> QED  BY <1>4, <1>5, <1>6, <1>7 DEF HealthInv, HealthIsTrue

LEMMA ItemIsRead ==
    ASSUME HealthInv, CheckItem
    PROVE  HealthInv'
<1> DEFINE at == healthReport.at
           i == Integration[at]
           read == [status |-> ItemStatus(i, healthReport.live), worked |-> Served(i)]
<1>1. UNCHANGED <<setting, process>>
  BY DEF CheckItem
<1>2. at \in Item /\ at # 0 /\ healthReport.live \in BOOLEAN
  BY TenItems DEF HealthInv, ReportShape, CheckItem
<1>3. read.status \in HealthStatus /\ read.worked \in BOOLEAN
  <2>1. Served(i) \in BOOLEAN
    BY DEF Served, Works, Resolves, FromVault
  <2> QED  BY <1>2, <2>1, StatusIsDeclared
<1>4. /\ healthReport'.live = healthReport.live
      /\ healthReport'.at = (at + 1) % (ItemCount + 1)
      /\ healthReport'.items = [healthReport.items EXCEPT ![at] = read]
      /\ healthReport' \in [live : BOOLEAN, at : 0..ItemCount,
                      items : [Item -> [status : HealthStatus \cup {"unread"}, worked : BOOLEAN]]]
  <2> HIDE DEF i, read
  <2>1. healthReport' = [healthReport EXCEPT !.at = (at + 1) % (ItemCount + 1),
                                            !.items[at] = read]
    BY DEF CheckItem, i, read
  <2>2. read \in [status : HealthStatus \cup {"unread"}, worked : BOOLEAN]
    BY <1>3 DEF read
  <2>3. (at + 1) % (ItemCount + 1) \in 0..ItemCount
    BY <1>2, TenItems
  <2> QED  BY <2>1, <2>2, <2>3, <1>2 DEF HealthInv, ReportShape
<1>5. \A k \in Item : healthReport'.items[k] = IF k = at THEN read ELSE healthReport.items[k]
  BY <1>2, <1>4 DEF HealthInv, ReportShape
<1>6. ReportShape'
  BY <1>4 DEF ReportShape
<1>7. HealthTypeOK'
  <2>1. kept' \subseteq {p \in Provider_ : setting'.source[p] = "vault"}
    <3>1. kept' \subseteq kept \cup {p \in Provider_ : FromVault(p)}
      BY DEF CheckItem, Provider_
    <3> QED  BY <3>1, <1>1 DEF HealthInv, HealthIsTrue, HealthTypeOK, FromVault
  <2>2. healthReport'.at = IF at = 10 THEN 0 ELSE at + 1
    BY <1>2, <1>4, TenItems
  <2>3. \A k \in Item : /\ healthReport'.items[k].status \in HealthStatus \cup {"unread"}
                        /\ healthReport'.at > 0
                              => (healthReport'.items[k].status # "unread" <=> k < healthReport'.at)
    <3> HIDE DEF read, i
    <3> TAKE k \in Item
    <3>1. "unread" \notin HealthStatus
      BY DEF HealthStatus
    <3>2. /\ healthReport.items[k].status \in HealthStatus \cup {"unread"}
          /\ healthReport.items[k].status # "unread" <=> k < at
      BY <1>2, TenItems DEF HealthInv, HealthIsTrue, HealthTypeOK
    <3> QED  BY <1>2, <1>3, <1>5, <2>2, <3>1, <3>2, TenItems
  <2> QED  BY <1>1, <1>4, <2>1, <2>3 DEF HealthTypeOK, HealthInv, HealthIsTrue
<1>8. HealthyHasServed'
  <2> SUFFICES ASSUME NEW k \in Item, healthReport'.live,
                      healthReport'.items[k].status = "healthy"
               PROVE  healthReport'.items[k].worked
    BY DEF HealthyHasServed
  <2>1. CASE k = at
    <3>1. healthReport.live = TRUE
      BY <1>2, <1>4
    <3>2. healthReport'.items[k] = read /\ read.status = "healthy"
      BY <1>5, <2>1
    <3>3. ItemStatus(i, healthReport.live) = "healthy"
      BY <3>2
    <3>4. ItemStatus(i, TRUE) = "healthy"
      BY <3>1, <3>3, Zenon
    <3>5. Served(i)
      BY <1>2, <3>4, HealthyServes
    <3>6. read.worked
      BY <3>5
    <3> QED  BY <3>2, <3>6
  <2>2. CASE k # at
    BY <1>4, <1>5, <2>2 DEF HealthInv, HealthIsTrue, HealthyHasServed
  <2> QED  BY <2>1, <2>2
<1>9. UnavailableHasFailed'
  <2> SUFFICES ASSUME NEW k \in Item, Integration[k] \in Provider_,
                      healthReport'.items[k].status = "unavailable",
                      healthReport'.items[k].worked
               PROVE  \/ Integration[k] = "allegro"
                      \/ /\ Integration[k] \in {"inpost", "apaczka"}
                         /\ setting.source[Integration[k]] # "env"
    BY <1>1 DEF UnavailableHasFailed
  <2>1. CASE k = at
    BY <1>2, <1>5, <2>1, UnavailableFails
  <2>2. CASE k # at
    BY <1>5, <2>2 DEF HealthInv, HealthIsTrue, UnavailableHasFailed
  <2> QED  BY <2>1, <2>2
<1>10. ServesSafely'
  BY <1>1 DEF HealthInv, HealthIsTrue, ServesSafely
<1> QED  BY <1>6, <1>7, <1>8, <1>9, <1>10 DEF HealthInv, HealthIsTrue

\* What happens outside changes no report that is there.
LEMMA WorldMovesOn ==
    ASSUME HealthInv, ServiceChanges \/ CacheLapses \/ ProcessDies \/ UNCHANGED healthVars
    PROVE  HealthInv'
<1>1. /\ setting' = setting /\ kept' \in {kept, {}}
      /\ process' \in {process, "down"}
      /\ healthReport' = healthReport \/ healthReport' = [healthReport EXCEPT !.at = 0]
  BY DEF ServiceChanges, CacheLapses, ProcessDies, healthVars
<1>2. /\ healthReport'.live = healthReport.live /\ healthReport'.items = healthReport.items
      /\ healthReport'.at \in {0, healthReport.at} /\ ReportShape'
  BY <1>1, TenItems DEF HealthInv, ReportShape
<1>3. HealthTypeOK'
  BY <1>1, <1>2, TenItems DEF HealthInv, HealthIsTrue, HealthTypeOK
<1>4. HealthyHasServed' /\ UnavailableHasFailed'
  BY <1>1, <1>2 DEF HealthInv, HealthIsTrue, HealthyHasServed, UnavailableHasFailed
<1>5. ServesSafely'
  BY <1>1 DEF HealthInv, HealthIsTrue, ServesSafely
<1> QED  BY <1>2, <1>3, <1>4, <1>5 DEF HealthInv, HealthIsTrue

(***************************************************************************)
(* What the API says of its services is what its own calls met, and it     *)
(* serves only under the guards of its start, in any environment, however  *)
(* often services fail and the process dies (integrations.py:80,           *)
(* main.py:97).                                                            *)
(***************************************************************************)
THEOREM HealthHolds == HealthSpec => []HealthIsTrue
<1>1. HealthInv /\ [HealthNext]_healthVars => HealthInv'
  BY StartedSafely, AskedAfresh, ItemIsRead, WorldMovesOn DEF HealthNext
<1>2. HealthInv => HealthIsTrue
  BY DEF HealthInv
<1> QED  BY HealthFirst, <1>1, <1>2, PTL DEF HealthSpec

-----------------------------------------------------------------------------
(***************************************************************************)
(* What the desk does with the carriers.  The invariant has a part for     *)
(* each actor, over the variables that only it and the carrier move.       *)
(***************************************************************************)
Status_ == {0, 204, 401, 409, 503}
Stage_ == {"new", "ready", "sent", "cancelled"}

\* A request that finds its parcel cancelled is a repeated one: no other
\* request is under way.
CancelInv ==
    /\ carrier \in [ParcelId -> Stage_]
    /\ answer \in [ParcelId -> Status_]
    /\ canceller \in [pc : {"idle", "preflight", "delete"}, parcel : ParcelId \cup {0}]
    /\ canceller.pc # "idle" =>
          /\ canceller.parcel \in ParcelId
          /\ carrier[canceller.parcel] = "cancelled" => canceller.parcel \in repeated
    /\ RefusedIsNotCancelled /\ ToldIsCancelled

\* The tables of the batch: what is still to do is the end of what was
\* asked, what is fetched is the start of the next draft, and if nothing was
\* skipped the printed groups are the drafts before it.
PrinterShape ==
    /\ printer = [pc |-> printer.pc, of |-> printer.of, todo |-> printer.todo,
                  got |-> printer.got, pdfs |-> printer.pdfs, notReady |-> printer.notReady,
                  told |-> printer.told, met |-> printer.met]
    /\ printer.pc \in {"idle", "fetch"} /\ printer.told \in {0, 200, 409, 422, 502}
    /\ printer.of \in Seq(Shipped) /\ printer.todo \in Seq(Shipped)
    /\ printer.got \in Seq(Nat) /\ printer.pdfs \in Seq(Seq(Nat))
    /\ printer.notReady \subseteq Shipped

RefusedOrBlocked == printer.met \cap {"refused", "blocked"} # {}

BatchUnderWay ==
    /\ printer.told = 0 /\ Len(printer.todo) <= Len(printer.of)
    /\ \A k \in 1..Len(printer.todo) :
          printer.todo[k] = printer.of[Len(printer.of) - Len(printer.todo) + k]
    /\ printer.todo # <<>> =>
          /\ Len(printer.got) < Len(printer.todo[1].parcels)
          /\ \A k \in 1..Len(printer.got) : printer.got[k] = printer.todo[1].parcels[k]
    /\ printer.notReady = {} =>
          /\ Len(printer.pdfs) = Len(printer.of) - Len(printer.todo)
          /\ \A k \in 1..Len(printer.pdfs) : printer.pdfs[k] = printer.of[k].parcels

PrintInv ==
    /\ PrinterShape
    /\ printer.pc = "fetch" => BatchUnderWay
    /\ printer.notReady # {} => RefusedOrBlocked
    /\ PrintedIsWhole /\ OutageIsNotRefusal

\* The job: its view of a draft it has still to write is the stored one, a
\* draft it failed in aside it has asked once for each attempt counted, and
\* once more for the draft it is at.
PollerShape ==
    /\ poller = [pc |-> poller.pc, todo |-> poller.todo, of |-> poller.of, left |-> poller.left,
                 view |-> poller.view, found |-> poller.found]
    /\ poller.pc \in {"idle", "draft", "ask"}
    /\ poller.todo \subseteq Shipped /\ poller.of \subseteq Shipped
    /\ poller.found \subseteq numbered

PollerTurn ==
    /\ poller.pc # "ask" => poller.of = {} /\ poller.found = {}
    /\ poller.pc = "idle" => poller.todo = {}
    /\ poller.pc = "ask" => \E d \in Shipped \ poller.todo :
                              /\ poller.of = {d} /\ poller.left \subseteq ParcelsOf(d)
                              /\ poller.found \subseteq ParcelsOf(d)
    /\ \A d \in poller.todo \cup poller.of :
          poller.view[d] = stored[d] /\ stored[d].attempts < MaxAttempts

StoredShape ==
    /\ stored \in [Shipped -> [numbers : SUBSET ParcelId, attempts : 0..MaxAttempts]]
    /\ \A d \in Shipped : stored[d].numbers \subseteq ParcelsOf(d)
    /\ asked \in [Shipped -> Nat]
    /\ learned \in [Shipped -> SUBSET ParcelId]

Counted ==
    \A d \in Shipped \ unanswered :
       /\ d \in poller.of => asked[d] = stored[d].attempts + 1
       /\ d \notin poller.of => asked[d] = stored[d].attempts
       /\ d \in poller.of => learned[d] \subseteq stored[d].numbers \cup poller.found
       /\ d \notin poller.of => learned[d] \subseteq stored[d].numbers

JobInv == PollerShape /\ PollerTurn /\ StoredShape /\ Counted

DeskInv == CancelInv /\ PrintInv /\ JobInv

-----------------------------------------------------------------------------
\* The statuses a cancellation is answered with: an answer that was lost is
\* never told as a refusal (shipping_exceptions.py:214).
LEMMA CancelAnswers ==
    /\ CancelStatus("InPostTransientError") = 503 /\ CancelStatus("ApaczkaTransientError") = 503
    /\ CancelStatus("InPostAuthError") = 401 /\ CancelStatus("ApaczkaSignatureError") = 401
    /\ CancelStatus("ApaczkaInsufficientBalanceError") = 401
    /\ CancelStatus("InPostShipmentNotCancellable") = 409
    /\ CancelStatus("InPostOrganizationError") = 409
    /\ CancelStatus("InPostBusinessError") = 409 /\ CancelStatus("ApaczkaBusinessError") = 409
  BY DEF CancelStatus, AuthErrors, BusinessErrors, InPostBusinessErrors, TransientErrors

Response_ == {"lost", "down", "denied", "blocked", "refused"}

LEMMA WhatInPostRaises ==
    ASSUME NEW action, NEW response \in Response_
    PROVE  /\ response \in {"lost", "down"} => InPostRaises(action, response) = "InPostTransientError"
           /\ response = "denied" => InPostRaises(action, response) = "InPostAuthError"
           /\ response = "blocked" => InPostRaises(action, response) = "InPostOrganizationError"
           /\ response = "refused" =>
                InPostRaises(action, response) \in {"InPostShipmentNotCancellable",
                                                    "InPostBusinessError"}
  BY DEF InPostRaises, Response_

LEMMA WhatApaczkaRaises ==
    ASSUME NEW response \in Response_
    PROVE  /\ response \in {"lost", "down"} => ApaczkaRaises(response) = "ApaczkaTransientError"
           /\ response = "denied" => ApaczkaRaises(response) = "ApaczkaSignatureError"
           /\ response = "blocked" => ApaczkaRaises(response) = "ApaczkaInsufficientBalanceError"
           /\ response = "refused" => ApaczkaRaises(response) = "ApaczkaBusinessError"
  BY DEF ApaczkaRaises, Response_

LEMMA CancelIsAnswered ==
    ASSUME NEW p \in ParcelId, NEW response \in Response_
    PROVE  LET status == CancelStatus(Raises(p, "cancel", response))
           IN  /\ status \in {401, 409, 503}
               /\ response = "lost" => status = 503
<1>1. CASE DraftOf(p).courier = "inpost"
  BY <1>1, WhatInPostRaises, CancelAnswers DEF Raises, Response_
<1>2. CASE DraftOf(p).courier # "inpost"
  BY <1>2, WhatApaczkaRaises, CancelAnswers DEF Raises, Response_
<1> QED  BY <1>1, <1>2

LEMMA BatchAnswers ==
    /\ Classified("InPostTransientError") = 502 /\ Classified("ApaczkaTransientError") = 502
    /\ Classified("InPostAuthError") = 502 /\ Classified("ApaczkaSignatureError") = 502
    /\ Classified("ApaczkaInsufficientBalanceError") = 502
    /\ Classified("ApaczkaBusinessError") = 422
  BY DEF Classified, PayloadErrors, AuthErrors, TransientErrors, BusinessErrors,
         InPostBusinessErrors, CancellationErrors
-----------------------------------------------------------------------------
LEMMA ParcelsAreIds ==
    ASSUME NEW d \in Shipped
    PROVE  ParcelsOf(d) \subseteq ParcelId
  BY DEF ParcelId

LEMMA DeskFirst == DeskInit => DeskInv
<1> SUFFICES ASSUME DeskInit PROVE DeskInv
  OBVIOUS
<1>1. CancelInv
  BY DEF DeskInit, CancelInv, Stage_, Status_, IdleCanceller, RefusedIsNotCancelled,
         ToldIsCancelled
<1>2. PrintInv
  BY DEF DeskInit, PrintInv, PrinterShape, RefusedOrBlocked, IdlePrinter, PrintedIsWhole,
         OutageIsNotRefusal
<1>3. JobInv
  <2>1. PollerShape /\ PollerTurn
    BY DEF DeskInit, PollerShape, PollerTurn, IdlePoller
  <2>2. StoredShape /\ Counted
    BY DeskShape DEF DeskInit, StoredShape, Counted, IdlePoller
  <2> QED  BY <2>1, <2>2 DEF JobInv
<1> QED  BY <1>1, <1>2, <1>3 DEF DeskInv

\* The parts of the invariant are about variables of their own.
LEMMA CancelApart ==
    ASSUME CancelInv, UNCHANGED <<carrier, answer, canceller, repeated>>
    PROVE  CancelInv'
  BY DEF CancelInv, RefusedIsNotCancelled, ToldIsCancelled

LEMMA PrintApart ==
    ASSUME PrintInv, UNCHANGED printer
    PROVE  PrintInv'
<1>1. PrinterShape'
  BY DEF PrintInv, PrinterShape
<1>2. printer'.pc = "fetch" => BatchUnderWay'
  BY DEF PrintInv, BatchUnderWay
<1>3. PrintedIsWhole' /\ OutageIsNotRefusal' /\ (printer'.notReady # {} => RefusedOrBlocked')
  BY DEF PrintInv, PrintedIsWhole, OutageIsNotRefusal, RefusedOrBlocked
<1> QED  BY <1>1, <1>2, <1>3 DEF PrintInv

LEMMA JobApart ==
    ASSUME JobInv, numbered \subseteq numbered',
           UNCHANGED <<stored, poller, learned, asked, unanswered>>
    PROVE  JobInv'
<1>1. PollerShape'
  BY DEF JobInv, PollerShape
<1> QED  BY <1>1 DEF JobInv, PollerTurn, StoredShape, Counted

-----------------------------------------------------------------------------
(***************************************************************************)
(* The carrier, and the cancellations.                                     *)
(***************************************************************************)
LEMMA CarrierAdvances ==
    ASSUME DeskInv, NEW p \in ParcelId, Advance(p)
    PROVE  DeskInv'
<1>1. UNCHANGED <<numbered, stored, canceller, printer, poller, answer, learned, asked, repeated,
                  unanswered>>
  BY DEF Advance, OnlyCarrier
<1>2. CancelInv'
  <2>1. PICK s \in {"ready", "sent"} : carrier' = [carrier EXCEPT ![p] = s] /\ carrier[p] # "cancelled"
    BY DEF Advance
  <2>2. \A q \in ParcelId : carrier'[q] = "cancelled" <=> carrier[q] = "cancelled"
    BY <2>1 DEF DeskInv, CancelInv
  <2>3. carrier' \in [ParcelId -> Stage_]
    BY <2>1 DEF DeskInv, CancelInv, Stage_
  <2>4. RefusedIsNotCancelled' /\ ToldIsCancelled'
    BY <1>1, <2>2 DEF DeskInv, CancelInv, RefusedIsNotCancelled, ToldIsCancelled
  <2> QED  BY <1>1, <2>2, <2>3, <2>4 DEF DeskInv, CancelInv
<1> QED  BY <1>1, <1>2, PrintApart, JobApart DEF DeskInv

LEMMA PickupIsNumbered ==
    ASSUME DeskInv, NEW p \in ParcelId, NumberPickup(p)
    PROVE  DeskInv'
<1>1. UNCHANGED <<carrier, stored, canceller, printer, poller, answer, learned, asked, repeated,
                  unanswered>> /\ numbered \subseteq numbered'
  BY DEF NumberPickup, OnlyCarrier
<1> QED  BY <1>1, CancelApart, PrintApart, JobApart DEF DeskInv

LEMMA CancelIsAsked ==
    ASSUME DeskInv, NEW p \in ParcelId, AskCancel(p)
    PROVE  CancelInv'
<1>1. /\ UNCHANGED <<carrier, answer>> /\ repeated \subseteq repeated'
      /\ carrier[p] = "cancelled" => p \in repeated'
      /\ canceller'.pc \in {"preflight", "delete"} /\ canceller'.parcel = p
      /\ canceller' \in [pc : {"idle", "preflight", "delete"}, parcel : ParcelId \cup {0}]
  BY DEF AskCancel
<1> QED  BY <1>1 DEF DeskInv, CancelInv, RefusedIsNotCancelled, ToldIsCancelled

\* A cancellation that is answered without a change at the carrier.
LEMMA TellingKeeps ==
    ASSUME CancelInv, UNCHANGED <<carrier, repeated>>, canceller.pc # "idle",
           NEW status \in {401, 409, 503}, TellCancel(status)
    PROVE  CancelInv'
<1>1. /\ canceller.parcel \in ParcelId
      /\ answer' = [answer EXCEPT ![canceller.parcel] = status]
      /\ canceller' = IdleCanceller
  BY DEF CancelInv, TellCancel
<1>2. answer' \in [ParcelId -> Status_]
  BY <1>1 DEF CancelInv, Status_
<1>3. \A q \in ParcelId : answer'[q] = IF q = canceller.parcel THEN status ELSE answer[q]
  BY <1>1 DEF CancelInv
<1>4. RefusedIsNotCancelled' /\ ToldIsCancelled'
  BY <1>1, <1>3 DEF CancelInv, RefusedIsNotCancelled, ToldIsCancelled
<1> QED  BY <1>1, <1>2, <1>4 DEF CancelInv, IdleCanceller

LEMMA GoesOn ==
    ASSUME CancelInv, UNCHANGED <<carrier, repeated, answer>>, canceller.pc # "idle",
           canceller' = [canceller EXCEPT !.pc = "delete"]
    PROVE  CancelInv'
<1>1. canceller'.parcel = canceller.parcel
      /\ canceller' \in [pc : {"idle", "preflight", "delete"}, parcel : ParcelId \cup {0}]
  BY DEF CancelInv
<1> QED  BY <1>1 DEF CancelInv, RefusedIsNotCancelled, ToldIsCancelled

LEMMA PreflightRuns ==
    ASSUME DeskInv, Preflight \/ PreflightFails
    PROVE  CancelInv'
<1>1. UNCHANGED <<carrier, repeated>> /\ canceller.pc # "idle" /\ CancelInv
  BY DEF DeskInv, Preflight, PreflightFails
<1>2. CASE Preflight
  <2>1. \/ TellCancel(CancelStatus("InPostShipmentNotCancellable"))
        \/ canceller' = [canceller EXCEPT !.pc = "delete"] /\ UNCHANGED answer
    BY <1>2 DEF Preflight
  <2>2. CASE TellCancel(CancelStatus("InPostShipmentNotCancellable"))
    BY <1>1, <2>2, CancelAnswers, TellingKeeps
  <2>3. CASE canceller' = [canceller EXCEPT !.pc = "delete"] /\ UNCHANGED answer
    BY <1>1, <2>3, GoesOn
  <2> QED  BY <2>1, <2>2, <2>3
<1>3. CASE PreflightFails
  <2>1. PICK response \in Failure :
            IF InPostRaises("get", response) \in InPostBusinessErrors
            THEN canceller' = [canceller EXCEPT !.pc = "delete"] /\ UNCHANGED answer
            ELSE TellCancel(CancelStatus(InPostRaises("get", response)))
    BY <1>3 DEF PreflightFails
  <2>2. response \in Response_ /\ response # "refused"
    BY DEF Failure, Response_
  <2>3. CASE InPostRaises("get", response) \in InPostBusinessErrors
    BY <1>1, <2>1, <2>3, GoesOn
  <2>4. CASE InPostRaises("get", response) \notin InPostBusinessErrors
    <3>1. InPostRaises("get", response) \in {"InPostTransientError", "InPostAuthError",
                                            "InPostOrganizationError"}
      BY <2>2, WhatInPostRaises DEF Response_
    <3>2. CancelStatus(InPostRaises("get", response)) \in {401, 409, 503}
      BY <3>1, CancelAnswers
    <3> QED  BY <1>1, <2>1, <2>4, <3>2, TellingKeeps
  <2> QED  BY <2>3, <2>4
<1> QED  BY <1>2, <1>3

\* A parcel that is cancelled now is told as one, or its answer is lost.
LEMMA CarriedOut ==
    ASSUME CancelInv, UNCHANGED repeated, canceller.pc # "idle",
           carrier' = [carrier EXCEPT ![canceller.parcel] = "cancelled"],
           NEW status \in {204, 503}, TellCancel(status)
    PROVE  CancelInv'
<1>1. /\ canceller.parcel \in ParcelId
      /\ answer' = [answer EXCEPT ![canceller.parcel] = status]
      /\ canceller' = IdleCanceller
  BY DEF CancelInv, TellCancel
<1>2. answer' \in [ParcelId -> Status_] /\ carrier' \in [ParcelId -> Stage_]
  BY <1>1 DEF CancelInv, Status_, Stage_
<1>3. \A q \in ParcelId :
         /\ answer'[q] = IF q = canceller.parcel THEN status ELSE answer[q]
         /\ carrier'[q] = IF q = canceller.parcel THEN "cancelled" ELSE carrier[q]
  BY <1>1 DEF CancelInv
<1>4. RefusedIsNotCancelled' /\ ToldIsCancelled'
  BY <1>1, <1>3 DEF CancelInv, RefusedIsNotCancelled, ToldIsCancelled
<1> QED  BY <1>1, <1>2, <1>4 DEF CancelInv, IdleCanceller

LEMMA DeleteRuns ==
    ASSUME DeskInv, Delete \/ DeleteFails
    PROVE  CancelInv'
<1> DEFINE p == canceller.parcel
<1>1. UNCHANGED repeated /\ canceller.pc # "idle" /\ CancelInv /\ p \in ParcelId
  BY DEF DeskInv, CancelInv, Delete, DeleteFails
<1>2. CASE Delete
  <2>1. CASE carrier[p] \in {"new", "ready"}
    BY <1>1, <1>2, <2>1, CarriedOut DEF Delete
  <2>2. CASE carrier[p] \notin {"new", "ready"}
    <3>1. CancelStatus(Raises(p, "cancel", "refused")) \in {401, 409, 503}
      BY <1>1, CancelIsAnswered DEF Response_
    <3> QED  BY <1>1, <1>2, <2>2, <3>1, TellingKeeps DEF Delete
  <2> QED  BY <2>1, <2>2
<1>3. CASE DeleteFails
  <2>1. PICK response \in Failure :
            /\ TellCancel(CancelStatus(Raises(p, "cancel", response)))
            /\ \/ UNCHANGED carrier
               \/ /\ response = "lost"
                  /\ carrier' = [carrier EXCEPT ![p] = "cancelled"]
    BY <1>3 DEF DeleteFails
  <2>2. /\ CancelStatus(Raises(p, "cancel", response)) \in {401, 409, 503}
        /\ response = "lost" => CancelStatus(Raises(p, "cancel", response)) = 503
    BY <1>1, CancelIsAnswered DEF Failure, Response_
  <2>3. CASE UNCHANGED carrier
    BY <1>1, <2>1, <2>2, <2>3, TellingKeeps
  <2>4. CASE response = "lost" /\ carrier' = [carrier EXCEPT ![p] = "cancelled"]
    BY <1>1, <2>1, <2>2, <2>4, CarriedOut
  <2> QED  BY <2>1, <2>3, <2>4
<1> QED  BY <1>2, <1>3

LEMMA CancelHolds ==
    ASSUME DeskInv, Cancelling
    PROVE  DeskInv'
<1>1. UNCHANGED <<numbered, stored, printer, poller, learned, asked, unanswered>>
  BY DEF Cancelling, AskCancel, Preflight, PreflightFails, Delete, DeleteFails, OnlyCanceller
<1>2. CancelInv'
  BY CancelIsAsked, PreflightRuns, DeleteRuns DEF Cancelling
<1> QED  BY <1>1, <1>2, PrintApart, JobApart DEF DeskInv
-----------------------------------------------------------------------------
(***************************************************************************)
(* The batches of labels.                                                  *)
(***************************************************************************)
LEMMA LabelsAreAsked ==
    ASSUME DeskInv, NEW ds \in Batch, AskLabels(ds)
    PROVE  PrintInv'
<1>1. ds \in Seq(Shipped)
  BY DeskShape DEF Batch
<1>2. printer' = [IdlePrinter EXCEPT !.pc = "fetch", !.of = ds, !.todo = ds]
  BY DEF AskLabels
<1>3. printer' = [pc |-> "fetch", of |-> ds, todo |-> ds, got |-> <<>>, pdfs |-> <<>>,
                  notReady |-> {}, told |-> 0, met |-> {}]
  BY <1>2 DEF IdlePrinter
<1>4. PrinterShape'
  BY <1>1, <1>3 DEF PrinterShape
<1>5. BatchUnderWay'
  <2>1. ds # <<>> => ds[1] \in Shipped /\ ds[1].parcels \in Seq(Nat) /\ ds[1].parcels # <<>>
    BY <1>1, DeskShape
  <2>2. ds # <<>> => Len(ds[1].parcels) > 0
    BY <2>1
  <2> QED  BY <1>1, <1>3, <2>2 DEF BatchUnderWay
<1> QED  BY <1>3, <1>4, <1>5 DEF PrintInv, PrintedIsWhole, OutageIsNotRefusal

\* The next draft of a batch: a draft of the desk, with parcels.
LEMMA NextDraft ==
    ASSUME PrinterShape, printer.todo # <<>>
    PROVE  /\ Head(printer.todo) = printer.todo[1] /\ Head(printer.todo) \in Shipped
           /\ Head(printer.todo).parcels \in Seq(Nat) /\ Head(printer.todo).parcels # <<>>
           /\ Tail(printer.todo) \in Seq(Shipped)
           /\ Len(Tail(printer.todo)) = Len(printer.todo) - 1
           /\ \A k \in 1..Len(printer.todo) - 1 : Tail(printer.todo)[k] = printer.todo[k + 1]
<1>1. printer.todo \in Seq(Shipped)
  BY DEF PrinterShape
<1>2. Head(printer.todo) = printer.todo[1] /\ Head(printer.todo) \in Shipped
  BY <1>1
<1>3. Head(printer.todo).parcels \in Seq(Nat) /\ Head(printer.todo).parcels # <<>>
  BY <1>2, DeskShape
<1> QED  BY <1>1, <1>2, <1>3

\* Without its first draft the rest is still the end of what was asked.
LEMMA TailOfTheRest ==
    ASSUME PrinterShape, BatchUnderWay, printer.todo # <<>>
    PROVE  LET rest == Tail(printer.todo) of == printer.of
           IN  /\ Len(rest) = Len(printer.todo) - 1 /\ Len(rest) <= Len(of)
               /\ \A k \in 1..Len(rest) : rest[k] = of[Len(of) - Len(rest) + k]
<1> DEFINE rest == Tail(printer.todo)
           of == printer.of
<1>1. /\ Len(printer.todo) \in Nat /\ Len(of) \in Nat /\ Len(printer.todo) <= Len(of)
      /\ Len(rest) = Len(printer.todo) - 1
      /\ \A k \in 1..Len(printer.todo) - 1 : rest[k] = printer.todo[k + 1]
  BY NextDraft DEF PrinterShape, BatchUnderWay
<1>2. ASSUME NEW k \in 1..Len(rest)
      PROVE  rest[k] = of[Len(of) - Len(rest) + k]
  <2> HIDE DEF rest, of
  <2>1. k + 1 \in 1..Len(printer.todo) /\ rest[k] = printer.todo[k + 1]
    BY <1>1
  <2>2. printer.todo[k + 1] = of[Len(of) - Len(printer.todo) + (k + 1)]
    BY <2>1 DEF BatchUnderWay, of
  <2>3. Len(of) - Len(printer.todo) + (k + 1) = Len(of) - Len(rest) + k
    BY <1>1
  <2> QED  BY <2>1, <2>2, <2>3
<1>3. Len(rest) <= Len(of)
  BY <1>1
<1>4. \A k \in 1..Len(rest) : rest[k] = of[Len(of) - Len(rest) + k]
  BY <1>2
<1> QED  BY <1>1, <1>3, <1>4

\* A batch that ends with a failure has met the refusal its status speaks of.
LEMMA BatchEnds ==
    ASSUME PrintInv, NEW response \in Response_, NEW status \in {422, 502},
           status = 422 => response \in {"refused", "blocked"},
           printer' = TellPrinter(status, response)
    PROVE  PrintInv'
<1>1. PrinterShape
  BY DEF PrintInv
<1>2. printer' = [pc |-> "idle", of |-> printer.of, todo |-> <<>>, got |-> <<>>,
                  pdfs |-> printer.pdfs, notReady |-> printer.notReady, told |-> status,
                  met |-> printer.met \cup {response}]
  BY <1>1, ZenonT(60) DEF TellPrinter, PrinterShape
<1>3. PrinterShape'
  BY <1>1, <1>2 DEF PrinterShape
<1> QED  BY <1>2, <1>3 DEF PrintInv, PrintedIsWhole, OutageIsNotRefusal, RefusedOrBlocked

\* A draft that is skipped is one whose label was refused.
LEMMA DraftIsSkipped ==
    ASSUME PrintInv, NEW response \in {"refused", "blocked"}, printer.pc = "fetch",
           printer.todo # <<>>, printer' = Skipped(response)
    PROVE  PrintInv'
<1>1. PrinterShape
  BY DEF PrintInv
<1>2. printer' = [pc |-> "fetch", of |-> printer.of, todo |-> Tail(printer.todo), got |-> <<>>,
                  pdfs |-> printer.pdfs, notReady |-> printer.notReady \cup {Head(printer.todo)},
                  told |-> printer.told, met |-> printer.met \cup {response}]
  BY <1>1 DEF Skipped, PrinterShape
<1>3. Head(printer.todo) \in Shipped /\ Tail(printer.todo) \in Seq(Shipped)
  BY NextDraft DEF PrintInv
<1>4. PrinterShape'
  BY <1>1, <1>2, <1>3 DEF PrinterShape
<1>6. /\ printer'.of = printer.of /\ printer'.todo = Tail(printer.todo) /\ printer'.got = <<>>
      /\ printer'.notReady = printer.notReady \cup {Head(printer.todo)}
      /\ printer'.told = printer.told /\ printer'.met = printer.met \cup {response}
  BY <1>2
<1>5. BatchUnderWay'
  <2>1. BatchUnderWay
    BY DEF PrintInv
  <2>3. /\ Len(printer'.todo) <= Len(printer'.of)
        /\ \A k \in 1..Len(printer'.todo) :
              printer'.todo[k] = printer'.of[Len(printer'.of) - Len(printer'.todo) + k]
    BY <1>1, <1>6, <2>1, TailOfTheRest
  <2>4. printer'.todo # <<>> => Len(printer'.todo[1].parcels) > 0
    <3> SUFFICES ASSUME printer'.todo # <<>> PROVE Len(printer'.todo[1].parcels) > 0
      OBVIOUS
    <3>1. printer'.todo[1] \in Shipped
      BY <1>3, <1>6
    <3>2. printer'.todo[1].parcels \in Seq(Nat) /\ printer'.todo[1].parcels # <<>>
      BY <3>1, DeskShape
    <3> QED  BY <3>2
  <2>5. printer'.told = 0 /\ printer'.got = <<>> /\ printer'.notReady # {}
    BY <1>6, <2>1 DEF BatchUnderWay
  <2>6. Len(printer'.got) = 0
    BY <2>5
  <2>7. printer'.todo # <<>> =>
          /\ Len(printer'.got) < Len(printer'.todo[1].parcels)
          /\ \A k \in 1..Len(printer'.got) : printer'.got[k] = printer'.todo[1].parcels[k]
    BY <2>4, <2>6
  <2> QED  BY <2>3, <2>5, <2>7 DEF BatchUnderWay
<1>7. /\ RefusedOrBlocked' /\ printer'.told = 0
  BY <1>6 DEF RefusedOrBlocked, PrintInv, BatchUnderWay
<1> QED  BY <1>4, <1>5, <1>7 DEF PrintInv, PrintedIsWhole, OutageIsNotRefusal

LEMMA LabelIsRefused ==
    ASSUME PrintInv, NEW response \in Response_, printer.pc = "fetch", printer.todo # <<>>,
           printer' = LabelFails(response)
    PROVE  PrintInv'
<1> DEFINE d == Head(printer.todo)
           error == InPostRaises("label", response)
<1>1. d \in Shipped
  BY NextDraft DEF PrintInv
<1>2. d.courier \in {"inpost", "apaczka", "allegro"}
  BY <1>1, DeskShape
<1>3. CASE d.courier = "inpost"
  <2>1. response \in {"refused", "blocked"} <=> error \in InPostBusinessErrors
    BY WhatInPostRaises DEF InPostBusinessErrors, Response_
  <2>2. CASE response \in {"refused", "blocked"}
    <3>1. printer' = Skipped(response)
      BY <1>3, <2>1, <2>2 DEF LabelFails
    <3> QED  BY <2>2, <3>1, DraftIsSkipped
  <2>3. CASE response \notin {"refused", "blocked"}
    <3>1. Classified(error) = 502
      BY <2>3, WhatInPostRaises, BatchAnswers DEF Response_
    <3>2. printer' = TellPrinter(502, response)
      BY <1>3, <2>1, <2>3, <3>1 DEF LabelFails
    <3> QED  BY <3>2, BatchEnds
  <2> QED  BY <2>2, <2>3
<1>4. CASE d.courier = "apaczka"
  <2>1. /\ Classified(ApaczkaRaises(response)) \in {422, 502}
        /\ Classified(ApaczkaRaises(response)) = 422 => response \in {"refused", "blocked"}
    BY WhatApaczkaRaises, BatchAnswers DEF Response_
  <2>2. printer' = TellPrinter(Classified(ApaczkaRaises(response)), response)
    BY <1>4 DEF LabelFails
  <2> QED  BY <2>1, <2>2, BatchEnds
<1>5. CASE d.courier = "allegro"
  <2>1. printer' = TellPrinter(502, response)
    BY <1>5 DEF LabelFails
  <2> QED  BY <2>1, BatchEnds
<1> QED  BY <1>2, <1>3, <1>4, <1>5
LEMMA LabelsGotten ==
    ASSUME PrinterShape, BatchUnderWay, printer.todo # <<>>
    PROVE  LET parcels == printer.todo[1].parcels
               got == Append(printer.got, parcels[Len(printer.got) + 1])
           IN  /\ parcels \in Seq(Nat) /\ got \in Seq(Nat) /\ Len(got) <= Len(parcels)
               /\ \A k \in 1..Len(got) : got[k] = parcels[k]
<1> DEFINE parcels == printer.todo[1].parcels
           n == Len(printer.got)
           next == parcels[n + 1]
<1>1. parcels \in Seq(Nat)
  BY NextDraft
<1>2. /\ printer.got \in Seq(Nat) /\ n < Len(parcels)
      /\ \A k \in 1..n : printer.got[k] = parcels[k]
  BY DEF PrinterShape, BatchUnderWay
<1> HIDE DEF parcels
<1>3. n \in Nat /\ Len(parcels) \in Nat
  BY <1>1, <1>2
<1>4. next \in Nat
  BY <1>1, <1>2, <1>3
<1> HIDE DEF next
<1>5. /\ Append(printer.got, next) \in Seq(Nat) /\ Len(Append(printer.got, next)) = n + 1
      /\ \A k \in 1..n : Append(printer.got, next)[k] = printer.got[k]
      /\ Append(printer.got, next)[n + 1] = next
  BY <1>2, <1>4
<1> HIDE DEF n
<1>6. \A k \in 1..(n + 1) : Append(printer.got, next)[k] = parcels[k]
  <2> TAKE k \in 1..(n + 1)
  <2>1. CASE k \in 1..n
    BY <1>2, <1>5, <2>1
  <2>2. CASE k = n + 1
    BY <1>5, <2>2 DEF next
  <2>3. k \in 1..n \/ k = n + 1
    BY <1>3
  <2> QED  BY <2>1, <2>2, <2>3
<1>7. Len(Append(printer.got, next)) <= Len(parcels)
  BY <1>2, <1>3, <1>5
<1>8. \A k \in 1..Len(Append(printer.got, next)) : Append(printer.got, next)[k] = parcels[k]
  BY <1>5, <1>6
<1> QED  BY <1>1, <1>5, <1>7, <1>8 DEF parcels, next, n

\* A label that is fetched is the next of its draft.
LEMMA OneMoreLabel ==
    ASSUME PrintInv, printer.pc = "fetch", printer.todo # <<>>, NEW got \in Seq(Nat),
           Len(got) < Len(printer.todo[1].parcels),
           \A k \in 1..Len(got) : got[k] = printer.todo[1].parcels[k],
           printer' = [printer EXCEPT !.got = got]
    PROVE  PrintInv'
<1>1. PrinterShape /\ BatchUnderWay
  BY DEF PrintInv
<1>2. printer' = [pc |-> "fetch", of |-> printer.of, todo |-> printer.todo, got |-> got,
                  pdfs |-> printer.pdfs, notReady |-> printer.notReady,
                  told |-> printer.told, met |-> printer.met]
  BY <1>1 DEF PrinterShape
<1>3. /\ printer'.pc = "fetch" /\ printer'.of = printer.of /\ printer'.todo = printer.todo
      /\ printer'.got = got /\ printer'.pdfs = printer.pdfs
      /\ printer'.notReady = printer.notReady /\ printer'.told = printer.told
      /\ printer'.met = printer.met
  BY <1>2
<1>4. PrinterShape'
  <2>1. printer' = [pc |-> printer'.pc, of |-> printer'.of, todo |-> printer'.todo,
                    got |-> printer'.got, pdfs |-> printer'.pdfs,
                    notReady |-> printer'.notReady, told |-> printer'.told, met |-> printer'.met]
    BY <1>2, <1>3
  <2>2. printer'.got \in Seq(Nat)
    BY <1>3
  <2> QED  BY <1>1, <1>3, <2>1, <2>2 DEF PrinterShape
<1>5. BatchUnderWay'
  <2>1. /\ printer.told = 0 /\ Len(printer.todo) <= Len(printer.of)
        /\ \A k \in 1..Len(printer.todo) :
              printer.todo[k] = printer.of[Len(printer.of) - Len(printer.todo) + k]
        /\ printer.notReady = {} =>
              /\ Len(printer.pdfs) = Len(printer.of) - Len(printer.todo)
              /\ \A k \in 1..Len(printer.pdfs) : printer.pdfs[k] = printer.of[k].parcels
    BY <1>1 DEF BatchUnderWay
  <2> QED  BY <1>3, <2>1, ZenonT(60) DEF BatchUnderWay
<1>6. printer'.told = 0 /\ (printer'.notReady # {} => RefusedOrBlocked')
  BY <1>1, <1>3 DEF PrintInv, BatchUnderWay, RefusedOrBlocked
<1> QED  BY <1>4, <1>5, <1>6 DEF PrintInv, PrintedIsWhole, OutageIsNotRefusal

\* With the last of its labels the group is the draft's parcels.
LEMMA DraftIsFetched ==
    ASSUME PrintInv, printer.pc = "fetch", printer.todo # <<>>,
           NEW rest, rest = Tail(printer.todo), NEW groups \in Seq(Seq(Nat)),
           Len(groups) = Len(printer.pdfs) + 1,
           \A k \in 1..Len(printer.pdfs) : groups[k] = printer.pdfs[k],
           groups[Len(printer.pdfs) + 1] = printer.todo[1].parcels,
           printer' = [printer EXCEPT !.got = <<>>, !.todo = rest, !.pdfs = groups]
    PROVE  PrintInv'
<1> DEFINE d == printer.todo[1]
<1>1. PrinterShape /\ BatchUnderWay
  BY DEF PrintInv
<1>2. d \in Shipped /\ d.parcels \in Seq(Nat) /\ rest \in Seq(Shipped)
  BY <1>1, NextDraft
<1> HIDE DEF d
<1>3. printer' = [pc |-> "fetch", of |-> printer.of, todo |-> rest, got |-> <<>>,
                  pdfs |-> groups, notReady |-> printer.notReady,
                  told |-> printer.told, met |-> printer.met]
  BY <1>1 DEF PrinterShape
<1>4. /\ printer'.pc = "fetch" /\ printer'.of = printer.of /\ printer'.todo = rest
      /\ printer'.got = <<>> /\ printer'.pdfs = groups
      /\ printer'.notReady = printer.notReady /\ printer'.told = printer.told
      /\ printer'.met = printer.met
  BY <1>3
<1>5. PrinterShape'
  <2>1. printer' = [pc |-> printer'.pc, of |-> printer'.of, todo |-> printer'.todo,
                    got |-> printer'.got, pdfs |-> printer'.pdfs,
                    notReady |-> printer'.notReady, told |-> printer'.told, met |-> printer'.met]
    BY <1>3, <1>4
  <2>2. printer'.pdfs \in Seq(Seq(Nat)) /\ printer'.todo \in Seq(Shipped)
    BY <1>2, <1>4
  <2>3. printer'.got \in Seq(Nat)
    BY <1>4
  <2> QED  BY <1>1, <1>4, <2>1, <2>2, <2>3 DEF PrinterShape
<1>6. /\ Len(printer'.todo) <= Len(printer'.of) /\ Len(printer'.todo) = Len(printer.todo) - 1
      /\ \A k \in 1..Len(printer'.todo) :
            printer'.todo[k] = printer'.of[Len(printer'.of) - Len(printer'.todo) + k]
  BY <1>1, <1>4, TailOfTheRest
<1>7. printer'.todo # <<>> => Len(printer'.todo[1].parcels) > 0
  <2> SUFFICES ASSUME printer'.todo # <<>> PROVE Len(printer'.todo[1].parcels) > 0
    OBVIOUS
  <2>1. printer'.todo[1] \in Shipped
    BY <1>2, <1>4
  <2>2. printer'.todo[1].parcels \in Seq(Nat) /\ printer'.todo[1].parcels # <<>>
    BY <2>1, DeskShape
  <2> QED  BY <2>2
<1>8. ASSUME printer.notReady = {}
      PROVE  /\ Len(printer'.pdfs) = Len(printer'.of) - Len(printer'.todo)
             /\ \A k \in 1..Len(printer'.pdfs) : printer'.pdfs[k] = printer'.of[k].parcels
  <2> DEFINE n == Len(printer.pdfs)
  <2>1. /\ n = Len(printer.of) - Len(printer.todo) /\ printer.pdfs \in Seq(Seq(Nat))
        /\ \A k \in 1..n : printer.pdfs[k] = printer.of[k].parcels
    BY <1>1, <1>8 DEF BatchUnderWay, PrinterShape
  <2>2. /\ Len(printer.todo) \in Nat /\ Len(printer.of) \in Nat /\ n \in Nat
        /\ 1 \in 1..Len(printer.todo)
    BY <1>1, <2>1 DEF PrinterShape
  <2>3. /\ Len(printer'.pdfs) = n + 1 /\ printer'.pdfs[n + 1] = d.parcels
        /\ \A k \in 1..n : printer'.pdfs[k] = printer.pdfs[k]
    BY <1>2, <1>4, <2>1 DEF d
  <2> HIDE DEF n
  <2>4. d = printer.of[n + 1]
    BY <1>1, <2>1, <2>2 DEF BatchUnderWay, d
  <2>5. Len(printer'.pdfs) = Len(printer'.of) - Len(printer'.todo)
    <3>1. Len(printer'.of) = Len(printer.of)
      BY <1>4
    <3>2. Len(printer'.todo) = Len(printer.todo) - 1
      BY <1>6
    <3>3. n = Len(printer.of) - Len(printer.todo) /\ Len(printer'.pdfs) = n + 1
      BY <2>1, <2>3
    <3>4. (Len(printer.of) - Len(printer.todo)) + 1 = Len(printer.of) - (Len(printer.todo) - 1)
      BY <2>2
    <3> QED  BY <3>1, <3>2, <3>3, <3>4, Zenon
  <2>6. ASSUME NEW k \in 1..(n + 1)
        PROVE  printer'.pdfs[k] = printer'.of[k].parcels
    <3>1. CASE k \in 1..n
      BY <1>4, <2>1, <2>3, <3>1
    <3>2. CASE k = n + 1
      BY <1>4, <2>3, <2>4, <3>2
    <3>3. k \in 1..n \/ k = n + 1
      BY <2>2
    <3> QED  BY <3>1, <3>2, <3>3
  <2> QED  BY <2>3, <2>5, <2>6
<1>9. BatchUnderWay'
  <2>1. printer'.told = 0 /\ Len(printer'.got) = 0
    BY <1>1, <1>4 DEF BatchUnderWay
  <2>2. printer'.todo # <<>> =>
          /\ Len(printer'.got) < Len(printer'.todo[1].parcels)
          /\ \A k \in 1..Len(printer'.got) : printer'.got[k] = printer'.todo[1].parcels[k]
    BY <1>7, <2>1
  <2>3. printer'.notReady = {} =>
          /\ Len(printer'.pdfs) = Len(printer'.of) - Len(printer'.todo)
          /\ \A k \in 1..Len(printer'.pdfs) : printer'.pdfs[k] = printer'.of[k].parcels
    BY <1>4, <1>8
  <2> QED  BY <1>6, <2>1, <2>2, <2>3 DEF BatchUnderWay
<1>10. printer'.told = 0 /\ (printer'.notReady # {} => RefusedOrBlocked')
  BY <1>1, <1>4 DEF PrintInv, BatchUnderWay, RefusedOrBlocked
<1> QED  BY <1>5, <1>9, <1>10 DEF PrintInv, PrintedIsWhole, OutageIsNotRefusal

LEMMA SameLabels ==
    ASSUME NEW s \in Seq(Nat), NEW t \in Seq(Nat), Len(s) = Len(t),
           \A k \in 1..Len(s) : s[k] = t[k]
    PROVE  s = t
  OBVIOUS

LEMMA LabelIsFetched ==
    ASSUME PrintInv, printer.pc = "fetch", printer.todo # <<>>,
           LET parcels == printer.todo[1].parcels
               got == Append(printer.got, parcels[Len(printer.got) + 1])
           IN  printer' = IF Len(got) < Len(parcels) THEN [printer EXCEPT !.got = got]
                          ELSE [printer EXCEPT !.got = <<>>, !.todo = Tail(@),
                                               !.pdfs = Append(@, got)]
    PROVE  PrintInv'
<1> DEFINE parcels == printer.todo[1].parcels
           got == Append(printer.got, parcels[Len(printer.got) + 1])
<1>1. /\ parcels \in Seq(Nat) /\ got \in Seq(Nat) /\ Len(got) <= Len(parcels)
      /\ \A k \in 1..Len(got) : got[k] = parcels[k]
  BY LabelsGotten DEF PrintInv
<1>2. CASE Len(got) < Len(parcels)
  <2>1. printer' = [printer EXCEPT !.got = got]
    BY <1>2
  <2> HIDE DEF got
  <2> QED  BY <1>1, <1>2, <2>1, OneMoreLabel
<1>3. CASE ~(Len(got) < Len(parcels))
  <2>1. printer' = [printer EXCEPT !.got = <<>>, !.todo = Tail(printer.todo),
                                   !.pdfs = Append(printer.pdfs, got)]
    BY <1>3
  <2> HIDE DEF got, parcels
  <2>2. Len(got) = Len(parcels)
    BY <1>1, <1>3
  <2>3. got = parcels
    BY <1>1, <2>2, SameLabels
  <2> DEFINE groups == Append(printer.pdfs, got)
             rest == Tail(printer.todo)
  <2>4. printer.pdfs \in Seq(Seq(Nat))
    BY DEF PrintInv, PrinterShape
  <2>5. /\ groups \in Seq(Seq(Nat)) /\ Len(groups) = Len(printer.pdfs) + 1
        /\ \A k \in 1..Len(printer.pdfs) : groups[k] = printer.pdfs[k]
        /\ groups[Len(printer.pdfs) + 1] = got
    BY <1>1, <2>4
  <2>6. rest = Tail(printer.todo)
        /\ printer' = [printer EXCEPT !.got = <<>>, !.todo = rest, !.pdfs = groups]
    BY <2>1
  <2> HIDE DEF groups, rest
  <2> QED  BY <2>3, <2>5, <2>6, DraftIsFetched DEF parcels
<1> QED  BY <1>2, <1>3

\* A batch with nothing left to do: every draft is skipped or printed.
LEMMA BatchIsPrinted ==
    ASSUME DeskInv, Print_
    PROVE  PrintInv'
<1>1. PrinterShape /\ BatchUnderWay /\ printer.todo = <<>> /\ PrintInv
  BY DEF DeskInv, PrintInv, Print_
<1>2. printer' = [pc |-> "idle", of |-> printer.of, todo |-> printer.todo, got |-> printer.got,
                  pdfs |-> printer.pdfs, notReady |-> printer.notReady,
                  told |-> IF printer.notReady # {} THEN 409 ELSE 200, met |-> printer.met]
  BY <1>1, ZenonT(60) DEF PrinterShape, Print_
<1>3. PrinterShape'
  BY <1>1, <1>2 DEF PrinterShape
<1>4. /\ printer'.pc = "idle" /\ printer'.of = printer.of /\ printer'.pdfs = printer.pdfs
      /\ printer'.notReady = printer.notReady /\ printer'.met = printer.met
      /\ printer'.told = IF printer.notReady # {} THEN 409 ELSE 200
  BY <1>2
<1>5. PrintedIsWhole'
  <2> SUFFICES ASSUME printer.notReady = {}
               PROVE  printer.pdfs = [k \in DOMAIN printer.of |-> printer.of[k].parcels]
    BY <1>4 DEF PrintedIsWhole
  <2>1. /\ printer.pdfs \in Seq(Seq(Nat)) /\ printer.of \in Seq(Shipped)
        /\ Len(printer.todo) = 0
    BY <1>1 DEF PrinterShape
  <2>2. /\ Len(printer.pdfs) = Len(printer.of)
        /\ \A k \in 1..Len(printer.pdfs) : printer.pdfs[k] = printer.of[k].parcels
    BY <1>1, <2>1 DEF BatchUnderWay
  <2>3. DOMAIN printer.pdfs = 1..Len(printer.pdfs) /\ DOMAIN printer.of = 1..Len(printer.of)
    BY <2>1
  <2>4. printer.pdfs = [k \in DOMAIN printer.pdfs |-> printer.pdfs[k]]
    BY <2>1
  <2> QED  BY <2>2, <2>3, <2>4
<1> QED  BY <1>1, <1>3, <1>4, <1>5 DEF PrintInv, OutageIsNotRefusal, RefusedOrBlocked

LEMMA PrintHolds ==
    ASSUME DeskInv, Printing
    PROVE  DeskInv'
<1>1. UNCHANGED <<carrier, numbered, stored, canceller, poller, answer, learned, asked, repeated,
                  unanswered>>
  BY DEF Printing, AskLabels, FetchLabel, Print_, OnlyPrinter
<1>2. ASSUME FetchLabel
      PROVE  PrintInv'
  <2> DEFINE d == Head(printer.todo)
             got == Append(printer.got, d.parcels[Len(printer.got) + 1])
  <2>1. PrintInv /\ printer.pc = "fetch" /\ printer.todo # <<>>
    BY <1>2 DEF DeskInv, FetchLabel
  <2>2. \/ printer' = IF Len(got) < Len(d.parcels) THEN [printer EXCEPT !.got = got]
                      ELSE [printer EXCEPT !.got = <<>>, !.todo = Tail(@),
                                           !.pdfs = Append(@, got)]
        \/ \E response \in Response_ : printer' = LabelFails(response)
    BY <1>2 DEF FetchLabel, Failure, Response_
  <2>3. d = printer.todo[1]
    BY <2>1, NextDraft DEF PrintInv
  <2> HIDE DEF d
  <2>4. CASE printer' = IF Len(got) < Len(d.parcels) THEN [printer EXCEPT !.got = got]
                        ELSE [printer EXCEPT !.got = <<>>, !.todo = Tail(@),
                                             !.pdfs = Append(@, got)]
    BY <2>1, <2>3, <2>4, LabelIsFetched
  <2> QED  BY <2>1, <2>2, <2>4, LabelIsRefused
<1>3. PrintInv'
  BY <1>2, LabelsAreAsked, BatchIsPrinted DEF Printing
<1> QED  BY <1>1, <1>3, CancelApart, JobApart DEF DeskInv
-----------------------------------------------------------------------------
(***************************************************************************)
(* The job of the pickup numbers.                                          *)
(***************************************************************************)
LEMMA CycleBegins ==
    ASSUME DeskInv, BeginCycle
    PROVE  JobInv'
<1>1. /\ PollerShape /\ PollerTurn /\ StoredShape /\ Counted /\ poller.pc = "idle"
      /\ UNCHANGED <<numbered, stored, learned, asked, unanswered>>
  BY DEF DeskInv, JobInv, BeginCycle, OnlyPoller
<1>2. PICK pending \in SUBSET Shipped :
         /\ \A d \in pending : NeedsNumber(d)
         /\ poller' = [pc |-> "draft", todo |-> pending, of |-> {}, left |-> {}, view |-> stored,
                       found |-> {}]
  <2> DEFINE pending == {d \in Shipped : NeedsNumber(d)}
  <2>1. poller' = [IdlePoller EXCEPT !.pc = "draft", !.todo = pending, !.view = stored]
    BY DEF BeginCycle
  <2>2. pending \in SUBSET Shipped /\ \A d \in pending : NeedsNumber(d)
    OBVIOUS
  <2> HIDE DEF pending
  <2>3. poller' = [pc |-> "draft", todo |-> pending, of |-> {}, left |-> {}, view |-> stored,
                   found |-> {}]
    BY <2>1 DEF IdlePoller
  <2> QED  BY <2>2, <2>3
<1>3. /\ poller'.pc = "draft" /\ poller'.todo = pending /\ poller'.of = {}
      /\ poller'.view = stored /\ poller'.found = {} /\ poller'.left = {}
  BY <1>2
<1>4. PollerShape'
  BY <1>2, <1>3 DEF PollerShape
<1>5. PollerTurn'
  BY <1>1, <1>2, <1>3 DEF PollerTurn, NeedsNumber
<1>6. StoredShape' /\ Counted'
  BY <1>1, <1>3 DEF StoredShape, Counted, PollerTurn
<1> QED  BY <1>4, <1>5, <1>6 DEF JobInv

LEMMA DraftIsTaken ==
    ASSUME DeskInv, TakeDraft
    PROVE  JobInv'
<1>1. /\ PollerShape /\ PollerTurn /\ StoredShape /\ Counted /\ poller.pc = "draft"
      /\ UNCHANGED <<numbered, stored, learned, unanswered>> /\ poller.of = {}
  BY DEF DeskInv, JobInv, TakeDraft, OnlyPoller, PollerTurn
<1>2. CASE poller.todo = {}
  <2>1. poller' = IdlePoller /\ UNCHANGED asked
    BY <1>2 DEF TakeDraft
  <2>2. poller'.pc = "idle" /\ poller'.of = {} /\ poller'.todo = {} /\ poller'.found = {}
    BY <2>1 DEF IdlePoller
  <2>3. PollerShape'
    BY <2>1 DEF PollerShape, IdlePoller
  <2> QED  BY <1>1, <2>1, <2>2, <2>3 DEF JobInv, PollerTurn, StoredShape, Counted
<1>3. CASE poller.todo # {}
  <2>1. PICK d \in poller.todo :
          /\ poller' = [poller EXCEPT !.pc = "ask", !.todo = @ \ {d}, !.of = {d}, !.found = {},
                                      !.left = ParcelsOf(d) \ poller.view[d].numbers]
          /\ asked' = [asked EXCEPT ![d] = @ + 1]
    BY <1>3 DEF TakeDraft
  <2>2. /\ poller'.pc = "ask" /\ poller'.todo = poller.todo \ {d} /\ poller'.of = {d}
        /\ poller'.found = {} /\ poller'.view = poller.view
        /\ poller'.left \subseteq ParcelsOf(d)
    BY <1>1, <2>1 DEF PollerShape
  <2>3. PollerShape'
    BY <1>1, <2>1, <2>2 DEF PollerShape
  <2>4. d \in Shipped
    BY <1>1 DEF PollerShape
  <2>5. PollerTurn'
    BY <1>1, <2>2, <2>4 DEF PollerTurn
  <2>6. asked' \in [Shipped -> Nat] /\ asked'[d] = asked[d] + 1
        /\ \A e \in Shipped : e # d => asked'[e] = asked[e]
    BY <1>1, <2>1, <2>4 DEF StoredShape
  <2>7. StoredShape' /\ Counted'
    BY <1>1, <2>2, <2>4, <2>6 DEF StoredShape, Counted
  <2> QED  BY <2>3, <2>5, <2>7 DEF JobInv
<1> QED  BY <1>2, <1>3

\* The draft the job is at.
LEMMA TheDraftAsked ==
    ASSUME JobInv, poller.pc = "ask"
    PROVE  /\ OfPoller \in Shipped /\ poller.of = {OfPoller} /\ OfPoller \notin poller.todo
           /\ poller.left \subseteq ParcelsOf(OfPoller) /\ poller.found \subseteq ParcelsOf(OfPoller)
           /\ poller.view[OfPoller] = stored[OfPoller]
           /\ stored[OfPoller].attempts < MaxAttempts
  BY DEF JobInv, PollerTurn, OfPoller

\* A draft the job gives up is left as it was, and is known for it.
LEMMA TurnIsGivenUp ==
    ASSUME JobInv, poller.pc = "ask",
           poller' = [poller EXCEPT !.pc = "draft", !.of = {}, !.left = {}, !.found = {}]
             \/ poller' = [poller EXCEPT !.pc = "draft", !.of = {}, !.found = {}],
           unanswered' = unanswered \cup {OfPoller},
           UNCHANGED <<numbered, stored, learned, asked>>
    PROVE  JobInv'
<1>1. PollerShape /\ PollerTurn /\ StoredShape /\ Counted
  BY DEF JobInv
<1>2. PollerShape' /\ poller'.pc = "draft" /\ poller'.todo = poller.todo /\ poller'.of = {}
      /\ poller'.found = {} /\ poller'.view = poller.view
  BY <1>1 DEF PollerShape
<1>3. PollerTurn'
  BY <1>1, <1>2 DEF PollerTurn
<1>4. StoredShape' /\ Counted'
  BY <1>1, <1>2, TheDraftAsked DEF StoredShape, Counted
<1> QED  BY <1>2, <1>3, <1>4 DEF JobInv

LEMMA NumberIsAsked ==
    ASSUME DeskInv, AskNumber
    PROVE  JobInv'
<1> DEFINE d == OfPoller
<1>1. /\ PollerShape /\ PollerTurn /\ StoredShape /\ Counted /\ poller.pc = "ask" /\ JobInv
      /\ UNCHANGED <<numbered, stored, asked>>
  BY DEF DeskInv, JobInv, AskNumber, OnlyPoller
<1>2. /\ d \in Shipped /\ poller.of = {d} /\ d \notin poller.todo
      /\ poller.left \subseteq ParcelsOf(d) /\ poller.found \subseteq ParcelsOf(d)
  BY <1>1, TheDraftAsked
<1>3. PICK p \in poller.left :
        \/ /\ UNCHANGED unanswered
           /\ poller' = [poller EXCEPT !.left = @ \ {p}, !.found = @ \cup NumberTold(p)]
           /\ learned' = [learned EXCEPT ![d] = @ \cup NumberTold(p)]
        \/ /\ poller' = [poller EXCEPT !.pc = "draft", !.of = {}, !.left = {}, !.found = {}]
           /\ unanswered' = unanswered \cup {d} /\ UNCHANGED learned
  BY DEF AskNumber
<1>4. CASE /\ UNCHANGED unanswered
           /\ poller' = [poller EXCEPT !.left = @ \ {p}, !.found = @ \cup NumberTold(p)]
           /\ learned' = [learned EXCEPT ![d] = @ \cup NumberTold(p)]
  <2> HIDE DEF d
  <2>1. NumberTold(p) \subseteq numbered /\ NumberTold(p) \subseteq ParcelsOf(d)
    BY <1>2 DEF NumberTold
  <2>2. /\ poller'.pc = "ask" /\ poller'.todo = poller.todo /\ poller'.of = {d}
        /\ poller'.view = poller.view /\ poller'.left = poller.left \ {p}
        /\ poller'.found = poller.found \cup NumberTold(p)
    BY <1>1, <1>2, <1>4 DEF PollerShape
  <2>3. PollerShape'
    BY <1>1, <1>4, <2>1, <2>2 DEF PollerShape
  <2>4. PollerTurn'
    BY <1>1, <1>2, <2>1, <2>2 DEF PollerTurn
  <2>5. /\ learned' \in [Shipped -> SUBSET ParcelId]
        /\ learned'[d] = learned[d] \cup NumberTold(p)
        /\ \A e \in Shipped : e # d => learned'[e] = learned[e]
    BY <1>1, <1>2, <1>4, <2>1, ParcelsAreIds DEF StoredShape
  <2>6. StoredShape'
    BY <1>1, <2>5 DEF StoredShape
  <2>7. Counted'
    BY <1>1, <1>2, <1>4, <2>2, <2>5 DEF Counted
  <2> QED  BY <2>3, <2>4, <2>6, <2>7 DEF JobInv
<1>5. CASE /\ poller' = [poller EXCEPT !.pc = "draft", !.of = {}, !.left = {}, !.found = {}]
           /\ unanswered' = unanswered \cup {d} /\ UNCHANGED learned
  BY <1>1, <1>5, TurnIsGivenUp
<1> QED  BY <1>3, <1>4, <1>5

LEMMA NumbersAreWritten ==
    ASSUME DeskInv, WriteNumbers
    PROVE  JobInv'
<1> DEFINE d == OfPoller
           written == WithNumbers(poller.view[d], poller.found)
<1>1. /\ PollerShape /\ PollerTurn /\ StoredShape /\ Counted /\ poller.pc = "ask" /\ JobInv
      /\ UNCHANGED <<numbered, asked, learned>>
      /\ poller' = [poller EXCEPT !.pc = "draft", !.of = {}, !.found = {}]
  BY DEF DeskInv, JobInv, WriteNumbers, OnlyPoller
<1>2. /\ d \in Shipped /\ poller.of = {d} /\ d \notin poller.todo
      /\ poller.found \subseteq ParcelsOf(d) /\ poller.view[d] = stored[d]
      /\ stored[d].attempts < MaxAttempts
  BY <1>1, TheDraftAsked
<1>3. \/ stored' = [stored EXCEPT ![d] = written] /\ UNCHANGED unanswered
      \/ unanswered' = unanswered \cup {d} /\ UNCHANGED stored
  BY DEF WriteNumbers
<1>4. CASE stored' = [stored EXCEPT ![d] = written] /\ UNCHANGED unanswered
  <2>1. written = [numbers |-> stored[d].numbers \cup poller.found,
                   attempts |-> stored[d].attempts + 1]
    BY <1>2 DEF WithNumbers
  <2> HIDE DEF d, written
  <2>2. /\ stored[d].numbers \subseteq ParcelsOf(d) /\ stored[d].attempts \in 0..MaxAttempts
        /\ ParcelsOf(d) \subseteq ParcelId
    BY <1>1, <1>2, ParcelsAreIds DEF StoredShape
  <2>3. stored[d].attempts + 1 \in 0..MaxAttempts
    BY <1>2, <2>2, DeskShape
  <2>4. written \in [numbers : SUBSET ParcelId, attempts : 0..MaxAttempts]
    BY <1>2, <2>1, <2>2, <2>3
  <2>5. /\ written.numbers = stored[d].numbers \cup poller.found
        /\ written.attempts = stored[d].attempts + 1
    BY <2>1
  <2>6. /\ stored' \in [Shipped -> [numbers : SUBSET ParcelId, attempts : 0..MaxAttempts]]
        /\ stored'[d] = written /\ \A e \in Shipped : e # d => stored'[e] = stored[e]
    BY <1>1, <1>2, <1>4, <2>4 DEF StoredShape
  <2>7. PollerShape' /\ poller'.pc = "draft" /\ poller'.todo = poller.todo /\ poller'.of = {}
        /\ poller'.found = {} /\ poller'.view = poller.view
    BY <1>1 DEF PollerShape
  <2>8. PollerTurn'
    <3>1. \A e \in poller.todo : e # d /\ e \in Shipped
      BY <1>1, <1>2 DEF PollerShape
    <3> QED  BY <1>1, <2>6, <2>7, <3>1 DEF PollerTurn
  <2>9. StoredShape'
    BY <1>1, <1>2, <2>2, <2>5, <2>6 DEF StoredShape
  <2>10. Counted'
    <3> SUFFICES ASSUME NEW e \in Shipped \ unanswered
                 PROVE  asked[e] = stored'[e].attempts /\ learned[e] \subseteq stored'[e].numbers
      BY <1>1, <1>4, <2>7 DEF Counted
    <3>1. CASE e = d
      BY <1>1, <1>2, <2>5, <2>6, <3>1 DEF Counted
    <3>2. CASE e # d
      BY <1>1, <1>2, <2>6, <3>2 DEF Counted
    <3> QED  BY <3>1, <3>2
  <2> QED  BY <2>7, <2>8, <2>9, <2>10 DEF JobInv
<1>5. CASE unanswered' = unanswered \cup {d} /\ UNCHANGED stored
  BY <1>1, <1>5, TurnIsGivenUp
<1> QED  BY <1>3, <1>4, <1>5

LEMMA JobHolds ==
    ASSUME DeskInv, Numbering
    PROVE  DeskInv'
<1>1. UNCHANGED <<carrier, canceller, printer, answer, repeated>>
  BY DEF Numbering, BeginCycle, TakeDraft, AskNumber, WriteNumbers, OnlyPoller
<1>2. JobInv'
  BY CycleBegins, DraftIsTaken, NumberIsAsked, NumbersAreWritten DEF Numbering
<1> QED  BY <1>1, <1>2, CancelApart, PrintApart DEF DeskInv

-----------------------------------------------------------------------------
LEMMA DeskInvIsEnough == DeskInv => DeskIsTrue
<1> SUFFICES ASSUME DeskInv PROVE DeskIsTrue
  OBVIOUS
<1>1. DeskTypeOK
  <2>1. \A p \in ParcelId : carrier[p] \in {"new", "ready", "sent", "cancelled"}
                            /\ answer[p] \in {0, 204, 401, 409, 503}
    BY DEF DeskInv, CancelInv, Stage_, Status_
  <2>2. \A d \in Shipped : stored[d].numbers \subseteq ParcelsOf(d)
                           /\ stored[d].attempts \in 0..MaxAttempts
    BY DEF DeskInv, JobInv, StoredShape
  <2>3. canceller.pc \in {"idle", "preflight", "delete"}
    BY DEF DeskInv, CancelInv
  <2> QED  BY <2>1, <2>2, <2>3 DEF DeskTypeOK, DeskInv, PrintInv, PrinterShape, JobInv, PollerShape
<1>2. RefusedIsNotCancelled /\ ToldIsCancelled /\ PrintedIsWhole /\ OutageIsNotRefusal
  BY DEF DeskInv, CancelInv, PrintInv
<1>3. AskedAtMost
  <2> SUFFICES ASSUME NEW d \in Shipped \ unanswered
               PROVE  asked[d] <= MaxAttempts
    BY DEF AskedAtMost
  <2>1. /\ d \in poller.of => asked[d] = stored[d].attempts + 1 /\ stored[d].attempts < MaxAttempts
        /\ d \notin poller.of => asked[d] = stored[d].attempts
        /\ stored[d].attempts \in 0..MaxAttempts
    BY DEF DeskInv, JobInv, Counted, PollerTurn, StoredShape
  <2> QED  BY <2>1, DeskShape
<1>4. LearnedIsKept
  BY DEF LearnedIsKept, DeskInv, JobInv, Counted, PollerTurn
<1> QED  BY <1>1, <1>2, <1>3, <1>4 DEF DeskIsTrue

(***************************************************************************)
(* THEOREM DeskHolds.  Whatever the operator cancels and prints, and the   *)
(* carriers lose, refuse or move on in between, what the desk says of a    *)
(* parcel is so at the carrier, a batch that is printed is whole, an       *)
(* outage is not told as a fault of the order, and the job asks no more    *)
(* often than it may and forgets no number (fulfillment.py:303,            *)
(* labels.py:88, apaczka_pickup_poller.py:119).                            *)
(***************************************************************************)
THEOREM DeskHolds == DeskSpec => []DeskIsTrue
<1>1. ASSUME DeskInv, [DeskNext \/ JobNext]_deskVars
      PROVE  DeskInv'
  <2>1. ASSUME NEW p \in ParcelId, Advance(p)
        PROVE  DeskInv'
    BY <1>1, <2>1, CarrierAdvances
  <2>2. ASSUME NEW p \in ParcelId, NumberPickup(p)
        PROVE  DeskInv'
    BY <1>1, <2>2, PickupIsNumbered
  <2>3. CASE Cancelling
    BY <1>1, <2>3, CancelHolds
  <2>4. CASE Printing
    BY <1>1, <2>4, PrintHolds
  <2>5. CASE Numbering
    BY <1>1, <2>5, JobHolds
  <2>6. CASE UNCHANGED deskVars
    <3>1. UNCHANGED <<carrier, numbered, stored, canceller, printer, poller, answer, learned,
                      asked, repeated, unanswered>>
      BY <2>6 DEF deskVars
    <3> QED  BY <1>1, <3>1, CancelApart, PrintApart, JobApart DEF DeskInv
  <2> QED  BY <1>1, <2>1, <2>2, <2>3, <2>4, <2>5, <2>6 DEF DeskNext, JobNext
<1> QED  BY <1>1, DeskFirst, DeskInvIsEnough, PTL DEF DeskSpec

-----------------------------------------------------------------------------
(***************************************************************************)
(* Uploads.  Whatever a look finds is followed from the inbox over the     *)
(* list of matches and the directory into storage: at each step of a stage *)
(* the next place has it before the last one loses it.                     *)
(***************************************************************************)
Cause_(c) == c \in inputCauses

InputsShape ==
    /\ InputsTypeOK
    /\ inbox \in [Document -> Nat] /\ came \in [Document -> Nat]
    /\ editions \in [Document -> Nat] /\ month \in [Document -> Nat]
    /\ archive \in [Document -> Nat]
    /\ picker = [pc |-> picker.pc, matches |-> picker.matches, vendor |-> picker.vendor,
                 bank |-> picker.bank]
    /\ picker.matches \in [Document -> Nat]
    /\ picker.vendor \in BOOLEAN /\ picker.bank \in BOOLEAN
    /\ verdict = [stage |-> verdict.stage, ok |-> verdict.ok, quiet |-> verdict.quiet]
    /\ verdict.quiet \in BOOLEAN
    /\ \A d \in Document : came[d] <= delivered

\* the slots a stage has looked for
Looked(pc) ==
    CASE pc = "vendor" -> {}
      [] pc = "bank" -> {"vendor"}
      [] pc = "report" -> {"vendor", "bank"}
      [] OTHER -> Slot

\* A match is of a slot that was looked for, it is still in the inbox, and
\* of the edition there, unless another came since.
MatchInv ==
    /\ picker.pc \in {"idle", "vendor", "store", "verify"} => Matched = {}
    /\ \A d \in Matched : /\ d.slot \in Looked(picker.pc) /\ d \in InboxDocs
                          /\ Cause_("overwritten") \/ picker.matches[d] = editions[d]
    /\ \A d \in Document : editions[d] # 0 /\ d.form = "token" => Cause_("token")

\* where a stage at pc has what it looked for
Place_(pc) ==
    CASE pc \in {"bank", "report", "copy"} -> Matched \cup Placed(month)
      [] pc = "store" -> Placed(month)
      [] OTHER -> Placed(archive)

\* A statement that was taken is the month's, and one that was found is kept.
BankInv ==
    /\ \A d \in Of("bank") :
          d \in Matched \cup Placed(month) \cup Placed(archive) => d.form = "right"
    /\ picker.bank => \/ /\ picker.pc \in {"report", "copy"}
                         /\ (Matched \cup Placed(month)) \cap Of("bank") # {}
                      \/ /\ picker.pc \in {"store", "verify"}
                         /\ Placed(month) \cap Of("bank") # {}
    /\ verdict.stage # "none" => picker.pc = "idle"
    /\ verdict.stage = "bank" /\ verdict.ok =>
          Cause_("upload_failed") \/ (Placed(month) \cup Placed(archive)) \cap Of("bank") # {}

\* Storage has what the directory has, but for what was copied a moment ago.
StoredInv ==
    Cause_("upload_failed") \/ picker.pc = "store" \/
    \A d \in Placed(month) : archive[d] = month[d]

\* In a stage that nothing disturbs whatever was there when it looked is on
\* its way, and so is the accountant's format.
TakenInv ==
    verdict.quiet /\ scoped =>
       \A slot \in Looked(picker.pc) :
          (\E d \in InboxDocs : d.slot = slot /\ d.form # "token" /\ d.form # "wrong")
             => Place_(picker.pc) \cap Of(slot) # {}

XmlReport == {d \in Of("report") : d.form = "xml"}
FormatInv ==
    verdict.quiet /\ "report" \in Looked(picker.pc) /\ InboxDocs \cap XmlReport # {}
       => Place_(picker.pc) \cap XmlReport # {}

LatestInv ==
    /\ LatestIsSomewhere
    /\ \/ Forgiven({"same_name", "overwritten", "upload_failed", "killed"})
       \/ picker.pc # "store"
       \/ \A d \in Placed(month) : \/ month[d] \in {archive[d], editions[d]}
                                   \/ inbox[d] = editions[d]

InputsInv ==
    InputsShape /\ MatchInv /\ BankInv /\ StoredInv /\ TakenInv /\ FormatInv /\ LatestInv

-----------------------------------------------------------------------------
(***************************************************************************)
(* A bounded set of natural numbers has a greatest one: of the intervals   *)
(* x..m that begin in it, one has none of the others inside it.            *)
(***************************************************************************)
LEMMA GreatestNumber ==
    ASSUME NEW m \in Nat, NEW T, T \subseteq 0..m, T # {}
    PROVE  \E x \in T : \A y \in T : y <= x
<1> DEFINE Tails == {x..m : x \in T}
<1> DEFINE R == StrictSubsetOrdering(Nat)
<1>1. Tails \subseteq FiniteSubsetsOf(Nat) /\ Tails # {}
  <2>1. ASSUME NEW x \in T PROVE IsFiniteSet(x..m) /\ x..m \in SUBSET Nat
    <3>1. x \in Nat
      OBVIOUS
    <3> QED  BY <3>1, FS_Interval
  <2>2. ASSUME NEW x \in T PROVE x..m \in FiniteSubsetsOf(Nat)
    BY <2>1 DEF FiniteSubsetsOf
  <2>3. Tails # {}
    <3>1. PICK x \in T : TRUE
      OBVIOUS
    <3>2. x..m \in Tails
      OBVIOUS
    <3> HIDE DEF Tails
    <3> QED  BY <3>2
  <2> QED  BY <2>2, <2>3
<1>2. IsWellFoundedOn(R, FiniteSubsetsOf(Nat))
  BY FS_StrictSubsetOrderingWellFounded
<1>3. \E u \in Tails : \A w \in Tails : <<w, u>> \notin R
  <2> HIDE DEF Tails, R
  <2> QED  BY <1>1, <1>2, WFMin
<1>4. PICK x \in T : \A y \in T : <<y..m, x..m>> \notin R
  BY <1>3
<1>5. ASSUME NEW y \in T, x < y PROVE FALSE
  <2>1. y..m \subseteq x..m /\ y..m \in SUBSET Nat /\ x..m \in SUBSET Nat
    BY <1>5
  <2>2. x \in x..m /\ x \notin y..m
    BY <1>5
  <2> QED  BY <1>4, <2>1, <2>2 DEF StrictSubsetOrdering
<1> QED  BY <1>5

\* The latest of some uploads is one of them (storage.py:237).
LEMMA LatestIsThere ==
    ASSUME InputsShape, NEW docs \in SUBSET Document, docs # {}
    PROVE  Latest(docs) \in docs
<1> DEFINE T == {came[d] : d \in docs}
<1>1. delivered \in Nat /\ T \subseteq 0..delivered
  BY InputShape DEF InputsShape, InputsTypeOK
<1>2. T # {}
  OBVIOUS
<1>3. PICK x \in T : \A y \in T : y <= x
  <2> HIDE DEF T
  <2> QED  BY <1>1, <1>2, GreatestNumber
<1>4. PICK d \in docs : came[d] = x
  BY <1>3
<1>5. \A e \in docs : came[e] <= came[d]
  BY <1>3, <1>4
<1> QED  BY <1>4, <1>5 DEF Latest

\* What each kind of document may be named like (config.py:73).
LEMMA Forms ==
    /\ Slot = {"vendor", "bank", "report"}
    /\ \A d \in Document : /\ d.slot \in Slot
                           /\ d.slot = "vendor" => d.form \in {"exact", "similar"}
                           /\ d.slot = "bank" => d.form \in {"right", "wrong", "token"}
                           /\ d.slot = "report" => d.form \in {"xml", "pdf"}
  BY InputShape DEF Slot, Form

LEMMA InputsFirst == InputInit => InputsInv
<1> SUFFICES ASSUME InputInit PROVE InputsInv
  OBVIOUS
<1> USE DEF InputInit, Nothing, IdlePicker, NoVerdict
<1>1. Nothing = [d \in Document |-> 0] /\ Nothing \in [Document -> Nat]
  OBVIOUS
<1>2. Placed(Nothing) = {}
  BY DEF Placed
<1>3. InputsShape
  BY <1>2, InputShape DEF InputsShape, InputsTypeOK, Matched
<1>4. MatchInv /\ BankInv /\ StoredInv
  BY <1>2 DEF MatchInv, BankInv, StoredInv, Matched
<1>5. TakenInv /\ FormatInv /\ LatestInv
  BY DEF TakenInv, FormatInv, LatestInv, LatestIsSomewhere
<1> QED  BY <1>3, <1>4, <1>5 DEF InputsInv

(***************************************************************************)
(* A file is uploaded.  It is the latest, and it disturbs the stage.       *)
(***************************************************************************)
LEMMA DeliverKeeps ==
    ASSUME InputsInv, NEW d \in Document, Deliver(d)
    PROVE  InputsInv'
<1>1. /\ delivered < MaxUploads /\ delivered' = delivered + 1
      /\ UNCHANGED <<scoped, month, archive, picker, runs, inputFaults>>
      /\ inputCauses \subseteq inputCauses'
      /\ d.form = "token" => "token" \in inputCauses'
      /\ picker.matches[d] # 0 => "overwritten" \in inputCauses'
      /\ verdict' = [stage |-> verdict.stage, ok |-> verdict.ok, quiet |-> FALSE]
  BY DEF Deliver, Blame, InputsInv, InputsShape
<1>2. /\ editions' \in [Document -> Nat] /\ inbox' \in [Document -> Nat]
      /\ came' \in [Document -> Nat]
      /\ editions'[d] = editions[d] + 1 /\ inbox'[d] = editions'[d] /\ came'[d] = delivered'
      /\ \A e \in Document \ {d} : /\ editions'[e] = editions[e] /\ inbox'[e] = inbox[e]
                                   /\ came'[e] = came[e]
  BY <1>1, InputShape DEF Deliver, InputsInv, InputsShape, InputsTypeOK
<1>3. Matched' = Matched
  BY <1>1 DEF Matched, Placed
<1>4. InputsShape'
  <2>1. InputsTypeOK'
    BY <1>1, <1>2, <1>3, InputShape DEF InputsInv, InputsShape, InputsTypeOK
  <2> QED  BY <1>1, <1>2, <2>1, InputShape DEF InputsInv, InputsShape, InputsTypeOK
<1>5. MatchInv'
  BY <1>1, <1>2, <1>3 DEF InputsInv, InputsShape, MatchInv, Cause_, InboxDocs, Placed, Matched
<1>6. BankInv' /\ StoredInv'
  BY <1>1, <1>3 DEF InputsInv, BankInv, StoredInv, Cause_, Placed
<1>7. TakenInv' /\ FormatInv'
  BY <1>1 DEF TakenInv, FormatInv
<1>8. LatestInv'
  BY <1>1, <1>2 DEF InputsInv, InputsShape, LatestInv, LatestIsSomewhere, Forgiven, Placed
<1> QED  BY <1>4, <1>5, <1>6, <1>7, <1>8 DEF InputsInv

(***************************************************************************)
(* A stage begins, and knows of nothing yet.                               *)
(***************************************************************************)
LEMMA BeginKeeps ==
    ASSUME InputsInv, BeginStage
    PROVE  InputsInv'
<1>1. /\ picker.pc = "idle" /\ runs < MaxRuns /\ runs' = runs + 1
      /\ picker' = [pc |-> "vendor", matches |-> Nothing, vendor |-> FALSE, bank |-> FALSE]
      /\ verdict' = [stage |-> "none", ok |-> FALSE, quiet |-> TRUE]
      /\ UNCHANGED <<scoped, inbox, came, editions, delivered, month, archive, inputFaults,
                     inputCauses>>
  BY DEF BeginStage, IdlePicker, NoVerdict, uploadVars
<1>2. Matched' = {} /\ Nothing \in [Document -> Nat] /\ \A d \in Document : Nothing[d] = 0
  BY <1>1 DEF Matched, Placed, Nothing
<1>3. InputsShape'
  <2>1. InputsTypeOK'
    BY <1>1, <1>2, InputShape DEF InputsInv, InputsShape, InputsTypeOK
  <2> QED  BY <1>1, <1>2, <2>1 DEF InputsInv, InputsShape
<1>4. MatchInv' /\ BankInv' /\ StoredInv'
  BY <1>1, <1>2 DEF InputsInv, MatchInv, BankInv, StoredInv, Cause_, Placed
<1>5. TakenInv' /\ FormatInv' /\ LatestInv'
  BY <1>1 DEF InputsInv, TakenInv, FormatInv, LatestInv, LatestIsSomewhere, Looked, Forgiven
<1> QED  BY <1>3, <1>4, <1>5 DEF InputsInv

-----------------------------------------------------------------------------
(***************************************************************************)
(* A stage looks for the documents of a slot, and takes the latest of      *)
(* those that will do.                                                     *)
(***************************************************************************)
Turn_ == {<<"vendor", "vendor", "bank">>, <<"bank", "bank", "report">>,
          <<"report", "report", "copy">>}

\* what a stage at step pc does about slot, and goes on to next
LEMMA Turns ==
    ASSUME NEW pc, NEW slot, NEW next, <<pc, slot, next>> \in Turn_
    PROVE  /\ slot \in Slot /\ slot \notin Looked(pc) /\ pc \in {"vendor", "bank", "report"}
           /\ Looked(next) = Looked(pc) \cup {slot} /\ next \in {"bank", "report", "copy"}
           /\ next = "bank" => pc = "vendor"
           /\ next # "bank" => pc \in {"bank", "report"}
  BY Forms DEF Turn_, Looked

LEMMA TakeKeeps ==
    ASSUME InputsInv, NEW slot, NEW next, <<picker.pc, slot, next>> \in Turn_,
           NEW taken \in SUBSET (InboxDocs \cap Of(slot)), NEW found \in BOOLEAN,
           Take(next, taken, found),
           slot = "bank" => \A d \in taken : d.form = "right",
           found => /\ slot # "vendor"
                    /\ \/ taken # {} /\ slot = "bank"
                       \/ Placed(month) \cap Of("bank") # {}
                       \/ slot = "report" /\ picker.bank,
           scoped /\ (\E d \in InboxDocs : d.slot = slot /\ d.form # "token" /\ d.form # "wrong")
              => taken # {} \/ Placed(month) \cap Of(slot) # {},
           slot = "report" /\ InboxDocs \cap XmlReport # {}
              => \/ taken # {} /\ taken \subseteq XmlReport
                 \/ Placed(month) \cap XmlReport # {}
    PROVE  InputsInv'
<1> DEFINE l == Latest(taken)
           new == IF taken = {} THEN {} ELSE {l}
<1>1. /\ picker' = [pc |-> next, matches |-> picker'.matches, vendor |-> picker'.vendor,
                    bank |-> found]
      /\ picker'.vendor \in BOOLEAN
      /\ picker'.matches = IF taken = {} THEN picker.matches
                           ELSE [picker.matches EXCEPT ![l] = inbox[l]]
      /\ UNCHANGED <<scoped, inbox, came, editions, delivered, month, archive, verdict, runs,
                     inputFaults, inputCauses>>
  BY DEF Take, uploadVars, InputsInv, InputsShape
<1>2. taken # {} => l \in taken
  <2>1. taken \in SUBSET Document
    BY DEF InboxDocs, Placed
  <2> QED  BY <2>1, LatestIsThere DEF InputsInv
<1>3. new \subseteq taken /\ (taken # {} => new # {})
  BY <1>2
<1>4. \A d \in taken : d \in Document /\ d \in InboxDocs /\ d.slot = slot /\ inbox[d] # 0
  BY DEF InboxDocs, Placed, Of
<1>5. /\ picker'.matches \in [Document -> Nat]
      /\ Matched' = Matched \cup new
      /\ \A d \in Document : picker'.matches[d] = IF d \in new THEN inbox[d] ELSE picker.matches[d]
  <2>1. CASE taken = {}
    BY <1>1, <2>1 DEF InputsInv, InputsShape, Matched, Placed
  <2>2. CASE taken # {}
    <3>1. l \in Document /\ inbox[l] # 0 /\ inbox[l] \in Nat
      BY <1>2, <1>4, <2>2 DEF InputsInv, InputsShape
    <3> HIDE DEF l
    <3>2. picker'.matches \in [Document -> Nat]
      BY <1>1, <2>2, <3>1 DEF InputsInv, InputsShape
    <3>3. \A d \in Document : picker'.matches[d] = IF d = l THEN inbox[d] ELSE picker.matches[d]
      BY <1>1, <2>2, <3>1 DEF InputsInv, InputsShape
    <3>4. Matched' = Matched \cup {l}
      BY <3>1, <3>3 DEF Matched, Placed
    <3> QED  BY <2>2, <3>2, <3>3, <3>4
  <2> QED  BY <2>1, <2>2
<1> HIDE DEF l, new
<1>6. /\ slot \in Slot /\ slot \notin Looked(picker.pc)
      /\ picker.pc \in {"vendor", "bank", "report"}
      /\ Looked(next) = Looked(picker.pc) \cup {slot} /\ next \in {"bank", "report", "copy"}
  BY Turns
<1>7. \A d \in Matched : /\ d.slot \in Looked(picker.pc) /\ d \in InboxDocs
                         /\ Cause_("overwritten") \/ picker.matches[d] = editions[d]
  BY DEF InputsInv, MatchInv
<1>8. \A d \in Document : inbox[d] \in {0, editions[d]}
  BY DEF InputsInv, InputsShape, InputsTypeOK
<1>9. InputsShape'
  <2>1. \A d \in Document : picker'.matches[d] \in 0..editions[d]
    BY <1>5, <1>8 DEF InputsInv, InputsShape, InputsTypeOK
  <2>2. \A d, e \in Matched' : d.slot = e.slot => d = e
    <3>1. \A d, e \in new : d = e
      BY DEF new
    <3> QED  BY <1>3, <1>4, <1>5, <1>6, <1>7, <3>1 DEF InputsInv, InputsShape, InputsTypeOK
  <2>3. InputsTypeOK'
    BY <1>1, <1>6, <2>1, <2>2 DEF InputsInv, InputsShape, InputsTypeOK
  <2> QED  BY <1>1, <1>5, <2>3 DEF InputsInv, InputsShape
<1>10. MatchInv'
  <2>1. \A d \in Matched' : d.slot \in Looked(next) /\ d \in InboxDocs'
    BY <1>1, <1>3, <1>4, <1>5, <1>6, <1>7 DEF InboxDocs, Placed
  <2>2. \A d \in Matched' : Cause_("overwritten")' \/ picker'.matches[d] = editions'[d]
    <3> TAKE d \in Matched'
    <3>1. d \in Document
      BY DEF Matched, Placed
    <3>2. CASE d \in new
      BY <1>1, <1>3, <1>4, <1>5, <1>8, <3>1, <3>2
    <3>3. CASE d \notin new
      BY <1>1, <1>5, <1>7, <3>1, <3>3 DEF Cause_
    <3> QED  BY <3>2, <3>3
  <2> QED  BY <1>1, <1>6, <2>1, <2>2 DEF InputsInv, MatchInv, Cause_
<1>11. BankInv'
  <2>1. \A d \in Of("bank") :
           d \in Matched' \cup Placed(month') \cup Placed(archive') => d.form = "right"
    <3>1. \A d \in new : d.slot = "bank" => d.form = "right"
      BY <1>3, <1>4
    <3> QED  BY <1>1, <1>5, <3>1 DEF InputsInv, BankInv, Of, Placed
  <2>2. found => next \in {"report", "copy"} /\ (Matched' \cup Placed(month)) \cap Of("bank") # {}
    <3> SUFFICES ASSUME found PROVE next \in {"report", "copy"}
                                    /\ (Matched' \cup Placed(month)) \cap Of("bank") # {}
      OBVIOUS
    <3>1. next \in {"report", "copy"}
      BY DEF Turn_
    <3>2. ASSUME taken # {}, slot = "bank" PROVE Matched' \cap Of("bank") # {}
      BY <1>3, <1>4, <1>5, <3>2 DEF Of
    <3>3. ASSUME slot = "report", picker.bank
          PROVE  (Matched \cup Placed(month)) \cap Of("bank") # {}
      BY <3>3 DEF InputsInv, BankInv, Turn_
    <3> QED  BY <1>5, <3>1, <3>2, <3>3
  <2>3. verdict.stage = "none"
    BY <1>6 DEF InputsInv, BankInv
  <2> QED  BY <1>1, <2>1, <2>2, <2>3 DEF BankInv, Placed, Of
<1>12. StoredInv' /\ LatestInv'
  BY <1>1, <1>6 DEF InputsInv, StoredInv, LatestInv, LatestIsSomewhere, Forgiven, Cause_, Placed
<1>13. Place_(next)' = Matched' \cup Placed(month)
  BY <1>1, <1>6 DEF Place_, Placed
<1>14. ASSUME slot # "vendor" PROVE Place_(picker.pc) = Matched \cup Placed(month)
  BY <1>14 DEF Place_, Turn_
<1>15. ASSUME slot = "vendor" PROVE Looked(picker.pc) = {}
  BY <1>15 DEF Looked, Turn_
<1>16. TakenInv'
  <2> SUFFICES ASSUME verdict.quiet, scoped, NEW s \in Looked(next), NEW d \in InboxDocs,
                      d.slot = s, d.form # "token", d.form # "wrong"
               PROVE  (Matched' \cup Placed(month)) \cap Of(s) # {}
    BY <1>1, <1>13 DEF TakenInv, InboxDocs, Placed, Of
  <2>1. CASE s = slot
    <3>1. taken # {} \/ Placed(month) \cap Of(slot) # {}
      BY <2>1
    <3> QED  BY <1>3, <1>4, <1>5, <2>1, <3>1 DEF Of
  <2>2. CASE s # slot
    <3>1. s \in Looked(picker.pc)
      BY <1>6, <2>2
    <3>2. Place_(picker.pc) \cap Of(s) # {}
      BY <3>1 DEF InputsInv, TakenInv
    <3> QED  BY <1>5, <1>14, <1>15, <3>1, <3>2
  <2> QED  BY <2>1, <2>2
<1>17. FormatInv'
  <2> SUFFICES ASSUME verdict.quiet, "report" \in Looked(next), InboxDocs \cap XmlReport # {}
               PROVE  (Matched' \cup Placed(month)) \cap XmlReport # {}
    BY <1>1, <1>13 DEF FormatInv, InboxDocs, Placed, XmlReport, Of
  <2>1. CASE slot = "report"
    BY <1>3, <1>5, <2>1
  <2>2. CASE slot # "report"
    BY <2>2, Forms DEF Turn_, Looked
  <2> QED  BY <2>1, <2>2
<1> QED  BY <1>9, <1>10, <1>11, <1>12, <1>16, <1>17 DEF InputsInv

\* The vendor's document, by the id in its mail or by its pattern.
LEMMA VendorIsLookedFor ==
    ASSUME InputsInv, FindVendor
    PROVE  InputsInv'
<1> DEFINE there == InboxDocs \cap Of("vendor")
<1>1. PICK mailed \in BOOLEAN :
         Take("bank", IF ~mailed THEN there
                      ELSE IF scoped THEN VendorMatches(there) ELSE FolderMatches(there), FALSE)
  BY DEF FindVendor
<1> DEFINE taken == IF ~mailed THEN there
                    ELSE IF scoped THEN VendorMatches(there) ELSE FolderMatches(there)
<1>2. Take("bank", taken, FALSE) /\ picker.pc = "vendor"
  BY <1>1 DEF FindVendor
<1>3. taken \in SUBSET there /\ (scoped /\ there # {} => taken # {})
  BY DEF VendorMatches, FolderMatches
<1>4. \A d \in InboxDocs : d.slot = "vendor" => d \in there
  BY DEF Of, InboxDocs, Placed
<1>5. <<picker.pc, "vendor", "bank">> \in Turn_
  BY <1>2 DEF Turn_
<1> HIDE DEF taken
<1>6. scoped /\ (\E d \in InboxDocs : d.slot = "vendor" /\ d.form # "token" /\ d.form # "wrong")
         => taken # {} \/ Placed(month) \cap Of("vendor") # {}
  BY <1>3, <1>4
<1> QED  BY <1>2, <1>3, <1>5, <1>6, TakeKeeps

\* The statement generated in the month after, unless one is copied already.
LEMMA StatementIsLookedFor ==
    ASSUME InputsInv, CheckBank
    PROVE  InputsInv'
<1> DEFINE copied == Placed(month) \cap Of("bank")
           there == PkoMatchesMonth(InboxDocs \cap Of("bank"))
           taken == IF copied # {} THEN {} ELSE there
           found == copied # {} \/ there # {}
<1>1. Take("report", taken, found) /\ picker.pc = "bank"
  <2>1. CASE copied # {}
    <3>1. taken = {} /\ found = TRUE
      BY <2>1
    <3> QED  BY <2>1, <3>1 DEF CheckBank
  <2>2. CASE copied = {}
    <3>1. taken = there /\ found = (there # {})
      BY <2>2
    <3> QED  BY <2>2, <3>1 DEF CheckBank
  <2> QED  BY <2>1, <2>2
<1>2. /\ taken \in SUBSET (InboxDocs \cap Of("bank")) /\ \A d \in taken : d.form = "right"
      /\ found \in BOOLEAN /\ (found => taken # {} \/ copied # {})
  BY DEF PkoMatchesMonth
<1>3. ASSUME NEW d \in InboxDocs, d.slot = "bank", d.form # "token", d.form # "wrong"
      PROVE  taken # {} \/ copied # {}
  <2>1. d \in Document
    BY DEF InboxDocs, Placed
  <2>2. d.form = "right"
    BY <1>3, <2>1, Forms
  <2>3. d \in there
    BY <1>3, <2>1, <2>2 DEF PkoMatchesMonth, Of
  <2> QED  BY <2>3
<1> DEFINE slot == "bank"
<1> HIDE DEF taken, found
<1>4. <<picker.pc, slot, "report">> \in Turn_
  BY <1>1 DEF Turn_
<1>5. /\ taken \in SUBSET (InboxDocs \cap Of(slot))
      /\ slot = "bank" => \A d \in taken : d.form = "right"
  BY <1>2
<1>6. found => /\ slot # "vendor"
               /\ \/ taken # {} /\ slot = "bank"
                  \/ Placed(month) \cap Of("bank") # {}
                  \/ slot = "report" /\ picker.bank
  BY <1>2
<1>7. scoped /\ (\E d \in InboxDocs : d.slot = slot /\ d.form # "token" /\ d.form # "wrong")
         => taken # {} \/ Placed(month) \cap Of(slot) # {}
  BY <1>3
<1>8. slot = "report" /\ InboxDocs \cap XmlReport # {}
         => \/ taken # {} /\ taken \subseteq XmlReport
            \/ Placed(month) \cap XmlReport # {}
  OBVIOUS
<1>9. Take("report", taken, found) /\ found \in BOOLEAN
  BY <1>1, <1>2
<1> HIDE DEF copied, there, slot
<1>10. CASE found = TRUE
  <2>1. Take("report", taken, TRUE)
    BY <1>9, <1>10
  <2>2. TRUE => /\ slot # "vendor"
                /\ \/ taken # {} /\ slot = "bank"
                   \/ Placed(month) \cap Of("bank") # {}
                   \/ slot = "report" /\ picker.bank
    BY <1>6, <1>10
  <2> QED  BY <1>4, <1>5, <1>7, <1>8, <2>1, <2>2, TakeKeeps
<1>11. CASE found = FALSE
  <2>1. Take("report", taken, FALSE)
    BY <1>9, <1>11
  <2> QED  BY <1>4, <1>5, <1>7, <1>8, <2>1, TakeKeeps
<1> QED  BY <1>9, <1>10, <1>11

\* The report, in the accountant's format if there is one.
LEMMA ReportIsLookedFor ==
    ASSUME InputsInv, CheckReports
    PROVE  InputsInv'
<1> DEFINE forms == {d.form : d \in Placed(month) \cap Of("report")}
           there == InboxDocs \cap Of("report")
           taken == ReportMatches(forms, there)
<1>1. Take("copy", taken, picker.bank) /\ picker.pc = "report" /\ picker.bank \in BOOLEAN
  BY DEF CheckReports, InputsInv, InputsShape
<1>2. taken \in SUBSET there
  BY DEF ReportMatches
<1>3. there # {} => taken # {} \/ Placed(month) \cap Of("report") # {}
  <2>1. forms # {} => Placed(month) \cap Of("report") # {}
    OBVIOUS
  <2> QED  BY <2>1 DEF ReportMatches
<1>4. InboxDocs \cap XmlReport # {}
         => \/ taken # {} /\ taken \subseteq XmlReport
            \/ Placed(month) \cap XmlReport # {}
  <2>1. CASE "xml" \in forms
    <3>1. PICK d \in Placed(month) \cap Of("report") : d.form = "xml"
      BY <2>1
    <3> QED  BY <3>1 DEF XmlReport
  <2>2. CASE "xml" \notin forms
    <3>1. {d \in there : d.form = "xml"} = InboxDocs \cap XmlReport
      BY DEF XmlReport
    <3> QED  BY <2>2, <3>1 DEF ReportMatches
  <2> QED  BY <2>1, <2>2
<1>5. \A d \in InboxDocs : d.slot = "report" => d \in there
  BY DEF Of, InboxDocs, Placed
<1>6. <<picker.pc, "report", "copy">> \in Turn_
  BY <1>1 DEF Turn_
<1> HIDE DEF taken
<1>7. scoped /\ (\E d \in InboxDocs : d.slot = "report" /\ d.form # "token" /\ d.form # "wrong")
         => taken # {} \/ Placed(month) \cap Of("report") # {}
  BY <1>3, <1>5
<1> QED  BY <1>1, <1>2, <1>4, <1>6, <1>7, TakeKeeps

\* A look that fails disturbs the stage.
LEMMA LookFailsKeeps ==
    ASSUME InputsInv, LookFails
    PROVE  InputsInv'
<1> DEFINE next == CASE picker.pc = "vendor" -> "bank" [] picker.pc = "bank" -> "report"
                     [] OTHER -> "copy"
<1>1. /\ picker.pc \in {"vendor", "bank", "report"}
      /\ inputFaults < MaxInputFaults /\ inputFaults' = inputFaults + 1
      /\ verdict' = [stage |-> verdict.stage, ok |-> verdict.ok, quiet |-> FALSE]
      /\ picker' = [pc |-> next, matches |-> picker.matches, vendor |-> picker.vendor,
                    bank |-> picker.bank]
      /\ UNCHANGED <<scoped, inbox, came, editions, delivered, month, archive, runs,
                     inputCauses>>
  BY DEF LookFails, InputFault, uploadVars, InputsInv, InputsShape
<1>2. /\ next \in {"bank", "report", "copy"} /\ Looked(picker.pc) \subseteq Looked(next)
      /\ picker.pc \in {"report"} => next = "copy"
  BY <1>1, Forms DEF Looked
<1>3. verdict.stage = "none" /\ (picker.bank => picker.pc = "report")
  BY <1>1 DEF InputsInv, BankInv
<1> HIDE DEF next
<1>4. Matched' = Matched
  BY <1>1 DEF Matched
<1>5. InputsShape'
  <2>1. InputsTypeOK'
    BY <1>1, <1>2, <1>4, InputShape DEF InputsInv, InputsShape, InputsTypeOK
  <2> QED  BY <1>1, <2>1 DEF InputsInv, InputsShape
<1>6. MatchInv'
  BY <1>1, <1>2, <1>4 DEF InputsInv, MatchInv, Cause_, InboxDocs, Placed
<1>7. BankInv'
  BY <1>1, <1>2, <1>3, <1>4 DEF InputsInv, BankInv, Placed
<1>8. StoredInv' /\ LatestInv'
  BY <1>1, <1>2 DEF InputsInv, StoredInv, LatestInv, LatestIsSomewhere, Forgiven, Cause_, Placed
<1>9. TakenInv' /\ FormatInv'
  BY <1>1 DEF TakenInv, FormatInv
<1> QED  BY <1>5, <1>6, <1>7, <1>8, <1>9 DEF InputsInv

-----------------------------------------------------------------------------
(***************************************************************************)
(* What was found is copied, and then taken out of the inbox: the month    *)
(* has every file that was matched, and what it has of one that it had     *)
(* before is the matched edition, or the name is to blame.                 *)
(***************************************************************************)
LEMMA CopyKeeps ==
    ASSUME InputsInv, CopyToFolders
    PROVE  InputsInv'
<1>1. /\ picker.pc = "copy"
      /\ picker' = [pc |-> "store", matches |-> Nothing, vendor |-> picker.vendor,
                    bank |-> picker.bank]
      /\ UNCHANGED <<scoped, came, editions, delivered, archive, verdict, runs>>
      /\ inputCauses \subseteq inputCauses'
      /\ inputFaults' \in 0..MaxInputFaults
  <2>1. \/ inputFaults' = inputFaults
        \/ inputFaults < MaxInputFaults /\ inputFaults' = inputFaults + 1
    BY DEF CopyToFolders, InputFault
  <2>2. inputFaults' \in 0..MaxInputFaults
    BY <2>1, InputShape DEF InputsInv, InputsShape, InputsTypeOK
  <2>3. picker = [pc |-> picker.pc, matches |-> picker.matches, vendor |-> picker.vendor,
                  bank |-> picker.bank]
    BY DEF InputsInv, InputsShape
  <2> QED  BY <2>2, <2>3 DEF CopyToFolders, Blame
<1>2. /\ month' \in [Document -> Nat] /\ inbox' \in [Document -> Nat]
      /\ \A d \in Document : /\ inbox'[d] \in {0, inbox[d]}
                             /\ d \notin Matched => inbox'[d] = inbox[d]
                             /\ d \notin Matched \/ month[d] # 0 => month'[d] = month[d]
                             /\ d \in Matched /\ month[d] = 0
                                   => month'[d] \in {picker.matches[d], inbox[d]}
      /\ \A d \in Matched : month[d] # 0 /\ month[d] # picker.matches[d]
                              => "same_name" \in inputCauses'
  <2> DEFINE new == {d \in Matched : month[d] = 0}
             stale == {d \in Matched \ new : month[d] # picker.matches[d]}
  <2>1. /\ month' = [d \in Document |-> IF d \notin new THEN month[d]
                                        ELSE IF scoped THEN picker.matches[d] ELSE inbox[d]]
        /\ \/ inbox' = [d \in Document |-> IF d \in Matched THEN 0 ELSE inbox[d]]
           \/ inbox' = inbox
        /\ Blame(IF stale # {} THEN {"same_name"} ELSE {})
    BY DEF CopyToFolders, Cleared
  <2>2. \A d \in Matched : month[d] # 0 /\ month[d] # picker.matches[d] => d \in stale
    OBVIOUS
  <2>3. stale # {} => "same_name" \in inputCauses'
    BY <2>1 DEF Blame
  <2>4. /\ month' \in [Document -> Nat]
        /\ \A d \in Document : /\ d \notin Matched \/ month[d] # 0 => month'[d] = month[d]
                               /\ d \in Matched /\ month[d] = 0
                                     => month'[d] \in {picker.matches[d], inbox[d]}
    BY <2>1 DEF InputsInv, InputsShape
  <2>5. /\ inbox' \in [Document -> Nat]
        /\ \A d \in Document : /\ inbox'[d] \in {0, inbox[d]}
                               /\ d \notin Matched => inbox'[d] = inbox[d]
    BY <2>1 DEF InputsInv, InputsShape
  <2> HIDE DEF stale
  <2> QED  BY <2>2, <2>3, <2>4, <2>5
<1>3. \A d \in Matched : /\ d \in Document /\ picker.matches[d] # 0 /\ inbox[d] # 0
                         /\ inbox[d] = editions[d]
                         /\ Cause_("overwritten") \/ picker.matches[d] = editions[d]
  BY DEF InputsInv, InputsShape, InputsTypeOK, MatchInv, InboxDocs, Matched, Placed
<1>4. Matched' = {} /\ Nothing \in [Document -> Nat] /\ \A d \in Document : Nothing[d] = 0
  BY <1>1 DEF Matched, Placed, Nothing
<1>5. Placed(month') = Matched \cup Placed(month)
  BY <1>2, <1>3 DEF Placed, Matched
<1>6. InboxDocs' \subseteq InboxDocs
  BY <1>2 DEF InboxDocs, Placed
<1>7. Looked("copy") = Slot /\ Looked("store") = Slot
  BY DEF Looked
<1>8. Place_("copy") = Placed(month') /\ Place_("store")' = Placed(month')
  BY <1>5 DEF Place_, Placed
<1>9. InputsShape'
  <2>1. \A d \in Document : /\ month'[d] \in 0..editions[d]
                            /\ inbox'[d] \in {0, editions[d]}
    BY <1>2, <1>3 DEF InputsInv, InputsShape, InputsTypeOK
  <2>2. InputsTypeOK'
    BY <1>1, <1>4, <2>1 DEF InputsInv, InputsShape, InputsTypeOK
  <2> QED  BY <1>1, <1>2, <1>4, <2>2 DEF InputsInv, InputsShape
<1>10. MatchInv'
  BY <1>1, <1>4 DEF InputsInv, MatchInv, Cause_
<1>11. BankInv'
  <2>1. \A d \in Of("bank") : d \in Placed(month') \cup Placed(archive) => d.form = "right"
    BY <1>5 DEF InputsInv, BankInv
  <2>2. picker.bank => Placed(month') \cap Of("bank") # {}
    BY <1>1, <1>5 DEF InputsInv, BankInv
  <2>3. verdict.stage = "none"
    BY <1>1 DEF InputsInv, BankInv
  <2> QED  BY <1>1, <1>4, <2>1, <2>2, <2>3 DEF BankInv, Placed, Of
<1>12. StoredInv'
  BY <1>1 DEF StoredInv
<1>13. TakenInv'
  BY <1>1, <1>6, <1>7, <1>8 DEF InputsInv, TakenInv, Of
<1>14. FormatInv'
  BY <1>1, <1>6, <1>7, <1>8 DEF InputsInv, FormatInv, XmlReport, Of
<1>15. LatestInv'
  <2> SUFFICES ASSUME ~Forgiven({"same_name", "overwritten", "upload_failed", "killed"})',
                      NEW d \in Document
               PROVE  /\ editions[d] \in {inbox'[d], month'[d], archive[d]}
                      /\ month'[d] # 0 => \/ month'[d] \in {archive[d], editions[d]}
                                          \/ inbox'[d] = editions[d]
    BY <1>1 DEF LatestInv, LatestIsSomewhere, Placed
  <2>1. /\ ~Forgiven({"same_name", "overwritten", "upload_failed", "killed"})
        /\ ~Cause_("overwritten") /\ ~Cause_("upload_failed") /\ "same_name" \notin inputCauses'
    BY <1>1 DEF Forgiven, Cause_
  <2>2. CASE d \in Matched
    <3>1. month'[d] = editions[d]
      BY <1>2, <1>3, <2>1, <2>2
    <3> QED  BY <3>1
  <2>3. CASE d \notin Matched
    <3>1. inbox'[d] = inbox[d] /\ month'[d] = month[d]
      BY <1>2, <2>3
    <3>2. editions[d] \in {inbox[d], month[d], archive[d]}
      BY <2>1 DEF InputsInv, LatestInv, LatestIsSomewhere
    <3>3. month[d] # 0 => archive[d] = month[d]
      BY <1>1, <2>1 DEF InputsInv, StoredInv, Placed
    <3> QED  BY <3>1, <3>2, <3>3
  <2> QED  BY <2>2, <2>3
<1> QED  BY <1>9, <1>10, <1>11, <1>12, <1>13, <1>14, <1>15 DEF InputsInv

(***************************************************************************)
(* The directory goes to storage, all of it or all but a file.             *)
(***************************************************************************)
LEMMA StoreKeeps ==
    ASSUME InputsInv, StoreMonth
    PROVE  InputsInv'
<1>1. /\ picker.pc = "store"
      /\ picker' = [pc |-> "verify", matches |-> picker.matches, vendor |-> picker.vendor,
                    bank |-> picker.bank]
      /\ UNCHANGED <<scoped, inbox, came, editions, delivered, month, runs>>
      /\ inputCauses \subseteq inputCauses'
      /\ inputFaults' \in 0..MaxInputFaults
  BY InputShape DEF StoreMonth, uploadVars, Blame, InputFault, InputsInv, InputsShape,
                    InputsTypeOK
<1>2. /\ archive' \in [Document -> Nat]
      /\ \A d \in Document : archive'[d] \in {month[d], archive[d]}
      /\ verdict' = [stage |-> verdict.stage, ok |-> verdict.ok, quiet |-> verdict'.quiet]
      /\ verdict'.quiet \in BOOLEAN
      /\ \/ /\ \A d \in Document : archive'[d] = IF month[d] # 0 THEN month[d] ELSE archive[d]
            /\ verdict' = verdict /\ inputCauses' = inputCauses
         \/ "upload_failed" \in inputCauses' /\ verdict'.quiet = FALSE
  <2>1. CASE /\ archive' = [d \in Document |-> IF month[d] # 0 THEN month[d] ELSE archive[d]]
             /\ UNCHANGED <<inputFaults, inputCauses, verdict>>
    BY <2>1 DEF InputsInv, InputsShape
  <2>2. CASE \E f \in Placed(month) :
                /\ month[f] # archive[f] /\ InputFault /\ Blame({"upload_failed"})
                /\ archive' = [d \in Document |-> IF month[d] # 0 /\ d # f
                                                  THEN month[d] ELSE archive[d]]
                /\ verdict' = [verdict EXCEPT !.quiet = FALSE]
    <3>1. PICK f \in Placed(month) :
             /\ Blame({"upload_failed"})
             /\ archive' = [d \in Document |-> IF month[d] # 0 /\ d # f
                                               THEN month[d] ELSE archive[d]]
             /\ verdict' = [verdict EXCEPT !.quiet = FALSE]
      BY <2>2
    <3>2. /\ archive' \in [Document -> Nat]
          /\ \A d \in Document : archive'[d] \in {month[d], archive[d]}
      BY <3>1 DEF InputsInv, InputsShape
    <3>3. verdict' = [stage |-> verdict.stage, ok |-> verdict.ok, quiet |-> FALSE]
      BY <3>1 DEF InputsInv, InputsShape
    <3>4. "upload_failed" \in inputCauses'
      BY <3>1 DEF Blame
    <3> QED  BY <3>2, <3>3, <3>4
  <2> QED  BY <2>1, <2>2 DEF StoreMonth
<1>3. Matched = {} /\ Matched' = {} /\ verdict.stage = "none"
  BY <1>1 DEF InputsInv, MatchInv, BankInv, Matched
<1>4. Placed(archive') \subseteq Placed(month) \cup Placed(archive)
  BY <1>2 DEF Placed
<1>5. \/ /\ Placed(month) \subseteq Placed(archive')
         /\ \A d \in Document : archive'[d] = IF month[d] # 0 THEN month[d] ELSE archive[d]
         /\ verdict' = verdict /\ inputCauses' = inputCauses
      \/ "upload_failed" \in inputCauses' /\ verdict'.quiet = FALSE
  BY <1>2 DEF Placed
<1>6. Looked("store") = Slot /\ Looked("verify") = Slot
  BY DEF Looked
<1>7. Place_("store") = Placed(month) /\ Place_("verify")' = Placed(archive')
  BY DEF Place_, Placed
<1>8. InputsShape'
  <2>1. \A d \in Document : archive'[d] \in 0..editions[d]
    BY <1>2 DEF InputsInv, InputsShape, InputsTypeOK
  <2>2. InputsTypeOK'
    BY <1>1, <1>2, <1>3, <2>1 DEF InputsInv, InputsShape, InputsTypeOK
  <2> QED  BY <1>1, <1>2, <2>2 DEF InputsInv, InputsShape
<1>9. MatchInv'
  BY <1>1, <1>3 DEF InputsInv, MatchInv, Cause_
<1>10. BankInv'
  <2>1. \A d \in Of("bank") : d \in Placed(month) \cup Placed(archive') => d.form = "right"
    BY <1>4 DEF InputsInv, BankInv
  <2>2. picker.bank => Placed(month) \cap Of("bank") # {}
    BY <1>1 DEF InputsInv, BankInv
  <2> QED  BY <1>1, <1>2, <1>3, <2>1, <2>2 DEF BankInv, Placed, Of
<1>11. StoredInv'
  BY <1>1, <1>5 DEF StoredInv, Cause_, Placed
<1>12. TakenInv' /\ FormatInv'
  <2>1. CASE verdict'.quiet = FALSE
    BY <2>1 DEF TakenInv, FormatInv
  <2>2. CASE Placed(month) \subseteq Placed(archive') /\ verdict' = verdict
    <3>1. TakenInv'
      BY <1>1, <1>6, <1>7, <2>2 DEF InputsInv, TakenInv, InboxDocs, Placed, Of
    <3>2. FormatInv'
      BY <1>1, <1>6, <1>7, <2>2 DEF InputsInv, FormatInv, InboxDocs, Placed, Of, XmlReport
    <3> QED  BY <3>1, <3>2
  <2> QED  BY <1>5, <2>1, <2>2
<1>13. LatestInv'
  <2> SUFFICES ASSUME ~Forgiven({"same_name", "overwritten", "upload_failed", "killed"})',
                      NEW d \in Document
               PROVE  editions[d] \in {inbox[d], month[d], archive'[d]}
    BY <1>1 DEF LatestInv, LatestIsSomewhere
  <2>1. /\ archive'[d] = IF month[d] # 0 THEN month[d] ELSE archive[d]
        /\ ~Forgiven({"same_name", "overwritten", "upload_failed", "killed"})
    BY <1>5 DEF Forgiven
  <2>2. editions[d] \in {inbox[d], month[d], archive[d]}
    BY <2>1 DEF InputsInv, LatestInv, LatestIsSomewhere
  <2>3. month[d] # 0 => month[d] \in {archive[d], editions[d]} \/ inbox[d] = editions[d]
    BY <1>1, <2>1 DEF InputsInv, LatestInv, Placed
  <2> QED  BY <2>1, <2>2, <2>3
<1> QED  BY <1>8, <1>9, <1>10, <1>11, <1>12, <1>13 DEF InputsInv

\* The stage says what it has, and is over.
LEMMA VerifyKeeps ==
    ASSUME InputsInv, NEW stage \in {"costs", "bank", "reports"}, Verify(stage)
    PROVE  InputsInv'
<1>1. /\ picker.pc = "verify"
      /\ picker' = [pc |-> "idle", matches |-> Nothing, vendor |-> FALSE, bank |-> FALSE]
      /\ UNCHANGED <<scoped, inbox, came, editions, delivered, month, archive, runs,
                     inputFaults, inputCauses>>
      /\ verdict' = [stage |-> stage, ok |-> verdict'.ok, quiet |-> verdict.quiet]
      /\ stage = "bank" => verdict'.ok = BankFound
  BY DEF Verify, IdlePicker, uploadVars, InputsInv, InputsShape
<1>2. Matched' = {} /\ Nothing \in [Document -> Nat] /\ \A d \in Document : Nothing[d] = 0
  BY <1>1 DEF Matched, Placed, Nothing
<1>3. BankFound => (Placed(month) \cup Placed(archive)) \cap Of("bank") # {}
  BY <1>1 DEF BankFound, Present, InputsInv, BankInv
<1>4. /\ Looked("verify") = Slot /\ Looked("idle") = Slot
      /\ Place_("verify") = Placed(archive) /\ Place_("idle")' = Placed(archive')
  BY DEF Looked, Place_, Placed
<1>5. InputsShape'
  <2>1. verdict'.stage \in {"none", "costs", "bank", "reports"}
    BY <1>1
  <2>2. picker'.pc = "idle" /\ \A d \in Document : picker'.matches[d] \in 0..editions[d]
    BY <1>1, <1>2 DEF InputsInv, InputsShape
  <2>3. InputsTypeOK'
    BY <1>1, <1>2, <2>1, <2>2 DEF InputsInv, InputsShape, InputsTypeOK
  <2> QED  BY <1>1, <1>2, <2>3 DEF InputsInv, InputsShape
<1>6. MatchInv'
  BY <1>1, <1>2 DEF InputsInv, MatchInv, Cause_
<1>7. BankInv'
  BY <1>1, <1>2, <1>3 DEF InputsInv, BankInv, Placed, Of, Cause_
<1>8. StoredInv' /\ LatestInv'
  BY <1>1 DEF InputsInv, StoredInv, LatestInv, LatestIsSomewhere, Forgiven, Cause_, Placed
<1>9. TakenInv' /\ FormatInv'
  BY <1>1, <1>4 DEF InputsInv, TakenInv, FormatInv, InboxDocs, Placed, Of, XmlReport
<1> QED  BY <1>5, <1>6, <1>7, <1>8, <1>9 DEF InputsInv

(***************************************************************************)
(* The directory of the month is lost.  Between two stages storage has all *)
(* that it had; in the middle of one the restart is to blame.              *)
(***************************************************************************)
LEMMA VanishKeeps ==
    ASSUME InputsInv, Vanish
    PROVE  InputsInv'
<1>1. /\ inputFaults < MaxInputFaults /\ inputFaults' = inputFaults + 1
      /\ month' = Nothing
      /\ picker' = [pc |-> "idle", matches |-> Nothing, vendor |-> FALSE, bank |-> FALSE]
      /\ UNCHANGED <<scoped, inbox, came, editions, delivered, archive, runs>>
      /\ inputCauses \subseteq inputCauses'
      /\ \/ picker.pc = "idle" /\ verdict' = verdict /\ inputCauses' = inputCauses
         \/ /\ "killed" \in inputCauses'
            /\ verdict' = [stage |-> "none", ok |-> FALSE, quiet |-> FALSE]
  BY DEF Vanish, InputFault, Blame, IdlePicker, NoVerdict, uploadVars
<1>2. /\ Nothing \in [Document -> Nat] /\ \A d \in Document : Nothing[d] = 0
      /\ Matched' = {} /\ Placed(month') = {}
  BY <1>1 DEF Matched, Placed, Nothing
<1>3. /\ verdict' = [stage |-> verdict'.stage, ok |-> verdict'.ok, quiet |-> verdict'.quiet]
      /\ verdict'.quiet \in BOOLEAN /\ verdict'.stage \in {"none", "costs", "bank", "reports"}
  <2>1. CASE verdict' = verdict
    BY <2>1 DEF InputsInv, InputsShape, InputsTypeOK
  <2>2. CASE verdict' = [stage |-> "none", ok |-> FALSE, quiet |-> FALSE]
    BY <2>2
  <2> QED  BY <1>1, <2>1, <2>2
<1>4. picker.pc = "idle" /\ ~Cause_("upload_failed")
         => \A d \in Placed(month) : archive[d] = month[d]
  BY DEF InputsInv, StoredInv
<1>5. InputsShape'
  <2>1. InputsTypeOK'
    BY <1>1, <1>2, <1>3, InputShape DEF InputsInv, InputsShape, InputsTypeOK
  <2> QED  BY <1>1, <1>2, <1>3, <2>1 DEF InputsInv, InputsShape
<1>6. MatchInv' /\ StoredInv'
  BY <1>1, <1>2 DEF InputsInv, MatchInv, StoredInv, Cause_
<1>7. BankInv'
  <2>1. \A d \in Of("bank") : d \in Placed(archive) => d.form = "right"
    BY DEF InputsInv, BankInv
  <2>2. verdict'.stage = "bank" /\ verdict'.ok
           => Cause_("upload_failed")' \/ Placed(archive) \cap Of("bank") # {}
    <3> SUFFICES ASSUME verdict'.stage = "bank", verdict'.ok, ~Cause_("upload_failed")'
                 PROVE  Placed(archive) \cap Of("bank") # {}
      OBVIOUS
    <3>1. picker.pc = "idle" /\ verdict' = verdict /\ ~Cause_("upload_failed")
      BY <1>1 DEF Cause_
    <3>2. PICK d \in (Placed(month) \cup Placed(archive)) : d \in Of("bank")
      BY <3>1 DEF InputsInv, BankInv
    <3>3. d \in Placed(archive)
      BY <1>4, <3>1, <3>2 DEF Placed
    <3> QED  BY <3>2, <3>3
  <2> QED  BY <1>1, <1>2, <2>1, <2>2 DEF BankInv, Placed, Of
<1>8. TakenInv' /\ FormatInv'
  <2>1. CASE picker.pc = "idle" /\ verdict' = verdict
    <3>1. /\ Place_("idle") = Placed(archive) /\ Place_("idle")' = Placed(archive)
          /\ Looked("idle") = Slot
      BY <1>1 DEF Place_, Looked, Placed
    <3> QED  BY <1>1, <2>1, <3>1
             DEF InputsInv, TakenInv, FormatInv, InboxDocs, Placed, Of, XmlReport
  <2>2. CASE verdict' = [stage |-> "none", ok |-> FALSE, quiet |-> FALSE]
    <3>1. ~verdict'.quiet
      BY <2>2
    <3> QED  BY <3>1 DEF TakenInv, FormatInv
  <2> QED  BY <1>1, <2>1, <2>2
<1>9. LatestInv'
  <2> SUFFICES ASSUME ~Forgiven({"same_name", "overwritten", "upload_failed", "killed"})',
                      NEW d \in Document
               PROVE  editions[d] \in {inbox[d], 0, archive[d]}
    BY <1>1, <1>2 DEF LatestInv, LatestIsSomewhere
  <2>1. /\ picker.pc = "idle" /\ ~Cause_("upload_failed")
        /\ ~Forgiven({"same_name", "overwritten", "upload_failed", "killed"})
    BY <1>1 DEF Forgiven, Cause_
  <2>2. editions[d] \in {inbox[d], month[d], archive[d]}
    BY <2>1 DEF InputsInv, LatestInv, LatestIsSomewhere
  <2>3. month[d] \in {0, archive[d]}
    BY <1>4, <2>1 DEF Placed
  <2> QED  BY <2>2, <2>3
<1> QED  BY <1>5, <1>6, <1>7, <1>8, <1>9 DEF InputsInv

-----------------------------------------------------------------------------
LEMMA InputsInvIsEnough == InputsInv => UploadsAreTaken
<1> SUFFICES ASSUME InputsInv PROVE UploadsAreTaken
  OBVIOUS
<1>1. InputsTypeOK /\ LatestIsSomewhere
  BY DEF InputsInv, InputsShape, LatestInv
<1>2. Looked("idle") = Slot /\ Place_("idle") = Placed(archive)
  BY DEF Looked, Place_
<1>3. ShownIsTaken
  <2> SUFFICES ASSUME scoped, verdict.quiet, picker.pc = "idle", ~Cause_("token"),
                      NEW slot \in Slot, Shown(slot)
               PROVE  Placed(archive) \cap Of(slot) # {}
    BY DEF ShownIsTaken, Forgiven, Cause_
  <2>1. PICK d \in InboxDocs \cup Placed(archive) :
           d \in Of(slot) /\ (slot = "bank" => d \in BankNames)
    BY DEF Shown, BankNames, Of
  <2>2. d \in Document /\ d.slot = slot
    BY <2>1 DEF Of
  <2>3. editions[d] # 0
    BY <2>1, <2>2 DEF InputsInv, InputsShape, InputsTypeOK, InboxDocs, Placed
  <2>4. d.form # "token" /\ d.form # "wrong"
    <3>1. d.form # "token"
      BY <2>2, <2>3 DEF InputsInv, MatchInv
    <3>2. slot = "bank" => d.form # "wrong"
      BY <2>1 DEF BankNames
    <3>3. slot # "bank" => d.form # "wrong"
      BY <2>2, Forms
    <3> QED  BY <3>1, <3>2, <3>3
  <2>5. CASE d \in Placed(archive)
    BY <2>1, <2>5
  <2>6. CASE d \in InboxDocs
    BY <1>2, <2>2, <2>4, <2>6 DEF InputsInv, TakenInv
  <2> QED  BY <2>1, <2>5, <2>6
<1>4. BankIsTheMonths
  <2> SUFFICES ASSUME ~Cause_("upload_failed"), verdict.stage = "bank", verdict.ok
               PROVE  \E d \in (Placed(month) \cup Placed(archive)) \cap Of("bank") :
                         d.form = "right"
    BY DEF BankIsTheMonths, Forgiven, Cause_
  <2>1. PICK d \in (Placed(month) \cup Placed(archive)) \cap Of("bank") : TRUE
    BY DEF InputsInv, BankInv
  <2>2. d.form = "right"
    BY <2>1 DEF InputsInv, BankInv
  <2> QED  BY <2>1, <2>2
<1>5. RightFormatIsTaken
  <2> SUFFICES ASSUME verdict.quiet, picker.pc = "idle", NEW d \in InboxDocs \cap Of("report"),
                      d.form = "xml"
               PROVE  \E x \in (Placed(month) \cup Placed(archive)) \cap Of("report") :
                         x.form = "xml"
    BY DEF RightFormatIsTaken
  <2>1. PICK x \in Placed(archive) \cap XmlReport : TRUE
    BY <1>2, Forms DEF InputsInv, FormatInv, XmlReport
  <2> QED  BY <2>1 DEF XmlReport
<1> QED  BY <1>1, <1>3, <1>4, <1>5 DEF UploadsAreTaken

(***************************************************************************)
(* THEOREM InputsHold.  However many documents are uploaded, and whatever  *)
(* call fails or restart comes in between, a stage that nothing disturbed  *)
(* has taken into the month's storage all that the dashboard calls         *)
(* present, the statement it reports is the month's, the accountant's      *)
(* format is not passed over, and no upload is lost but for the causes     *)
(* that are named (preflight.py:138, inspection.py:243).                   *)
(***************************************************************************)
THEOREM InputsHold == InputSpec => []UploadsAreTaken
<1>1. ASSUME InputsInv, [InputNext]_inputVars
      PROVE  InputsInv'
  <2>1. ASSUME NEW d \in Document, Deliver(d)
        PROVE  InputsInv'
    BY <1>1, <2>1, DeliverKeeps
  <2>2. ASSUME BeginStage \/ LookFails \/ CopyToFolders \/ StoreMonth \/ Vanish
        PROVE  InputsInv'
    BY <1>1, <2>2, BeginKeeps, LookFailsKeeps, CopyKeeps, StoreKeeps, VanishKeeps
  <2>3. ASSUME FindVendor \/ CheckBank \/ CheckReports
        PROVE  InputsInv'
    BY <1>1, <2>3, VendorIsLookedFor, StatementIsLookedFor, ReportIsLookedFor
  <2>4. ASSUME NEW s \in {"costs", "bank", "reports"}, Verify(s)
        PROVE  InputsInv'
    BY <1>1, <2>4, VerifyKeeps
  <2>5. CASE UNCHANGED inputVars
    <3>1. UNCHANGED <<scoped, inbox, came, editions, delivered, month, archive, picker, verdict,
                      runs, inputFaults, inputCauses>>
      BY <2>5 DEF inputVars
    <3>2. InputsShape'
      BY <1>1, <3>1 DEF InputsInv, InputsShape, InputsTypeOK, Matched, Placed
    <3>3. MatchInv' /\ BankInv' /\ StoredInv'
      BY <1>1, <3>1 DEF InputsInv, MatchInv, BankInv, StoredInv, Cause_, Matched, InboxDocs,
                        Placed
    <3>4. TakenInv' /\ FormatInv'
      BY <1>1, <3>1 DEF InputsInv, TakenInv, FormatInv, Place_, Matched, InboxDocs, Placed
    <3>5. LatestInv'
      BY <1>1, <3>1 DEF InputsInv, LatestInv, LatestIsSomewhere, Forgiven, Placed
    <3> QED  BY <3>2, <3>3, <3>4, <3>5 DEF InputsInv
  <2> QED  BY <1>1, <2>1, <2>2, <2>3, <2>4, <2>5 DEF InputNext
<1> QED  BY <1>1, InputsFirst, InputsInvIsEnough, PTL DEF InputSpec

-----------------------------------------------------------------------------
(***************************************************************************)
(* Induction.  What holds of 0, and of each number up to n when it holds   *)
(* of the one before, holds of all of them: of the intervals from 0 to a   *)
(* number it does not hold of, one has none of the others inside it.       *)
(***************************************************************************)
LEMMA Stepwise ==
    ASSUME NEW n \in Nat, NEW T, 0 \in T, \A k \in 1..n : k - 1 \in T => k \in T
    PROVE  \A k \in 0..n : k \in T
<1> DEFINE C == {k \in 0..n : k \notin T}
           From0 == {0..k : k \in C}
           R == StrictSubsetOrdering(Nat)
<1> SUFFICES ASSUME C # {} PROVE FALSE
  OBVIOUS
<1>1. From0 \subseteq FiniteSubsetsOf(Nat) /\ From0 # {}
  <2>1. ASSUME NEW k \in C PROVE 0..k \in FiniteSubsetsOf(Nat)
    <3>1. IsFiniteSet(0..k) /\ 0..k \in SUBSET Nat
      BY FS_Interval
    <3> QED  BY <3>1 DEF FiniteSubsetsOf
  <2>2. PICK k \in C : TRUE
    OBVIOUS
  <2>3. 0..k \in From0
    OBVIOUS
  <2> HIDE DEF From0
  <2>4. From0 # {}
    BY <2>3
  <2> QED  BY <2>1, <2>4 DEF From0
<1>2. \E u \in From0 : \A w \in From0 : <<w, u>> \notin R
  <2>1. IsWellFoundedOn(R, FiniteSubsetsOf(Nat))
    BY FS_StrictSubsetOrderingWellFounded
  <2> HIDE DEF From0, R
  <2> QED  BY <1>1, <2>1, WFMin
<1>3. PICK x \in C : \A y \in C : <<0..y, 0..x>> \notin R
  BY <1>2
<1>4. x \in 1..n /\ x - 1 \in 0..n
  OBVIOUS
<1>5. x - 1 \in C
  BY <1>4
<1>6. 0..(x - 1) \subseteq 0..x /\ 0..(x - 1) # 0..x
      /\ 0..(x - 1) \in SUBSET Nat /\ 0..x \in SUBSET Nat
  <2>1. x \in 0..x /\ x \notin 0..(x - 1)
    BY <1>4
  <2> QED  BY <1>4, <2>1
<1> QED  BY <1>3, <1>5, <1>6 DEF StrictSubsetOrdering

(***************************************************************************)
(* Sums and products.  Partial ones there are: those up to k go on to      *)
(* k + 1.                                                                  *)
(***************************************************************************)
Joined(times, a, b) == IF times THEN a * b ELSE a + b
Totals_(f, s, n, times, first) ==
    f = [k \in 0..n |-> IF k = 0 THEN first ELSE Joined(times, f[k - 1], s[k])]

LEMMA TotalsExist ==
    ASSUME NEW n \in Nat, NEW s, NEW times, NEW first
    PROVE  \E f : Totals_(f, s, n, times, first)
<1> DEFINE T == {k \in 0..n : \E f : Totals_(f, s, k, times, first)}
<1>1. 0 \in T
  <2> DEFINE f == [k \in 0..0 |-> first]
  <2>1. f = [k \in 0..0 |-> IF k = 0 THEN first ELSE Joined(times, f[k - 1], s[k])]
    OBVIOUS
  <2> HIDE DEF f
  <2>2. Totals_(f, s, 0, times, first)
    BY <2>1 DEF Totals_
  <2> QED  BY <2>2
<1>2. ASSUME NEW k \in 1..n, k - 1 \in T PROVE k \in T
  <2>1. PICK f : Totals_(f, s, k - 1, times, first)
    BY <1>2
  <2> DEFINE g == [j \in 0..k |-> IF j = k THEN Joined(times, f[k - 1], s[k]) ELSE f[j]]
  <2>2. \A j \in 0..k : j = k \/ j \in 0..(k - 1)
    OBVIOUS
  <2>3. \A j \in 0..(k - 1) : f[j] = IF j = 0 THEN first ELSE Joined(times, f[j - 1], s[j])
    BY <2>1 DEF Totals_
  <2>4. \A j \in 0..k : j # 0 => j - 1 \in 0..k /\ j - 1 # k
    OBVIOUS
  <2>5. \A j \in 0..k : g[j] = IF j = 0 THEN first ELSE Joined(times, g[j - 1], s[j])
    BY <2>2, <2>3, <2>4
  <2>6. g = [j \in 0..k |-> g[j]]
    OBVIOUS
  <2> HIDE DEF g
  <2>7. Totals_(g, s, k, times, first)
    BY <2>5, <2>6 DEF Totals_
  <2> QED  BY <2>7
<1> HIDE DEF T
<1>3. \A k \in 0..n : k \in T
  BY <1>1, <1>2, Stepwise
<1>4. n \in T
  BY <1>3
<1> QED  BY <1>4 DEF T

LEMMA SumOfList ==
    ASSUME NEW n \in Nat, NEW s \in [1..n -> Int]
    PROVE  \E f \in [0..n -> Int] :
              /\ f[0] = 0 /\ \A k \in 1..n : f[k] = f[k - 1] + s[k]
              /\ Sum(s) = f[n]
<1>1. s \in Seq(Int) /\ Len(s) = n
  OBVIOUS
<1>2. Listed(s) = s
  BY <1>1, ConcatEmptySeq DEF Listed
<1> DEFINE f == CHOOSE f : f = [k \in 0..n |-> IF k = 0 THEN 0 ELSE f[k - 1] + s[k]]
<1>3. Sum(s) = f[n]
  BY <1>1, <1>2 DEF Sum
<1>4. f = [k \in 0..n |-> IF k = 0 THEN 0 ELSE f[k - 1] + s[k]]
  <2>1. PICK g : Totals_(g, s, n, FALSE, 0)
    BY TotalsExist
  <2>2. g = [k \in 0..n |-> IF k = 0 THEN 0 ELSE g[k - 1] + s[k]]
    BY <2>1 DEF Totals_, Joined
  <2> QED  BY <2>2
<1> HIDE DEF f
<1>5. \A k \in 0..n : f[k] = IF k = 0 THEN 0 ELSE f[k - 1] + s[k]
  BY <1>4
<1> DEFINE T == {k \in 0..n : f[k] \in Int}
<1>6. \A k \in 0..n : f[k] \in Int
  <2>1. 0 \in T
    BY <1>5
  <2>2. \A k \in 1..n : k - 1 \in T => k \in T
    BY <1>5
  <2> HIDE DEF T
  <2>3. \A k \in 0..n : k \in T
    BY <2>1, <2>2, Stepwise
  <2> QED  BY <2>3 DEF T
<1>7. f \in [0..n -> Int]
  BY <1>4, <1>6
<1>8. f[0] = 0 /\ \A k \in 1..n : f[k] = f[k - 1] + s[k]
  <2>1. 0 \in 0..n /\ \A k \in 1..n : k \in 0..n /\ k # 0
    OBVIOUS
  <2> QED  BY <1>5, <2>1
<1> QED  BY <1>3, <1>7, <1>8, Zenon

(***************************************************************************)
(* What a sum of integers is, and how it follows its members.              *)
(***************************************************************************)
LEMMA SumIsInt ==
    ASSUME NEW n \in Nat, NEW s \in [1..n -> Int]
    PROVE  Sum(s) \in Int
BY SumOfList

LEMMA SumIsNat ==
    ASSUME NEW n \in Nat, NEW s \in [1..n -> Nat]
    PROVE  Sum(s) \in Nat
<1>1. s \in [1..n -> Int]
  OBVIOUS
<1>2. PICK f \in [0..n -> Int] : /\ f[0] = 0 /\ \A k \in 1..n : f[k] = f[k - 1] + s[k]
                               /\ Sum(s) = f[n]
  BY <1>1, SumOfList
<1> DEFINE T == {k \in 0..n : f[k] >= 0}
<1>3. 0 \in T
  BY <1>2
<1>3a. \A k \in 1..n : k - 1 \in T => k \in T
  BY <1>2
<1> HIDE DEF T
<1>4. \A k \in 0..n : k \in T
  BY <1>3, <1>3a, Stepwise
<1> QED  BY <1>2, <1>4 DEF T

LEMMA SumPlus ==
    ASSUME NEW n \in Nat, NEW a \in [1..n -> Int], NEW b \in [1..n -> Int],
           NEW c \in [1..n -> Int], \A k \in 1..n : c[k] = a[k] + b[k]
    PROVE  Sum(c) = Sum(a) + Sum(b)
<1>1. PICK f \in [0..n -> Int] : /\ f[0] = 0 /\ \A k \in 1..n : f[k] = f[k - 1] + a[k]
                               /\ Sum(a) = f[n]
  BY SumOfList
<1>2. PICK g \in [0..n -> Int] : /\ g[0] = 0 /\ \A k \in 1..n : g[k] = g[k - 1] + b[k]
                               /\ Sum(b) = g[n]
  BY SumOfList
<1>3. PICK h \in [0..n -> Int] : /\ h[0] = 0 /\ \A k \in 1..n : h[k] = h[k - 1] + c[k]
                               /\ Sum(c) = h[n]
  BY SumOfList
<1> DEFINE T == {k \in 0..n : h[k] = f[k] + g[k]}
<1>4. 0 \in T
  BY <1>1, <1>2, <1>3
<1>4a. \A k \in 1..n : k - 1 \in T => k \in T
  BY <1>1, <1>2, <1>3
<1> HIDE DEF T
<1>5. \A k \in 0..n : k \in T
  BY <1>4, <1>4a, Stepwise
<1> QED  BY <1>1, <1>2, <1>3, <1>5 DEF T

LEMMA SumTimes ==
    ASSUME NEW n \in Nat, NEW a \in [1..n -> Int], NEW m \in Int,
           NEW c \in [1..n -> Int], \A k \in 1..n : c[k] = m * a[k]
    PROVE  Sum(c) = m * Sum(a)
<1>1. PICK f \in [0..n -> Int] : /\ f[0] = 0 /\ \A k \in 1..n : f[k] = f[k - 1] + a[k]
                               /\ Sum(a) = f[n]
  BY SumOfList
<1>2. PICK h \in [0..n -> Int] : /\ h[0] = 0 /\ \A k \in 1..n : h[k] = h[k - 1] + c[k]
                               /\ Sum(c) = h[n]
  BY SumOfList
<1> DEFINE T == {k \in 0..n : h[k] = m * f[k]}
<1>3. \A x, y \in Int : m * (x + y) = m * x + m * y
  OBVIOUS
<1>4. 0 \in T
  BY <1>1, <1>2
<1>5. ASSUME NEW k \in 1..n, k - 1 \in T PROVE k \in T
  <2>1. f[k - 1] \in Int /\ a[k] \in Int
    OBVIOUS
  <2>2. h[k] = m * f[k - 1] + m * a[k]
    BY <1>2, <1>5
  <2> QED  BY <1>1, <1>3, <2>1, <2>2
<1> HIDE DEF T
<1>6. \A k \in 0..n : k \in T
  BY <1>4, <1>5, Stepwise
<1> QED  BY <1>1, <1>2, <1>6 DEF T

LEMMA SumUpTo ==
    ASSUME NEW n \in Nat, NEW a \in [1..n -> Int], NEW b \in [1..n -> Int],
           \A k \in 1..n : a[k] <= b[k]
    PROVE  Sum(a) <= Sum(b)
<1>1. PICK f \in [0..n -> Int] : /\ f[0] = 0 /\ \A k \in 1..n : f[k] = f[k - 1] + a[k]
                               /\ Sum(a) = f[n]
  BY SumOfList
<1>2. PICK g \in [0..n -> Int] : /\ g[0] = 0 /\ \A k \in 1..n : g[k] = g[k - 1] + b[k]
                               /\ Sum(b) = g[n]
  BY SumOfList
<1> DEFINE T == {k \in 0..n : f[k] <= g[k]}
<1>3. 0 \in T
  BY <1>1, <1>2
<1>3a. \A k \in 1..n : k - 1 \in T => k \in T
  BY <1>1, <1>2
<1> HIDE DEF T
<1>4. \A k \in 0..n : k \in T
  BY <1>3, <1>3a, Stepwise
<1> QED  BY <1>1, <1>2, <1>4 DEF T

\* One more member, at the end.
LEMMA SumAppended ==
    ASSUME NEW n \in Nat, NEW a \in [1..n -> Int], NEW b \in [1..(n + 1) -> Int],
           \A k \in 1..n : b[k] = a[k]
    PROVE  Sum(b) = Sum(a) + b[n + 1]
<1>1. PICK f \in [0..n -> Int] : /\ f[0] = 0 /\ \A k \in 1..n : f[k] = f[k - 1] + a[k]
                               /\ Sum(a) = f[n]
  BY SumOfList
<1>2. PICK g \in [0..(n + 1) -> Int] : /\ g[0] = 0
                                     /\ \A k \in 1..(n + 1) : g[k] = g[k - 1] + b[k]
                                     /\ Sum(b) = g[n + 1]
  <2>1. n + 1 \in Nat
    OBVIOUS
  <2> QED  BY <2>1, SumOfList
<1> DEFINE T == {k \in 0..n : f[k] = g[k]}
<1>3. 0 \in T
  BY <1>1, <1>2
<1>3a. \A k \in 1..n : k - 1 \in T => k \in T
  BY <1>1, <1>2
<1> HIDE DEF T
<1>4. \A k \in 0..n : k \in T
  BY <1>3, <1>3a, Stepwise
<1>5. n + 1 \in 1..(n + 1) /\ (n + 1) - 1 = n
  OBVIOUS
<1> QED  BY <1>1, <1>2, <1>4, <1>5 DEF T

\* As many ones as there are members of a set.
LEMMA SumCounts ==
    ASSUME NEW n \in Nat, NEW S \in SUBSET (1..n), NEW s \in [1..n -> Int],
           \A k \in 1..n : s[k] = IF k \in S THEN 1 ELSE 0
    PROVE  IsFiniteSet(S) /\ Cardinality(S) \in Nat /\ Sum(s) = Cardinality(S)
<1>1. PICK f \in [0..n -> Int] : /\ f[0] = 0 /\ \A k \in 1..n : f[k] = f[k - 1] + s[k]
                               /\ Sum(s) = f[n]
  BY SumOfList
<1> DEFINE UpTo(k) == {i \in S : i <= k}
           T == {k \in 0..n : IsFiniteSet(UpTo(k)) /\ Cardinality(UpTo(k)) = f[k]}
<1>2. 0 \in T
  <2>1. \A i \in 1..n : ~(i <= 0)
    OBVIOUS
  <2>2. UpTo(0) = {}
    BY <2>1
  <2> HIDE DEF UpTo
  <2>3. IsFiniteSet(UpTo(0)) /\ Cardinality(UpTo(0)) = 0
    BY <2>2, FS_EmptySet
  <2> QED  BY <1>1, <2>3
<1>3. ASSUME NEW k \in 1..n, k - 1 \in T PROVE k \in T
  <2>1. IsFiniteSet(UpTo(k - 1)) /\ Cardinality(UpTo(k - 1)) = f[k - 1] /\ k \notin UpTo(k - 1)
    BY <1>3
  <2>2. \A i \in 1..n : i <= k <=> (i <= k - 1 \/ i = k)
    OBVIOUS
  <2>3. UpTo(k) = IF k \in S THEN UpTo(k - 1) \cup {k} ELSE UpTo(k - 1)
    BY <2>2
  <2> HIDE DEF UpTo
  <2>4. IsFiniteSet(UpTo(k - 1) \cup {k}) /\ Cardinality(UpTo(k - 1) \cup {k}) = f[k - 1] + 1
    BY <2>1, FS_AddElement
  <2>5. IsFiniteSet(UpTo(k)) /\ Cardinality(UpTo(k)) = f[k - 1] + s[k]
    BY <2>1, <2>3, <2>4
  <2> QED  BY <1>1, <2>5
<1>4. \A i \in 1..n : i <= n
  OBVIOUS
<1>4b. UpTo(n) = S
  BY <1>4
<1> HIDE DEF T, UpTo
<1>5. \A k \in 0..n : k \in T
  BY <1>2, <1>3, Stepwise
<1>6. IsFiniteSet(S) /\ Cardinality(S) = f[n]
  <2>1. n \in T
    BY <1>5
  <2> QED  BY <1>4b, <2>1 DEF T
<1> QED  BY <1>1, <1>6, FS_CardinalityType

\* A sum of which only one member is not zero.
LEMMA SumOfOne ==
    ASSUME NEW n \in Nat, NEW j \in 1..n, NEW v \in Int, NEW s \in [1..n -> Int],
           \A k \in 1..n : s[k] = IF k = j THEN v ELSE 0
    PROVE  Sum(s) = v
<1>1. PICK f \in [0..n -> Int] : /\ f[0] = 0 /\ \A k \in 1..n : f[k] = f[k - 1] + s[k]
                               /\ Sum(s) = f[n]
  BY SumOfList
<1> DEFINE T == {k \in 0..n : f[k] = IF j <= k THEN v ELSE 0}
<1>2. 0 \in T
  BY <1>1
<1>2a. ASSUME NEW k \in 1..n, k - 1 \in T PROVE k \in T
  <2>1. f[k - 1] = IF j <= k - 1 THEN v ELSE 0
    BY <1>2a
  <2>2. f[k] = f[k - 1] + s[k] /\ s[k] = IF k = j THEN v ELSE 0
    BY <1>1
  <2>3. CASE k = j
    BY <2>1, <2>2, <2>3
  <2>4. CASE k # j
    <3>1. j <= k <=> j <= k - 1
      BY <2>4
    <3> QED  BY <2>1, <2>2, <2>4, <3>1
  <2> QED  BY <2>3, <2>4
<1> HIDE DEF T
<1>3. \A k \in 0..n : k \in T
  BY <1>2, <1>2a, Stepwise
<1> QED  BY <1>1, <1>3 DEF T

LEMMA SumOfEqual ==
    ASSUME NEW n \in Nat, NEW v \in Int, NEW s \in [1..n -> Int],
           \A k \in 1..n : s[k] = v
    PROVE  Sum(s) = n * v
<1>1. PICK f \in [0..n -> Int] : /\ f[0] = 0 /\ \A k \in 1..n : f[k] = f[k - 1] + s[k]
                               /\ Sum(s) = f[n]
  BY SumOfList
<1> DEFINE T == {k \in 0..n : f[k] = k * v}
<1>2. 0 \in T
  BY <1>1
<1>3. ASSUME NEW k \in 1..n, k - 1 \in T PROVE k \in T
  <2>1. f[k] = (k - 1) * v + v
    BY <1>1, <1>3
  <2>2. k \in Int /\ (k - 1) * v = k * v - v
    OBVIOUS
  <2> QED  BY <2>1, <2>2
<1> HIDE DEF T
<1>4. \A k \in 0..n : k \in T
  BY <1>2, <1>3, Stepwise
<1> QED  BY <1>1, <1>4 DEF T

LEMMA Division ==
    ASSUME NEW x \in Nat, NEW y \in Nat \ {0}
    PROVE  /\ x \div y \in Nat /\ x % y \in 0..(y - 1)
           /\ x = y * (x \div y) + (x % y)
OBVIOUS

LEMMA Product ==
    ASSUME NEW x \in Nat, NEW y \in Nat
    PROVE  x * y \in Nat /\ (x > 0 /\ y > 0 => x * y > 0)
OBVIOUS

\* A literal list is as it is listed.
LEMMA ListedSame ==
    ASSUME NEW n \in Nat, NEW S, NEW s \in [1..n -> S]
    PROVE  Listed(s) = s
<1>1. s \in Seq(S)
  OBVIOUS
<1> QED  BY <1>1, ConcatEmptySeq DEF Listed

LEMMA MoreThan ==
    ASSUME NEW k \in Nat \ {0}, NEW a \in Int, NEW b \in Int, a < b
    PROVE  k * a \in Int /\ k * b \in Int /\ k * a < k * b
<1>1. b - a > 0 /\ b - a \in Nat
  OBVIOUS
<1>2. k * (b - a) > 0
  BY <1>1, Product
<1>3. k * (b - a) = k * b - k * a
  OBVIOUS
<1> QED  BY <1>2, <1>3

(***************************************************************************)
(* The parcels of an order.  Lists first: the labels and the calls of a    *)
(* run are sequences, whatever they are sequences of.                      *)
(***************************************************************************)
IsList(s) == s \in Seq({s[i] : i \in DOMAIN s})

LEMMA ListOf ==
    ASSUME NEW S, NEW s \in Seq(S)
    PROVE  IsList(s) /\ Len(s) \in Nat /\ DOMAIN s = 1..Len(s)
<1>1. Len(s) \in Nat /\ DOMAIN s = 1..Len(s)
  BY LenProperties
<1>2. s \in Seq({s[i] : i \in DOMAIN s})
  BY <1>1
<1> QED  BY <1>1, <1>2 DEF IsList

LEMMA Appended ==
    ASSUME NEW s, IsList(s), NEW e
    PROVE  /\ IsList(Append(s, e)) /\ Len(s) \in Nat /\ DOMAIN s = 1..Len(s)
           /\ DOMAIN Append(s, e) = 1..(Len(s) + 1)
           /\ \A i \in 1..Len(s) : Append(s, e)[i] = s[i]
           /\ Append(s, e)[Len(s) + 1] = e
<1> DEFINE S == {s[i] : i \in DOMAIN s} \cup {e}
<1>1. s \in Seq(S)
  <2>1. {s[i] : i \in DOMAIN s} \subseteq S
    OBVIOUS
  <2> HIDE DEF S
  <2> QED  BY <2>1, SeqMonotonic DEF IsList
<1>2. e \in S
  OBVIOUS
<1> HIDE DEF S
<1>3. Append(s, e) \in Seq(S) /\ Len(Append(s, e)) = Len(s) + 1
  BY <1>1, <1>2, AppendProperties
<1>4. Len(s) \in Nat /\ DOMAIN s = 1..Len(s)
  BY <1>1, ListOf
<1>5. IsList(Append(s, e)) /\ DOMAIN Append(s, e) = 1..(Len(s) + 1)
  BY <1>3, ListOf
<1>6. /\ \A i \in 1..Len(s) : Append(s, e)[i] = s[i]
      /\ Append(s, e)[Len(s) + 1] = e
  BY <1>1, <1>2, AppendProperties
<1> QED  BY <1>4, <1>5, <1>6

LEMMA Tailed ==
    ASSUME NEW s, IsList(s), s # <<>>
    PROVE  /\ IsList(Tail(s)) /\ Len(s) \in Nat \ {0} /\ DOMAIN s = 1..Len(s)
           /\ DOMAIN Tail(s) = 1..(Len(s) - 1) /\ Head(s) = s[1]
           /\ \A i \in DOMAIN Tail(s) : Tail(s)[i] = s[i + 1]
<1> DEFINE S == {s[i] : i \in DOMAIN s}
<1>1. s \in Seq(S)
  BY DEF IsList
<1> HIDE DEF S
<1>2. Len(s) \in Nat \ {0} /\ DOMAIN s = 1..Len(s)
  BY <1>1, ListOf, EmptySeq
<1>3. Tail(s) \in Seq(S) /\ Len(Tail(s)) = Len(s) - 1
      /\ \A i \in 1..Len(Tail(s)) : Tail(s)[i] = s[i + 1]
  BY <1>1, HeadTailProperties
<1>4. IsList(Tail(s)) /\ DOMAIN Tail(s) = 1..(Len(s) - 1)
  BY <1>3, ListOf
<1>5. Head(s) = s[1]
  BY <1>1
<1> QED  BY <1>2, <1>3, <1>4, <1>5

(***************************************************************************)
(* Places.  PhysicalParcels lists boxes and CallSpecs lists parcels by the *)
(* number of those ahead.  In an order of a finite set fewer members are   *)
(* ahead of each than there are; no two have the same place, and no place  *)
(* is empty.                                                               *)
(***************************************************************************)
Ahead(S, R, x) == {z \in S : <<z, x>> \in R}

LEMMA PlaceBounds ==
    ASSUME NEW S, IsFiniteSet(S), NEW R, \A x \in S : <<x, x>> \notin R
    PROVE  /\ Cardinality(S) \in Nat
           /\ \A x \in S : /\ IsFiniteSet(Ahead(S, R, x))
                           /\ Cardinality(Ahead(S, R, x)) \in 0..(Cardinality(S) - 1)
<1> DEFINE n == Cardinality(S)
<1>1. n \in Nat
  BY FS_CardinalityType
<1>2. ASSUME NEW x \in S
      PROVE  IsFiniteSet(Ahead(S, R, x)) /\ Cardinality(Ahead(S, R, x)) \in 0..(n - 1)
  <2>1. Ahead(S, R, x) \in SUBSET S /\ Ahead(S, R, x) # S
    BY DEF Ahead
  <2>2. /\ IsFiniteSet(Ahead(S, R, x)) /\ Cardinality(Ahead(S, R, x)) <= n
        /\ Cardinality(Ahead(S, R, x)) # n
    BY <2>1, FS_Subset
  <2>3. Cardinality(Ahead(S, R, x)) \in Nat
    BY <2>2, FS_CardinalityType
  <2> HIDE DEF n
  <2> QED  BY <1>1, <2>2, <2>3
<1> QED  BY <1>1, <1>2

LEMMA Ranked ==
    ASSUME NEW S, IsFiniteSet(S), NEW R,
           \A x \in S : <<x, x>> \notin R,
           \A x, y \in S : x # y => <<x, y>> \in R \/ <<y, x>> \in R,
           \A x, y, z \in S : <<x, y>> \in R /\ <<y, z>> \in R => <<x, z>> \in R
    PROVE  /\ Cardinality(S) \in Nat
           /\ \A x, y \in S :
                 Cardinality(Ahead(S, R, x)) = Cardinality(Ahead(S, R, y)) => x = y
           /\ \A k \in 0..(Cardinality(S) - 1) :
                 \E x \in S : Cardinality(Ahead(S, R, x)) = k
<1> DEFINE Below(x) == Ahead(S, R, x)
           n == Cardinality(S)
<1>1. n \in Nat
  BY PlaceBounds
<1>2. \A x \in S : IsFiniteSet(Below(x)) /\ Cardinality(Below(x)) \in 0..(n - 1)
  BY PlaceBounds
<1>3. ASSUME NEW x \in S, NEW y \in S, <<x, y>> \in R
      PROVE  Cardinality(Below(x)) # Cardinality(Below(y))
  <2>1. Below(x) \in SUBSET Below(y)
    BY <1>3 DEF Ahead
  <2>2. Below(x) # Below(y)
    BY <1>3 DEF Ahead
  <2>3. IsFiniteSet(Below(y))
    BY <1>2
  <2> HIDE DEF Below
  <2> QED  BY <2>1, <2>2, <2>3, FS_Subset
<1>4. \A x, y \in S : Cardinality(Below(x)) = Cardinality(Below(y)) => x = y
  <2> SUFFICES ASSUME NEW x \in S, NEW y \in S, x # y
               PROVE  Cardinality(Below(x)) # Cardinality(Below(y))
    OBVIOUS
  <2>1. <<x, y>> \in R \/ <<y, x>> \in R
    OBVIOUS
  <2> HIDE DEF Below
  <2> QED  BY <1>3, <2>1
<1>5. \A k \in 0..(n - 1) : \E x \in S : Cardinality(Below(x)) = k
  <2> DEFINE f == [x \in S |-> Cardinality(Below(x))]
             T == 0..(n - 1)
  <2>1. f \in Injection(S, T)
    <3> HIDE DEF Below
    <3> QED  BY <1>2, <1>4 DEF Injection, IsInjective
  <2>2. IsFiniteSet(T) /\ Cardinality(T) = n
    <3>1. 0 \in Int /\ n - 1 \in Int
      BY <1>1
    <3>2. IsFiniteSet(T) /\ Cardinality(T) = IF 0 > n - 1 THEN 0 ELSE (n - 1) - 0 + 1
      BY <3>1, FS_Interval
    <3> HIDE DEF n, T
    <3> QED  BY <1>1, <3>2
  <2>3. f \in Surjection(S, T)
    <3> HIDE DEF f, T, Below
    <3> QED  BY <2>1, <2>2, FS_Injection
  <2> HIDE DEF Below
  <2> QED  BY <2>3 DEF Surjection
<1> QED  BY <1>1, <1>2, <1>4, <1>5

LEMMA FirstOnes ==
    ASSUME NEW n \in Nat, NEW R, NEW m \in 0..n,
           \A x \in 1..n : <<x, x>> \notin R,
           \A x, y \in 1..n : x # y => <<x, y>> \in R \/ <<y, x>> \in R,
           \A x, y, z \in 1..n : <<x, y>> \in R /\ <<y, z>> \in R => <<x, z>> \in R
    PROVE  Cardinality({x \in 1..n : Cardinality(Ahead(1..n, R, x)) < m}) = m
<1> DEFINE S == 1..n
           X == {x \in S : Cardinality(Ahead(S, R, x)) < m}
           T == 0..(m - 1)
           f == [x \in X |-> Cardinality(Ahead(S, R, x))]
<1>1. IsFiniteSet(S) /\ Cardinality(S) = n
  BY FS_Interval
<1>2. /\ \A x, y \in S : Cardinality(Ahead(S, R, x)) = Cardinality(Ahead(S, R, y)) => x = y
      /\ \A k \in 0..(n - 1) : \E x \in S : Cardinality(Ahead(S, R, x)) = k
  <2>1. /\ \A x \in S : <<x, x>> \notin R
        /\ \A x, y \in S : x # y => <<x, y>> \in R \/ <<y, x>> \in R
        /\ \A x, y, z \in S : <<x, y>> \in R /\ <<y, z>> \in R => <<x, z>> \in R
    OBVIOUS
  <2> HIDE DEF S
  <2> QED  BY <1>1, <2>1, Ranked
<1>3. \A x \in S : Cardinality(Ahead(S, R, x)) \in 0..(n - 1)
  <2>1. \A x \in S : <<x, x>> \notin R
    OBVIOUS
  <2> HIDE DEF S
  <2> QED  BY <1>1, <2>1, PlaceBounds
<1>4. IsFiniteSet(T) /\ Cardinality(T) = m
  <2>1. 0 \in Int /\ m - 1 \in Int
    OBVIOUS
  <2>2. IsFiniteSet(T) /\ Cardinality(T) = IF 0 > m - 1 THEN 0 ELSE (m - 1) - 0 + 1
    BY <2>1, FS_Interval
  <2> HIDE DEF T
  <2> QED  BY <2>2
<1>5. f \in Bijection(X, T)
  <2>1. \A x \in X : f[x] \in T /\ f[x] = Cardinality(Ahead(S, R, x))
    BY <1>3
  <2>2. ASSUME NEW k \in T PROVE \E x \in X : f[x] = k
    <3>1. k \in 0..(n - 1) /\ k < m
      OBVIOUS
    <3>2. PICK x \in S : Cardinality(Ahead(S, R, x)) = k
      BY <1>2, <3>1
    <3> QED  BY <3>1, <3>2
  <2> HIDE DEF S, T
  <2> QED  BY <1>2, <2>1, <2>2 DEF Bijection, Injection, IsInjective, Surjection
<1>6. X \in SUBSET S
  OBVIOUS
<1> HIDE DEF X, T, S, f
<1>7. IsFiniteSet(X)
  BY <1>1, <1>6, FS_Subset
<1>8. Cardinality(X) = Cardinality(T)
  BY <1>4, <1>5, <1>7, FS_Bijection DEF ExistsBijection
<1> QED  BY <1>4, <1>8 DEF X, S

(***************************************************************************)
(* Sharing out a sum.                                                      *)
(***************************************************************************)
\* What is left over of n shares, of which m are not whole, makes fewer than
\* m whole ones.
LEMMA SpareBounds ==
    ASSUME NEW all \in Nat \ {0}, NEW spare \in Int, NEW left \in Nat, NEW m \in Nat,
           all * spare = left, left <= (all - 1) * m
    PROVE  spare \in 0..m /\ (m > 0 => spare < m)
<1>1. spare >= 0
  <2> SUFFICES ASSUME spare <= -1 PROVE FALSE
    OBVIOUS
  <2>1. all * spare <= all * (-1)
    OBVIOUS
  <2> QED  BY <2>1
<1>2. (all - 1) * m = all * m - m /\ all * m \in Int
  OBVIOUS
<1>3. ASSUME spare >= m PROVE m = 0
  <2>1. all * spare >= all * m
    BY <1>3
  <2> QED  BY <1>2, <2>1
<1>4. ASSUME spare > 0, m = 0 PROVE FALSE
  <2>1. all * spare > 0
    BY <1>4, Product
  <2> QED  BY <1>2, <1>4, <2>1
<1> QED  BY <1>1, <1>3, <1>4

\* The parts of a sum add up to it, and none is a whole grosz off its share
\* (cod.py:64).
LEMMA SharedOut ==
    ASSUME NEW n \in Nat \ {0}, NEW w \in [1..n -> Nat], Sum(w) > 0, NEW total \in Nat
    PROVE  LET parts == LargestRemainder(total, w)
           IN /\ parts \in [1..n -> Nat] /\ Sum(parts) = total
              /\ \A p \in 1..n : /\ parts[p] * Sum(w) - total * w[p] < Sum(w)
                                 /\ total * w[p] - parts[p] * Sum(w) < Sum(w)
<1> DEFINE all == Sum(w)
           part == [p \in 1..n |-> (total * w[p]) \div all]
           left == [p \in 1..n |-> (total * w[p]) % all]
           spare == total - Sum(part)
           ahead(p) == {q \in 1..n : left[q] > left[p] \/ (left[q] = left[p] /\ q < p)}
           parts == [p \in 1..n |-> IF total > 0 /\ Cardinality(ahead(p)) < spare
                                    THEN part[p] + 1 ELSE part[p]]
<1>1. all \in Nat \ {0} /\ \A p \in 1..n : w[p] \in Nat
  BY SumIsNat
<1>2. \A p \in 1..n : /\ total * w[p] \in Nat /\ part[p] \in Nat /\ left[p] \in 0..(all - 1)
                      /\ total * w[p] = all * part[p] + left[p]
  <2> TAKE p \in 1..n
  <2> DEFINE x == total * w[p]
  <2>1. x \in Nat
    BY <1>1, Product
  <2> HIDE DEF x, all
  <2>2. x \div all \in Nat /\ x % all \in 0..(all - 1) /\ x = all * (x \div all) + (x % all)
    BY <1>1, <2>1, Division
  <2> QED  BY <2>1, <2>2 DEF x
<1>3. LargestRemainder(total, w) = Listed(parts)
  <2>1. DOMAIN w = 1..n
    OBVIOUS
  <2>2. part \in [1..n -> Nat] /\ left \in [1..n -> Nat]
    <3>1. \A p \in 1..n : part[p] \in Nat /\ left[p] \in Nat
      <4> HIDE DEF all, part, left
      <4> QED  BY <1>1, <1>2
    <3> HIDE DEF all
    <3> QED  BY <3>1
  <2>3. Listed(part) = part /\ Listed(left) = left
    <3> HIDE DEF part, left
    <3> QED  BY <2>2, ListedSame
  <2> DEFINE Of_(D, whole, over) ==
                Listed([p \in D |->
                   IF total > 0 /\ Cardinality({q \in D : over[q] > over[p]
                                                  \/ (over[q] = over[p] /\ q < p)})
                                     < total - Sum(whole)
                   THEN whole[p] + 1 ELSE whole[p]])
             wholes == [p \in DOMAIN w |-> (total * w[p]) \div all]
             overs == [p \in DOMAIN w |-> (total * w[p]) % all]
  <2>4. LargestRemainder(total, w) = Of_(DOMAIN w, Listed(wholes), Listed(overs))
    BY DEF LargestRemainder
  <2>5. wholes = part /\ overs = left
    BY <2>1
  <2>6. Of_(1..n, part, left) = Listed(parts)
    OBVIOUS
  <2> HIDE DEF Of_, wholes, overs, parts, part, left
  <2> QED  BY <2>1, <2>3, <2>4, <2>5, <2>6
<1>4. part \in [1..n -> Nat] /\ left \in [1..n -> Nat]
      /\ part \in [1..n -> Int] /\ left \in [1..n -> Int]
  <2>1. \A p \in 1..n : part[p] \in Nat /\ left[p] \in Nat /\ part[p] \in Int /\ left[p] \in Int
    <3> HIDE DEF all, part, left
    <3> QED  BY <1>1, <1>2
  <2> HIDE DEF all
  <2> QED  BY <2>1
<1> HIDE DEF part, left
<1>5. Sum(part) \in Nat /\ Sum(left) \in Nat /\ spare \in Int
  <2>1. Sum(part) \in Nat /\ Sum(left) \in Nat
    BY <1>4, SumIsNat
  <2> QED  BY <2>1
<1>6. all * spare = Sum(left)
  <2> DEFINE c == [p \in 1..n |-> total * w[p]]
             d == [p \in 1..n |-> all * part[p]]
  <2>1. Sum(c) = total * all
    <3>1. c \in [1..n -> Int] /\ w \in [1..n -> Int] /\ \A p \in 1..n : c[p] = total * w[p]
      <4> HIDE DEF all
      <4>1. \A p \in 1..n : total * w[p] \in Int /\ w[p] \in Int
        BY <1>1, <1>2
      <4> QED  BY <4>1
    <3>2. total \in Int
      OBVIOUS
    <3> HIDE DEF c
    <3> QED  BY <3>1, <3>2, SumTimes, ZenonT(60)
  <2>2. Sum(d) = all * Sum(part)
    <3>1. d \in [1..n -> Int] /\ \A p \in 1..n : d[p] = all * part[p]
      <4> HIDE DEF all
      <4>1. \A p \in 1..n : all * part[p] \in Int
        BY <1>1, <1>2
      <4> QED  BY <4>1
    <3>2. all \in Int
      BY <1>1
    <3> HIDE DEF d, all
    <3> QED  BY <1>4, <3>1, <3>2, SumTimes, ZenonT(60)
  <2>3. Sum(c) = Sum(d) + Sum(left)
    <3>1. c \in [1..n -> Int] /\ d \in [1..n -> Int] /\ \A p \in 1..n : c[p] = d[p] + left[p]
      <4> HIDE DEF all
      <4>1. \A p \in 1..n : total * w[p] \in Int /\ all * part[p] \in Int
                            /\ total * w[p] = all * part[p] + left[p]
        BY <1>1, <1>2
      <4> QED  BY <4>1
    <3> HIDE DEF c, d
    <3> QED  BY <1>4, <3>1, SumPlus, ZenonT(60)
  <2> HIDE DEF c, d, all
  <2>4. all * (total - Sum(part)) = all * total - all * Sum(part)
    BY <1>1, <1>5
  <2>5. total * all = all * total /\ total * all \in Int /\ all * Sum(part) \in Int
    BY <1>1, <1>5
  <2> QED  BY <1>5, <2>1, <2>2, <2>3, <2>4, <2>5
<1> DEFINE L == {p \in 1..n : left[p] > 0}
           m == Cardinality(L)
<1>7. IsFiniteSet(L) /\ m \in 0..n /\ Sum(left) <= (all - 1) * m
  <2> DEFINE ones == [p \in 1..n |-> IF p \in L THEN 1 ELSE 0]
             most == [p \in 1..n |-> (all - 1) * ones[p]]
  <2>1. L \in SUBSET (1..n)
    OBVIOUS
  <2>2. ones \in [1..n -> Int] /\ \A p \in 1..n : ones[p] = IF p \in L THEN 1 ELSE 0
    <3> HIDE DEF L
    <3> QED  OBVIOUS
  <2>3. \A p \in 1..n : left[p] <= most[p]
    <3> HIDE DEF all
    <3>1. \A p \in 1..n : left[p] \in 0..(all - 1) /\ (p \in L <=> left[p] > 0)
      BY <1>2
    <3> HIDE DEF L
    <3> QED  BY <1>1, <3>1
  <2>4. most \in [1..n -> Int] /\ \A p \in 1..n : most[p] = (all - 1) * ones[p]
    <3> HIDE DEF all, L
    <3> QED  BY <1>1
  <2> HIDE DEF ones, most, L, all
  <2>5. IsFiniteSet(L) /\ m \in Nat /\ Sum(ones) = m
    BY <2>1, <2>2, SumCounts
  <2>6. Sum(most) = (all - 1) * Sum(ones)
    <3> DEFINE k == all - 1
    <3>1. k \in Int /\ \A p \in 1..n : most[p] = k * ones[p]
      BY <1>1, <2>4
    <3> HIDE DEF k
    <3>2. ones \in [1..n -> Int] /\ most \in [1..n -> Int]
      BY <2>2, <2>4
    <3>3. Sum(most) = k * Sum(ones)
      BY <3>1, <3>2, SumTimes, ZenonT(60)
    <3> QED  BY <3>3 DEF k
  <2>7. Sum(left) <= Sum(most)
    BY <1>4, <2>3, <2>4, SumUpTo
  <2>8. m <= n
    <3>1. IsFiniteSet(1..n) /\ Cardinality(1..n) = n
      BY FS_Interval
    <3>2. Cardinality(L) <= Cardinality(1..n)
      BY <2>1, <3>1, FS_Subset
    <3> QED  BY <3>1, <3>2
  <2> QED  BY <2>5, <2>6, <2>7, <2>8
<1>8. spare \in 0..m /\ (m > 0 => spare < m)
  <2> HIDE DEF spare, m, all
  <2> QED  BY <1>1, <1>5, <1>6, <1>7, SpareBounds
<1> DEFINE Before(q, p) == left[q] > left[p] \/ (left[q] = left[p] /\ q < p)
           R == {x \in (1..n) \X (1..n) : Before(x[1], x[2])}
           X == {p \in 1..n : Cardinality(ahead(p)) < spare}
<1>9. \A p \in 1..n : ahead(p) = Ahead(1..n, R, p)
  BY DEF Ahead
<1>10. Cardinality(X) = spare
  <2>1. /\ \A x \in 1..n : <<x, x>> \notin R
        /\ \A x, y \in 1..n : x # y => <<x, y>> \in R \/ <<y, x>> \in R
        /\ \A x, y, z \in 1..n : <<x, y>> \in R /\ <<y, z>> \in R => <<x, z>> \in R
    <3>1. \A x, y \in 1..n : <<x, y>> \in R <=> Before(x, y)
      <4> HIDE DEF Before
      <4> QED  OBVIOUS
    <3> HIDE DEF R
    <3>2. \A x \in 1..n : left[x] \in Int
      BY <1>4
    <3>3. \A x \in 1..n : <<x, x>> \notin R
      BY <3>1, <3>2
    <3>4. \A x, y \in 1..n : x # y => <<x, y>> \in R \/ <<y, x>> \in R
      <4>1. \A x, y \in 1..n : x # y => Before(x, y) \/ Before(y, x)
        BY <3>2
      <4> HIDE DEF Before
      <4> QED  BY <3>1, <4>1
    <3>5. \A x, y, z \in 1..n : <<x, y>> \in R /\ <<y, z>> \in R => <<x, z>> \in R
      <4>1. \A x, y, z \in 1..n : Before(x, y) /\ Before(y, z) => Before(x, z)
        BY <3>2
      <4> HIDE DEF Before
      <4> QED  BY <3>1, <4>1
    <3> QED  BY <3>3, <3>4, <3>5
  <2>2. spare \in 0..n
    <3> HIDE DEF spare, m
    <3> QED  BY <1>7, <1>8
  <2>3. n \in Nat
    OBVIOUS
  <2>4. X = {p \in 1..n : Cardinality(Ahead(1..n, R, p)) < spare}
    <3> HIDE DEF ahead, R, spare
    <3> QED  BY <1>9
  <2> HIDE DEF R, spare, X
  <2>5. Cardinality({p \in 1..n : Cardinality(Ahead(1..n, R, p)) < spare}) = spare
    BY <2>1, <2>2, <2>3, FirstOnes
  <2> QED  BY <2>4, <2>5
<1>11. \A p \in X : left[p] > 0
  <2> SUFFICES ASSUME NEW p \in X, left[p] = 0 PROVE FALSE
    BY <1>4
  <2>1. L \in SUBSET ahead(p)
    BY <1>4
  <2>2. IsFiniteSet(ahead(p)) /\ Cardinality(ahead(p)) \in Nat
    <3>1. ahead(p) \in SUBSET (1..n)
      OBVIOUS
    <3>2. IsFiniteSet(1..n)
      BY FS_Interval
    <3> HIDE DEF ahead
    <3> QED  BY <3>1, <3>2, FS_Subset, FS_CardinalityType
  <2>3. Cardinality(ahead(p)) < spare
    OBVIOUS
  <2> HIDE DEF ahead, spare, L
  <2>4. m <= Cardinality(ahead(p))
    BY <2>1, <2>2, FS_Subset
  <2> HIDE DEF m
  <2> QED  BY <1>5, <1>7, <1>8, <2>2, <2>3, <2>4
<1>12. ASSUME total = 0 PROVE X = {}
  <2>1. \A p \in 1..n : part[p] = 0
    <3> TAKE p \in 1..n
    <3> HIDE DEF all
    <3>1. /\ total * w[p] = all * part[p] + left[p] /\ part[p] \in Nat /\ left[p] \in Nat
          /\ w[p] \in Nat
      BY <1>1, <1>2
    <3>2. total * w[p] = 0
      BY <1>12, <3>1
    <3>3. all * part[p] \in Nat /\ (part[p] > 0 => all * part[p] > 0)
      BY <1>1, <3>1, Product
    <3> QED  BY <3>1, <3>2, <3>3
  <2>2. Sum(part) = n * 0
    <3>1. 0 \in Int
      OBVIOUS
    <3> QED  BY <1>4, <2>1, <3>1, SumOfEqual
  <2>3. spare = 0
    BY <1>12, <2>2
  <2>4. \A p \in 1..n : Cardinality(ahead(p)) \in Nat
    <3> TAKE p \in 1..n
    <3>1. ahead(p) \in SUBSET (1..n)
      OBVIOUS
    <3>2. IsFiniteSet(1..n)
      BY FS_Interval
    <3> HIDE DEF ahead
    <3> QED  BY <3>1, <3>2, FS_Subset, FS_CardinalityType
  <2> HIDE DEF spare, ahead
  <2> QED  BY <2>3, <2>4
<1>13. \A p \in 1..n : parts[p] = part[p] + (IF p \in X THEN 1 ELSE 0)
  <2>1. \A p \in 1..n : p \in X <=> Cardinality(ahead(p)) < spare
    OBVIOUS
  <2>2. \A p \in 1..n : part[p] \in Int
    BY <1>4
  <2> HIDE DEF X, ahead, spare
  <2> QED  BY <1>12, <2>1, <2>2
<1> HIDE DEF parts
<1>14. parts \in [1..n -> Nat]
  <2>1. \A p \in 1..n : parts[p] \in Nat
    <3>1. \A p \in 1..n : part[p] \in Nat
      BY <1>4
    <3> HIDE DEF X
    <3> QED  BY <1>13, <3>1
  <2> QED  BY <2>1 DEF parts
<1>15. Sum(parts) = total
  <2> DEFINE ones == [p \in 1..n |-> IF p \in X THEN 1 ELSE 0]
  <2>1. X \in SUBSET (1..n)
    OBVIOUS
  <2> HIDE DEF X
  <2>2. ones \in [1..n -> Int] /\ \A p \in 1..n : ones[p] = IF p \in X THEN 1 ELSE 0
    OBVIOUS
  <2>3. parts \in [1..n -> Int] /\ \A p \in 1..n : parts[p] = part[p] + ones[p]
    BY <1>13, <1>14
  <2> HIDE DEF ones
  <2>4. Sum(ones) = Cardinality(X)
    BY <2>1, <2>2, SumCounts
  <2>5. Sum(parts) = Sum(part) + Sum(ones)
    <3>1. /\ parts \in [1..n -> Int] /\ part \in [1..n -> Int] /\ ones \in [1..n -> Int]
          /\ \A p \in 1..n : parts[p] = part[p] + ones[p]
      BY <1>4, <2>2, <2>3
    <3> QED  BY <3>1, SumPlus, ZenonT(60)
  <2> QED  BY <1>5, <1>10, <2>4, <2>5
<1>16. ASSUME NEW p \in 1..n
       PROVE  parts[p] * all - total * w[p] < all /\ total * w[p] - parts[p] * all < all
  <2> HIDE DEF X, all
  <2>1. /\ total * w[p] = all * part[p] + left[p] /\ left[p] \in 0..(all - 1)
        /\ part[p] \in Nat /\ all * part[p] \in Int
    BY <1>1, <1>2
  <2>1a. all \in Int /\ left[p] \in Int /\ left[p] < all
    <3>1. left[p] \in 0..(all - 1)
      BY <2>1
    <3>2. all \in Int
      BY <1>1
    <3> QED  BY <3>1, <3>2
  <2>2. CASE p \in X
    <3>1. parts[p] = part[p] + 1 /\ left[p] > 0
      BY <1>11, <1>13, <2>2
    <3> DEFINE x == all * part[p]
    <3>2. (part[p] + 1) * all = x + all
      BY <1>1, <2>1
    <3>3. parts[p] * all = x + all
      BY <3>1, <3>2
    <3>4. x \in Int /\ total * w[p] = x + left[p]
      BY <2>1
    <3> DEFINE y == parts[p] * all
               z == total * w[p]
    <3> HIDE DEF x, y, z
    <3>5. x \in Int /\ z = x + left[p] /\ y = x + all
      BY <3>3, <3>4 DEF x, y, z
    <3>6. y - z < all /\ z - y < all
      <4>1. left[p] >= 1
        BY <2>1a, <3>1
      <4> QED  BY <2>1a, <3>5, <4>1
    <3> QED  BY <3>6 DEF y, z
  <2>3. CASE p \notin X
    <3>1. parts[p] = part[p]
      BY <1>13, <2>1, <2>3
    <3> DEFINE x == all * part[p]
    <3>2. part[p] * all = x
      BY <1>1, <2>1
    <3>3. parts[p] * all = x
      BY <3>1, <3>2
    <3>4. x \in Int /\ total * w[p] = x + left[p]
      BY <2>1
    <3> DEFINE y == parts[p] * all
               z == total * w[p]
    <3> HIDE DEF x, y, z
    <3>5. x \in Int /\ z = x + left[p] /\ y = x
      BY <3>3, <3>4 DEF x, y, z
    <3>6. y - z < all /\ z - y < all
      <4>1. all \in Int /\ left[p] \in Int /\ left[p] >= 0 /\ left[p] < all
        BY <1>1, <2>1
      <4> QED  BY <3>5, <4>1
    <3> QED  BY <3>6 DEF y, z
  <2> QED  BY <2>2, <2>3
<1>17. Listed(parts) = parts
  BY <1>14, ListedSame
<1> HIDE DEF all
<1> QED  BY <1>3, <1>14, <1>15, <1>16, <1>17 DEF all

(***************************************************************************)
(* Plans and their parcels.                                                *)
(***************************************************************************)
Plan_ == Seq([type : ParcelType, qty : Int])

LEMMA RowsOfPlan ==
    ASSUME NEW plan \in Plan_
    PROVE  /\ Len(plan) \in Nat /\ DOMAIN plan = 1..Len(plan)
           /\ \A r \in DOMAIN plan : Boxed(plan[r]) \in Int
<1>1. /\ Len(plan) \in Nat /\ DOMAIN plan = 1..Len(plan)
      /\ \A r \in 1..Len(plan) : plan[r] \in [type : ParcelType, qty : Int]
  BY LenProperties, ElementOfSeq DEF Plan_
<1>2. ASSUME NEW row \in [type : ParcelType, qty : Int] PROVE Boxed(row) \in Int
  BY DEF Boxed
<1> QED  BY <1>1, <1>2

LEMMA BoxesAreFinite ==
    ASSUME NEW plan \in Plan_
    PROVE  IsFiniteSet(Boxes(plan))
<1> DEFINE n == Len(plan)
           Of_(r) == {<<r, k>> : k \in 1..Boxed(plan[r])}
           Rows == {Of_(r) : r \in 1..n}
<1>1. n \in Nat /\ DOMAIN plan = 1..n /\ \A r \in 1..n : Boxed(plan[r]) \in Int
  BY RowsOfPlan
<1>2. ASSUME NEW r \in 1..n PROVE IsFiniteSet(Of_(r))
  <2> DEFINE S == 1..Boxed(plan[r])
             f == [k \in S |-> <<r, k>>]
  <2>1. f \in Surjection(S, Of_(r))
    BY DEF Surjection
  <2>2. IsFiniteSet(S)
    BY <1>1, FS_Interval
  <2> HIDE DEF f, S, Of_
  <2> QED  BY <2>1, <2>2, FS_Surjection
<1>3. IsFiniteSet(Rows)
  <2> DEFINE f == [r \in 1..n |-> Of_(r)]
  <2> HIDE DEF Of_
  <2>1. f \in Surjection(1..n, Rows)
    BY DEF Surjection
  <2>2. IsFiniteSet(1..n)
    BY <1>1, FS_Interval
  <2> HIDE DEF f, Rows
  <2> QED  BY <2>1, <2>2, FS_Surjection
<1>4. Boxes(plan) = UNION Rows
  BY <1>1 DEF Boxes
<1>5. \A T \in Rows : IsFiniteSet(T)
  <2> HIDE DEF Of_
  <2> QED  BY <1>2
<1> HIDE DEF Rows
<1> QED  BY <1>3, <1>4, <1>5, FS_UNION

\* The parcels of a plan are listed, and of a plan with one row of a type no
\* two parcels have the same type and number (planning.py:128).
LEMMA ParcelsOfPlan ==
    ASSUME NEW plan \in Plan_
    PROVE  LET parcels == PhysicalParcels(plan)
           IN /\ IsList(parcels) /\ Len(parcels) \in Nat \ {0}
              /\ DOMAIN parcels = 1..Len(parcels)
              /\ \A p \in DOMAIN parcels : parcels[p].type \in ParcelType
              /\ ~TwoRows(plan) =>
                   \A p, q \in DOMAIN parcels : parcels[p].type = parcels[q].type =>
                      /\ parcels[p].of = parcels[q].of
                      /\ parcels[p].number = parcels[q].number => p = q
<1> DEFINE parcels == PhysicalParcels(plan)
           boxes == Boxes(plan)
           n == Cardinality(boxes)
           R == {b \in boxes \X boxes : Earlier(b[1], b[2])}
           At(p) == CHOOSE b \in boxes : Cardinality({c \in boxes : Earlier(c, b)}) = p - 1
           Packed(b) == [type |-> BoxType(plan[b[1]]), number |-> b[2], of |-> Boxed(plan[b[1]])]
<1>1. CASE boxes = {}
  <2>1. parcels = <<[type |-> "1-pak", number |-> 1, of |-> 1]>>
    BY <1>1 DEF PhysicalParcels
  <2>2. /\ parcels \in Seq({[type |-> "1-pak", number |-> 1, of |-> 1]})
        /\ DOMAIN parcels = {1} /\ DOMAIN parcels = 1..Len(parcels) /\ Len(parcels) = 1
        /\ parcels[1].type \in ParcelType
    BY <2>1 DEF ParcelType
  <2> HIDE DEF parcels
  <2>3. IsList(parcels)
    BY <2>2, ListOf
  <2> QED  BY <2>2, <2>3 DEF parcels
<1>2. CASE boxes # {}
  <2>1. /\ Len(plan) \in Nat /\ DOMAIN plan = 1..Len(plan)
        /\ \A r \in DOMAIN plan : Boxed(plan[r]) \in Int
    BY RowsOfPlan
  <2>2. \A b \in boxes : b = <<b[1], b[2]>> /\ b[1] \in DOMAIN plan /\ b[1] \in Int /\ b[2] \in Int
    BY <2>1 DEF Boxes
  <2>3. IsFiniteSet(boxes)
    BY BoxesAreFinite
  <2>4. /\ \A x \in boxes : <<x, x>> \notin R
        /\ \A x, y \in boxes : x # y => <<x, y>> \in R \/ <<y, x>> \in R
        /\ \A x, y, z \in boxes : <<x, y>> \in R /\ <<y, z>> \in R => <<x, z>> \in R
        /\ \A x \in boxes : Ahead(boxes, R, x) = {c \in boxes : Earlier(c, x)}
    <3> HIDE DEF boxes
    <3>1. \A x, y \in boxes : <<x, y>> \in R <=> Earlier(x, y)
      OBVIOUS
    <3> HIDE DEF R
    <3>2. \A x, y \in boxes : x # y => Earlier(x, y) \/ Earlier(y, x)
      BY <2>2 DEF Earlier
    <3>3. \A x, y, z \in boxes : Earlier(x, y) /\ Earlier(y, z) => Earlier(x, z)
      BY <2>2 DEF Earlier
    <3>4. \A x \in boxes : ~Earlier(x, x)
      BY <2>2 DEF Earlier
    <3>5. \A x \in boxes : Ahead(boxes, R, x) = {c \in boxes : Earlier(c, x)}
      BY <3>1 DEF Ahead
    <3> QED  BY <3>1, <3>2, <3>3, <3>4, <3>5
  <2> HIDE DEF R, boxes
  <2>5. /\ n \in Nat
        /\ \A k \in 0..(n - 1) : \E x \in boxes : Cardinality(Ahead(boxes, R, x)) = k
    <3>1. /\ \A x \in boxes : <<x, x>> \notin R
          /\ \A x, y \in boxes : x # y => <<x, y>> \in R \/ <<y, x>> \in R
          /\ \A x, y, z \in boxes : <<x, y>> \in R /\ <<y, z>> \in R => <<x, z>> \in R
      BY <2>4
    <3> QED  BY <2>3, <3>1, Ranked
  <2>6. \A p \in 1..n : At(p) \in boxes /\ Cardinality({c \in boxes : Earlier(c, At(p))}) = p - 1
    <3> TAKE p \in 1..n
    <3>1. p - 1 \in 0..(n - 1)
      BY <2>5
    <3>2. PICK b \in boxes : Cardinality(Ahead(boxes, R, b)) = p - 1
      BY <2>5, <3>1
    <3>3. Cardinality({c \in boxes : Earlier(c, b)}) = p - 1
      BY <2>4, <3>2
    <3> QED  BY <3>3
  <2> HIDE DEF n, At
  <2>7. \A p, q \in 1..n : At(p) = At(q) => p = q
    <3> SUFFICES ASSUME NEW p \in 1..n, NEW q \in 1..n, At(p) = At(q) PROVE p = q
      OBVIOUS
    <3>1. p - 1 = q - 1
      BY <2>6
    <3> QED  BY <2>5, <3>1
  <2>8. /\ parcels = [p \in 1..n |-> Packed(At(p))] /\ IsList(parcels)
        /\ DOMAIN parcels = 1..n
    <3> DEFINE s == [p \in 1..n |-> Packed(At(p))]
    <3>1. parcels = Listed(s)
      BY <1>2 DEF PhysicalParcels, boxes, n, At
    <3> HIDE DEF parcels, Packed
    <3>2. s \in Seq({Packed(At(p)) : p \in 1..n}) /\ DOMAIN s = 1..n
      BY <2>5
    <3> HIDE DEF s
    <3>3. Listed(s) = s
      BY <3>2, ConcatEmptySeq DEF Listed
    <3>4. IsList(s)
      BY <3>2, ListOf
    <3> QED  BY <3>1, <3>2, <3>3, <3>4 DEF s
  <2> HIDE DEF parcels
  <2>8a. Len(parcels) = n /\ n # 0
    <3>1. Cardinality(boxes) # 0
      BY <1>2, <2>3, FS_EmptySet
    <3>2. Len(parcels) \in Nat /\ DOMAIN parcels = 1..Len(parcels)
      BY <2>8, ListOf DEF IsList
    <3>3. Len(parcels) \in DOMAIN parcels <=> Len(parcels) # 0
      BY <3>2
    <3> QED  BY <2>5, <2>8, <3>1, <3>2 DEF n
  <2>8b. \A p \in DOMAIN parcels : parcels[p].type \in ParcelType
    <3> SUFFICES ASSUME NEW p \in 1..n PROVE parcels[p].type \in ParcelType
      BY <2>8
    <3> DEFINE b == At(p)
    <3>1. b \in boxes /\ parcels[p] = Packed(b)
      BY <2>6, <2>8
    <3> HIDE DEF b
    <3>2. plan[b[1]] \in [type : ParcelType, qty : Int]
      BY <2>1, <2>2, <3>1, ElementOfSeq DEF Plan_
    <3>3. BoxType(plan[b[1]]) \in ParcelType
      BY <3>2 DEF BoxType, ParcelType
    <3> QED  BY <3>1, <3>3
  <2>9. ASSUME ~TwoRows(plan), NEW p \in DOMAIN parcels, NEW q \in DOMAIN parcels,
               parcels[p].type = parcels[q].type
        PROVE  /\ parcels[p].of = parcels[q].of
               /\ parcels[p].number = parcels[q].number => p = q
    <3> DEFINE b == At(p)
               c == At(q)
    <3>1. /\ b \in boxes /\ c \in boxes /\ parcels[p] = Packed(b) /\ parcels[q] = Packed(c)
          /\ b = c => p = q
      BY <2>6, <2>7, <2>8
    <3> HIDE DEF b, c
    <3>2. b[1] = c[1]
      BY <2>2, <2>9, <3>1 DEF TwoRows
    <3> QED  BY <2>2, <3>1, <3>2
  <2> QED  BY <2>5, <2>8, <2>8a, <2>8b, <2>9 DEF parcels
<1> QED  BY <1>1, <1>2

(***************************************************************************)
(* The goods of an order, counted in half-packs.                           *)
(***************************************************************************)
LEMMA LinesOfOrder ==
    ASSUME NEW o \in Order
    PROVE  /\ o.lines \in Seq(OrderLine) /\ o.shipping \in Nat /\ o.cod \in Nat
           /\ o.codError \in BOOLEAN /\ o.phone \in BOOLEAN
           /\ o.courier \in {"inpost", "apaczka"} /\ o.service \in Service[o.courier]
BY ParcelShape

LEMMA LineIsCounted ==
    ASSUME NEW line \in OrderLine
    PROVE  HalfPacks(line) \in Nat
<1>1. /\ line.qty \in Nat /\ line.name.butelek \in Nat /\ line.name.x \in Nat
      /\ line.name.szt \in Nat /\ line.name.fixed \in Nat
  BY DEF OrderLine, Name
<1> DEFINE each == BottlesPerUnit(line.name)
<1>2. each \in Nat
  BY <1>1 DEF BottlesPerUnit
<1> HIDE DEF each
<1>3. each * line.qty \in Nat
  BY <1>1, <1>2, Product
<1>4. (each * line.qty + 5) \div 6 \in Nat
  <2> DEFINE m == each * line.qty + 5
  <2>1. m \in Nat
    BY <1>3
  <2> HIDE DEF m
  <2>2. m \div 6 \in Nat
    BY <2>1, Division
  <2> QED  BY <2>2 DEF m
<1>5. 2 * line.qty \in Nat
  BY <1>1
<1> QED  BY <1>4, <1>5 DEF HalfPacks, each

LEMMA LinesAreCounted ==
    ASSUME NEW lines \in Seq(OrderLine)
    PROVE  /\ Len(lines) \in Nat /\ DOMAIN lines = 1..Len(lines)
           /\ \A i \in DOMAIN lines : HalfPacks(lines[i]) \in Nat /\ lines[i] \in OrderLine
<1>1. /\ Len(lines) \in Nat /\ DOMAIN lines = 1..Len(lines)
      /\ \A i \in 1..Len(lines) : lines[i] \in OrderLine
  BY LenProperties, ElementOfSeq
<1> QED  BY <1>1, LineIsCounted

LEMMA GoodsAreCounted ==
    ASSUME NEW lines \in Seq(OrderLine), NEW glass, NEW n \in 1..(Len(lines) + 1)
    PROVE  GoodsBefore(lines, glass, n) \in Nat
<1> DEFINE s == [i \in 1..(n - 1) |->
                    IF i \in Packable(lines) /\ lines[i].name.glass = glass
                    THEN HalfPacks(lines[i]) ELSE 0]
<1>1. n - 1 \in Nat /\ \A i \in 1..(n - 1) : i \in DOMAIN lines
  BY LinesAreCounted
<1>2. \A i \in 1..(n - 1) : HalfPacks(lines[i]) \in Nat
  BY <1>1, LinesAreCounted
<1>3. s \in [1..(n - 1) -> Nat]
  BY <1>2
<1>4. GoodsBefore(lines, glass, n) = Sum(s)
  BY DEF GoodsBefore
<1> HIDE DEF s
<1> QED  BY <1>1, <1>3, <1>4, SumIsNat

LEMMA AllGoodsAreCounted ==
    ASSUME NEW lines \in Seq(OrderLine), NEW glass
    PROVE  Goods(lines, glass) \in Nat
<1>1. Len(lines) + 1 \in 1..(Len(lines) + 1)
  BY LinesAreCounted
<1> QED  BY <1>1, GoodsAreCounted DEF Goods

\* Boxes hold something.
LEMMA RoomIsCounted == \A t \in ParcelType : Room[t] \in Nat
BY DEF Room

Kinds_(plan) == {BoxType(plan[r]) : r \in DOMAIN plan}

Row_(t, n) == IF n > 0 THEN <<[type |-> t, qty |-> n]>> ELSE <<>>

LEMMA RowAdded ==
    ASSUME NEW plan \in Plan_, ~TwoRows(plan), NEW t \in ParcelType, t # "glass2",
           t \notin Kinds_(plan), NEW n \in Int
    PROVE  /\ plan \o Row_(t, n) \in Plan_ /\ ~TwoRows(plan \o Row_(t, n))
           /\ Kinds_(plan \o Row_(t, n)) \subseteq Kinds_(plan) \cup {t}
<1>1. CASE n > 0
  <2> DEFINE e == [type |-> t, qty |-> n]
             new == Append(plan, e)
  <2>1. e \in [type : ParcelType, qty : Int] /\ BoxType(e) = t
    BY DEF BoxType
  <2> HIDE DEF e
  <2>2. plan \o Row_(t, n) = new
    <3>1. Row_(t, n) = <<e>>
      BY <1>1 DEF Row_, e
    <3> QED  BY <2>1, <3>1, AppendIsConcat DEF Plan_
  <2>3. IsList(plan) /\ new \in Plan_
    BY <2>1, ListOf, AppendProperties DEF Plan_
  <2>4. /\ Len(plan) \in Nat /\ DOMAIN plan = 1..Len(plan)
        /\ DOMAIN new = 1..(Len(plan) + 1)
        /\ \A i \in 1..Len(plan) : new[i] = plan[i]
        /\ new[Len(plan) + 1] = e
    BY <2>3, Appended
  <2> HIDE DEF new
  <2>5. \A i \in DOMAIN new : \/ i \in DOMAIN plan /\ new[i] = plan[i]
                              \/ i = Len(plan) + 1 /\ new[i] = e
    <3>1. \A i \in 1..(Len(plan) + 1) : i \in 1..Len(plan) \/ i = Len(plan) + 1
      BY <2>4
    <3> QED  BY <2>4, <3>1
  <2>6. Kinds_(new) \subseteq Kinds_(plan) \cup {t}
    BY <2>1, <2>5 DEF Kinds_
  <2>7. ~TwoRows(new)
    <3>1. \A i \in DOMAIN plan : BoxType(plan[i]) # t
      BY DEF Kinds_
    <3>2. \A i, j \in DOMAIN plan : BoxType(plan[i]) = BoxType(plan[j]) => i = j
      BY DEF TwoRows
    <3> QED  BY <2>1, <2>5, <3>1, <3>2 DEF TwoRows
  <2> QED  BY <2>2, <2>3, <2>6, <2>7
<1>2. CASE ~(n > 0)
  <2>1. plan \o Row_(t, n) = plan
    BY <1>2, ConcatEmptySeq DEF Plan_, Row_
  <2> QED  BY <2>1
<1> QED  BY <1>1, <1>2

\* The planner never makes two rows of one type (planning.py:73).
LEMMA PlannedRows ==
    ASSUME NEW o \in Order
    PROVE  CalcPackages(o.lines) \in Plan_ /\ ~TwoRows(CalcPackages(o.lines))
<1> DEFINE plastic == Goods(o.lines, FALSE)
           whole == plastic \div 2
           glass == (Goods(o.lines, TRUE) + 1) \div 2
           n3 == whole \div 3
           n2 == (whole % 3) \div 2
           n1 == (whole % 3) % 2
           nh == plastic % 2
           r3 == Row_("3-pak", n3)
           r2 == Row_("2-pak", n2)
           r1 == Row_("1-pak", n1)
           rh == Row_("half", nh)
           rg == Row_("glass", glass)
<1>1. plastic \in Nat /\ Goods(o.lines, TRUE) \in Nat
  BY LinesOfOrder, AllGoodsAreCounted
<1>2. \A n \in Nat : /\ n \div 2 \in Nat /\ n \div 3 \in Nat
                    /\ n % 2 \in Nat /\ n % 3 \in Nat /\ n + 1 \in Nat
  OBVIOUS
<1>3. n3 \in Int /\ n2 \in Int /\ n1 \in Int /\ nh \in Int /\ glass \in Int
  <2>1. whole \in Nat /\ glass \in Nat /\ plastic % 2 \in Nat
    <3> HIDE DEF plastic
    <3> QED  BY <1>1, <1>2
  <2> HIDE DEF plastic, whole, glass
  <2>2. whole \div 3 \in Nat /\ whole % 3 \in Nat
    BY <1>2, <2>1
  <2>3. (whole % 3) \div 2 \in Nat /\ (whole % 3) % 2 \in Nat
    BY <1>2, <2>2
  <2> QED  BY <2>1, <2>2, <2>3
<1>4. CalcPackages(o.lines) = r3 \o r2 \o r1 \o rh \o rg
  BY DEF CalcPackages, Row_
<1> HIDE DEF plastic, whole, glass, n3, n2, n1, nh
<1>5. \A t \in {"3-pak", "2-pak", "1-pak", "half", "glass"} : t \in ParcelType
  BY DEF ParcelType
<1>6. r3 \in Plan_ /\ ~TwoRows(r3) /\ Kinds_(r3) \subseteq {"3-pak"}
  <2>1. <<>> \in Plan_ /\ DOMAIN <<>> = {}
    BY DEF Plan_
  <2>2. ~TwoRows(<<>>) /\ Kinds_(<<>>) = {}
    BY <2>1 DEF TwoRows, Kinds_
  <2>3. /\ <<>> \o r3 \in Plan_ /\ ~TwoRows(<<>> \o r3)
        /\ Kinds_(<<>> \o r3) \subseteq Kinds_(<<>>) \cup {"3-pak"}
    BY <1>3, <1>5, <2>1, <2>2, RowAdded
  <2>4. r3 \in Plan_
    <3>1. [type |-> "3-pak", qty |-> n3] \in [type : ParcelType, qty : Int]
      BY <1>3, <1>5
    <3>2. <<[type |-> "3-pak", qty |-> n3]>> \in Plan_
      BY <3>1 DEF Plan_
    <3> QED  BY <2>1, <3>2 DEF Row_
  <2>5. <<>> \o r3 = r3
    <3> HIDE DEF r3
    <3> QED  BY <2>4, ConcatEmptySeq DEF Plan_
  <2> QED  BY <2>2, <2>3, <2>5
<1> HIDE DEF r3
<1>7. /\ r3 \o r2 \in Plan_ /\ ~TwoRows(r3 \o r2)
      /\ Kinds_(r3 \o r2) \subseteq {"3-pak", "2-pak"}
  <2>1. /\ r3 \o r2 \in Plan_ /\ ~TwoRows(r3 \o r2)
        /\ Kinds_(r3 \o r2) \subseteq Kinds_(r3) \cup {"2-pak"}
    BY <1>3, <1>6, <1>5, RowAdded
  <2> QED  BY <1>6, <2>1
<1> DEFINE p2 == r3 \o r2
<1> HIDE DEF r2, p2
<1>8. /\ p2 \o r1 \in Plan_ /\ ~TwoRows(p2 \o r1)
      /\ Kinds_(p2 \o r1) \subseteq {"3-pak", "2-pak", "1-pak"}
  <2>1. p2 \in Plan_ /\ ~TwoRows(p2) /\ Kinds_(p2) \subseteq {"3-pak", "2-pak"}
    BY <1>7 DEF p2
  <2>2. /\ p2 \o r1 \in Plan_ /\ ~TwoRows(p2 \o r1)
        /\ Kinds_(p2 \o r1) \subseteq Kinds_(p2) \cup {"1-pak"}
    BY <1>3, <1>5, <2>1, RowAdded
  <2> QED  BY <2>1, <2>2
<1> DEFINE p1 == p2 \o r1
<1> HIDE DEF r1, p1
<1>9. /\ p1 \o rh \in Plan_ /\ ~TwoRows(p1 \o rh)
      /\ Kinds_(p1 \o rh) \subseteq {"3-pak", "2-pak", "1-pak", "half"}
  <2>1. p1 \in Plan_ /\ ~TwoRows(p1) /\ Kinds_(p1) \subseteq {"3-pak", "2-pak", "1-pak"}
    BY <1>8 DEF p1
  <2>2. /\ p1 \o rh \in Plan_ /\ ~TwoRows(p1 \o rh)
        /\ Kinds_(p1 \o rh) \subseteq Kinds_(p1) \cup {"half"}
    BY <1>3, <1>5, <2>1, RowAdded
  <2> QED  BY <2>1, <2>2
<1> DEFINE ph == p1 \o rh
<1> HIDE DEF rh, ph
<1>10. ph \o rg \in Plan_ /\ ~TwoRows(ph \o rg)
  <2>1. ph \in Plan_ /\ ~TwoRows(ph) /\ Kinds_(ph) \subseteq {"3-pak", "2-pak", "1-pak", "half"}
    BY <1>9 DEF ph
  <2> QED  BY <1>3, <1>5, <2>1, RowAdded
<1> QED  BY <1>4, <1>10 DEF ph, p1, p2

(***************************************************************************)
(* What a plan holds.                                                      *)
(***************************************************************************)
Held_(plan, glass) ==
    Sum([r \in DOMAIN plan |->
            IF (plan[r].type \in GlassType) = glass
            THEN plan[r].qty * Room[plan[r].type] ELSE 0])
Wrapped_(plan) == Sum([r \in DOMAIN plan |-> plan[r].qty])

RowHeld_(t, n, glass) == IF (t \in GlassType) = glass THEN n * Room[t] ELSE 0

LEMMA NothingHeld ==
    /\ <<>> \in Plan_
    /\ \A glass : Held_(<<>>, glass) = 0
    /\ Wrapped_(<<>>) = 0
<1>1. <<>> \in Plan_ /\ DOMAIN <<>> = 1..0
  BY DEF Plan_
<1>2. \A s \in [1..0 -> Int] : Sum(s) = 0
  <2> TAKE s \in [1..0 -> Int]
  <2>1. 0 \in Nat /\ 0 \in Int /\ \A k \in 1..0 : s[k] = 0
    OBVIOUS
  <2>2. Sum(s) = 0 * 0
    BY <2>1, SumOfEqual
  <2> QED  BY <2>2
<1>3. ASSUME NEW glass PROVE Held_(<<>>, glass) = 0
  <2> DEFINE s == [r \in DOMAIN <<>> |->
                      IF (<<>>[r].type \in GlassType) = glass
                      THEN <<>>[r].qty * Room[<<>>[r].type] ELSE 0]
  <2>1. s \in [1..0 -> Int]
    BY <1>1
  <2> HIDE DEF s
  <2>2. Sum(s) = 0
    BY <1>2, <2>1
  <2> QED  BY <2>2 DEF Held_, s
<1>4. Wrapped_(<<>>) = 0
  <2> DEFINE s == [r \in DOMAIN <<>> |-> <<>>[r].qty]
  <2>1. s \in [1..0 -> Int]
    BY <1>1
  <2> HIDE DEF s
  <2>2. Sum(s) = 0
    BY <1>2, <2>1
  <2> QED  BY <2>2 DEF Wrapped_, s
<1> QED  BY <1>1, <1>3, <1>4

LEMMA RowHolds ==
    ASSUME NEW plan \in Plan_, NEW t \in ParcelType, NEW n \in Nat
    PROVE  /\ plan \o Row_(t, n) \in Plan_
           /\ \A glass : /\ Held_(plan, glass) \in Int
                         /\ Held_(plan \o Row_(t, n), glass)
                              = Held_(plan, glass) + RowHeld_(t, n, glass)
           /\ Wrapped_(plan) \in Int /\ Wrapped_(plan \o Row_(t, n)) = Wrapped_(plan) + n
<1> DEFINE m == Len(plan)
           held(p, glass) == [r \in DOMAIN p |->
                                IF (p[r].type \in GlassType) = glass
                                THEN p[r].qty * Room[p[r].type] ELSE 0]
           wrapped(p) == [r \in DOMAIN p |-> p[r].qty]
<1>1. \A u \in ParcelType : Room[u] \in Int
  BY RoomIsCounted
<1>2. ASSUME NEW p \in Plan_
      PROVE  /\ Len(p) \in Nat /\ DOMAIN p = 1..Len(p)
             /\ \A glass : held(p, glass) \in [1..Len(p) -> Int]
             /\ wrapped(p) \in [1..Len(p) -> Int]
  <2>1. /\ Len(p) \in Nat /\ DOMAIN p = 1..Len(p)
        /\ \A r \in 1..Len(p) : p[r] \in [type : ParcelType, qty : Int]
    BY LenProperties, ElementOfSeq DEF Plan_
  <2>2. \A r \in 1..Len(p) : p[r].qty \in Int /\ p[r].qty * Room[p[r].type] \in Int
    <3> TAKE r \in 1..Len(p)
    <3>1. p[r].qty \in Int /\ Room[p[r].type] \in Int
      BY <1>1, <2>1
    <3> QED  BY <3>1
  <2> QED  BY <2>1, <2>2
<1>3. \A glass : Held_(plan, glass) \in Int
  <2> TAKE glass
  <2> HIDE DEF held
  <2>1. Sum(held(plan, glass)) \in Int
    BY <1>2, SumIsInt
  <2> QED  BY <2>1 DEF Held_, held
<1>4. Wrapped_(plan) \in Int
  <2> HIDE DEF wrapped
  <2>1. Sum(wrapped(plan)) \in Int
    BY <1>2, SumIsInt
  <2> QED  BY <2>1 DEF Wrapped_, wrapped
<1>5. CASE n > 0
  <2> DEFINE e == [type |-> t, qty |-> n]
             new == Append(plan, e)
  <2>1. e \in [type : ParcelType, qty : Int] /\ e.type = t /\ e.qty = n
    OBVIOUS
  <2> HIDE DEF e
  <2>2. plan \o Row_(t, n) = new
    <3>1. Row_(t, n) = <<e>>
      BY <1>5 DEF Row_, e
    <3> QED  BY <2>1, <3>1, AppendIsConcat DEF Plan_
  <2>3. IsList(plan) /\ new \in Plan_
    BY <2>1, ListOf, AppendProperties DEF Plan_
  <2>4. /\ m \in Nat /\ DOMAIN plan = 1..m /\ DOMAIN new = 1..(m + 1)
        /\ \A i \in 1..m : new[i] = plan[i]
        /\ new[m + 1] = e
    BY <2>3, Appended
  <2> HIDE DEF new
  <2>5. Len(new) = m + 1
    <3>1. Len(new) \in Nat /\ DOMAIN new = 1..Len(new)
      BY <1>2, <2>3
    <3> QED  BY <2>4, <3>1
  <2>6. ASSUME NEW glass
        PROVE  Held_(new, glass) = Held_(plan, glass) + RowHeld_(t, n, glass)
    <3> DEFINE a == held(plan, glass)
               b == held(new, glass)
    <3>1. \A k \in 1..m : b[k] = a[k]
      <4>1. \A k \in 1..m : k \in 1..(m + 1)
        BY <2>4
      <4> QED  BY <2>4, <4>1
    <3>2. b[m + 1] = RowHeld_(t, n, glass)
      <4>1. m + 1 \in 1..(m + 1)
        BY <2>4
      <4> QED  BY <2>1, <2>4, <4>1 DEF RowHeld_
    <3>3. Held_(plan, glass) = Sum(a) /\ Held_(new, glass) = Sum(b)
      BY DEF Held_
    <3> HIDE DEF held
    <3>4. a \in [1..m -> Int] /\ b \in [1..(m + 1) -> Int]
      BY <1>2, <2>3, <2>5
    <3> HIDE DEF a, b, m
    <3>5. Sum(b) = Sum(a) + b[m + 1]
      BY <2>4, <3>1, <3>4, SumAppended
    <3> QED  BY <3>2, <3>3, <3>5
  <2>7. Wrapped_(new) = Wrapped_(plan) + n
    <3> DEFINE a == wrapped(plan)
               b == wrapped(new)
    <3>1. \A k \in 1..m : b[k] = a[k]
      <4>1. \A k \in 1..m : k \in 1..(m + 1)
        BY <2>4
      <4> QED  BY <2>4, <4>1
    <3>2. b[m + 1] = n
      <4>1. m + 1 \in 1..(m + 1)
        BY <2>4
      <4> QED  BY <2>1, <2>4, <4>1
    <3>3. Wrapped_(plan) = Sum(a) /\ Wrapped_(new) = Sum(b)
      BY DEF Wrapped_
    <3> HIDE DEF wrapped
    <3>4. a \in [1..m -> Int] /\ b \in [1..(m + 1) -> Int]
      BY <1>2, <2>3, <2>5
    <3> HIDE DEF a, b, m
    <3>5. Sum(b) = Sum(a) + b[m + 1]
      BY <2>4, <3>1, <3>4, SumAppended
    <3> QED  BY <3>2, <3>3, <3>5
  <2> QED  BY <1>3, <1>4, <2>2, <2>3, <2>6, <2>7
<1>6. CASE n = 0
  <2>1. plan \o Row_(t, n) = plan
    BY <1>6, ConcatEmptySeq DEF Plan_, Row_
  <2>2. \A glass : RowHeld_(t, n, glass) = 0
    BY <1>1, <1>6 DEF RowHeld_
  <2> HIDE DEF held, wrapped, m
  <2>3. \A glass : Held_(plan \o Row_(t, n), glass) = Held_(plan, glass) + RowHeld_(t, n, glass)
    BY <1>3, <2>1, <2>2
  <2>4. Wrapped_(plan \o Row_(t, n)) = Wrapped_(plan) + n
    <3>1. Wrapped_(plan) + 0 = Wrapped_(plan)
      BY <1>4
    <3> QED  BY <1>6, <2>1, <3>1
  <2> QED  BY <1>3, <1>4, <2>1, <2>3, <2>4
<1> QED  BY <1>5, <1>6

\* Half-packs in boxes of six, of four, of two and of one.
LEMMA PacksAdd ==
    ASSUME NEW p \in Nat
    PROVE  LET whole == p \div 2
               three == whole \div 3
               two == (whole % 3) \div 2
               one == (whole % 3) % 2
               half == p % 2
           IN /\ three \in Nat /\ two \in Nat /\ one \in Nat /\ half \in Nat
              /\ 6 * three + 4 * two + 2 * one + half = p
              /\ three + two + one + half <= (p + 5) \div 6 + 1
OBVIOUS

LEMMA GlassAdds ==
    ASSUME NEW p \in Nat
    PROVE  (p + 1) \div 2 \in Nat /\ 2 * ((p + 1) \div 2) - p \in 0..1
OBVIOUS

\* The boxes of a plan hold the goods it was made for (planning.py:73).
LEMMA PlanIsEnough ==
    ASSUME NEW o \in Order
    PROVE  LET plan == CalcPackages(o.lines)
           IN /\ Held_(plan, FALSE) = Goods(o.lines, FALSE)
              /\ Held_(plan, TRUE) - Goods(o.lines, TRUE) \in 0..1
              /\ Wrapped_(plan) <= (Goods(o.lines, FALSE) + 5) \div 6 + 1
                                      + (Goods(o.lines, TRUE) + 1) \div 2
<1> DEFINE plastic == Goods(o.lines, FALSE)
           goods == Goods(o.lines, TRUE)
           whole == plastic \div 2
           three == whole \div 3
           two == (whole % 3) \div 2
           one == (whole % 3) % 2
           half == plastic % 2
           glass == (goods + 1) \div 2
           p3 == <<>> \o Row_("3-pak", three)
           p2 == p3 \o Row_("2-pak", two)
           p1 == p2 \o Row_("1-pak", one)
           ph == p1 \o Row_("half", half)
           pg == ph \o Row_("glass", glass)
<1>1. plastic \in Nat /\ goods \in Nat
  BY LinesOfOrder, AllGoodsAreCounted
<1>2. /\ three \in Nat /\ two \in Nat /\ one \in Nat /\ half \in Nat
      /\ 6 * three + 4 * two + 2 * one + half = plastic
      /\ three + two + one + half <= (plastic + 5) \div 6 + 1
  BY <1>1, PacksAdd
<1>3. glass \in Nat /\ 2 * glass - goods \in 0..1
  BY <1>1, GlassAdds
<1>4. CalcPackages(o.lines) = pg
  <2>1. CalcPackages(o.lines) = Row_("3-pak", three) \o Row_("2-pak", two) \o Row_("1-pak", one)
                                   \o Row_("half", half) \o Row_("glass", glass)
    BY DEF CalcPackages, Row_
  <2>2. p3 = Row_("3-pak", three)
    <3>1. [type |-> "3-pak", qty |-> three] \in [type : ParcelType, qty : Int]
      <4> HIDE DEF three
      <4> QED  BY <1>2 DEF ParcelType
    <3> HIDE DEF three
    <3>2. <<[type |-> "3-pak", qty |-> three]>> \in Plan_ /\ <<>> \in Plan_
      BY <3>1 DEF Plan_
    <3>3. Row_("3-pak", three) \in Plan_
      BY <3>2 DEF Row_
    <3> QED  BY <3>3, ConcatEmptySeq DEF Plan_
  <2> QED  BY <2>1, <2>2
<1> HIDE DEF plastic, goods, whole, three, two, one, half, glass
<1>5. \A t \in {"3-pak", "2-pak", "1-pak", "half", "glass"} : t \in ParcelType
  BY DEF ParcelType
<1>6. /\ p3 \in Plan_ /\ Wrapped_(p3) = 0 + three
      /\ \A g : Held_(p3, g) = 0 + RowHeld_("3-pak", three, g)
  <2>1. /\ <<>> \o Row_("3-pak", three) \in Plan_
        /\ \A g : /\ Held_(<<>>, g) \in Int
                  /\ Held_(<<>> \o Row_("3-pak", three), g) = Held_(<<>>, g) + RowHeld_("3-pak", three, g)
        /\ Wrapped_(<<>>) \in Int /\ Wrapped_(<<>> \o Row_("3-pak", three)) = Wrapped_(<<>>) + three
    <3> HIDE DEF p3
    <3>1. <<>> \in Plan_ /\ "3-pak" \in ParcelType /\ three \in Nat
      BY <1>2, <1>5, NothingHeld
    <3> QED  BY <3>1, RowHolds
  <2> QED  BY <2>1, NothingHeld
<1> HIDE DEF p3
<1>7. /\ p2 \in Plan_ /\ Wrapped_(p2) = Wrapped_(p3) + two
      /\ \A g : Held_(p2, g) = Held_(p3, g) + RowHeld_("2-pak", two, g)
  <2>1. /\ p3 \o Row_("2-pak", two) \in Plan_
        /\ \A g : /\ Held_(p3, g) \in Int
                  /\ Held_(p3 \o Row_("2-pak", two), g) = Held_(p3, g) + RowHeld_("2-pak", two, g)
        /\ Wrapped_(p3) \in Int /\ Wrapped_(p3 \o Row_("2-pak", two)) = Wrapped_(p3) + two
    <3> HIDE DEF p2
    <3>1. p3 \in Plan_ /\ "2-pak" \in ParcelType /\ two \in Nat
      BY <1>2, <1>5, <1>6
    <3> QED  BY <3>1, RowHolds
  <2> QED  BY <2>1
<1> HIDE DEF p2
<1>8. /\ p1 \in Plan_ /\ Wrapped_(p1) = Wrapped_(p2) + one
      /\ \A g : Held_(p1, g) = Held_(p2, g) + RowHeld_("1-pak", one, g)
  <2>1. /\ p2 \o Row_("1-pak", one) \in Plan_
        /\ \A g : /\ Held_(p2, g) \in Int
                  /\ Held_(p2 \o Row_("1-pak", one), g) = Held_(p2, g) + RowHeld_("1-pak", one, g)
        /\ Wrapped_(p2) \in Int /\ Wrapped_(p2 \o Row_("1-pak", one)) = Wrapped_(p2) + one
    <3> HIDE DEF p1
    <3>1. p2 \in Plan_ /\ "1-pak" \in ParcelType /\ one \in Nat
      BY <1>2, <1>5, <1>7
    <3> QED  BY <3>1, RowHolds
  <2> QED  BY <2>1
<1> HIDE DEF p1
<1>9. /\ ph \in Plan_ /\ Wrapped_(ph) = Wrapped_(p1) + half
      /\ \A g : Held_(ph, g) = Held_(p1, g) + RowHeld_("half", half, g)
  <2>1. /\ p1 \o Row_("half", half) \in Plan_
        /\ \A g : /\ Held_(p1, g) \in Int
                  /\ Held_(p1 \o Row_("half", half), g) = Held_(p1, g) + RowHeld_("half", half, g)
        /\ Wrapped_(p1) \in Int /\ Wrapped_(p1 \o Row_("half", half)) = Wrapped_(p1) + half
    <3> HIDE DEF ph
    <3>1. p1 \in Plan_ /\ "half" \in ParcelType /\ half \in Nat
      BY <1>2, <1>5, <1>8
    <3> QED  BY <3>1, RowHolds
  <2> QED  BY <2>1
<1> HIDE DEF ph
<1>10. /\ Wrapped_(pg) = Wrapped_(ph) + glass
       /\ \A g : Held_(pg, g) = Held_(ph, g) + RowHeld_("glass", glass, g)
  BY <1>3, <1>5, <1>9, RowHolds
<1> HIDE DEF pg
<1>11. /\ Room["3-pak"] = 6 /\ Room["2-pak"] = 4 /\ Room["1-pak"] = 2
       /\ Room["half"] = 1 /\ Room["glass"] = 2
  BY DEF Room, ParcelType
<1>12. Held_(pg, FALSE) = plastic
  <2>1. /\ RowHeld_("3-pak", three, FALSE) = three * 6
        /\ RowHeld_("2-pak", two, FALSE) = two * 4
        /\ RowHeld_("1-pak", one, FALSE) = one * 2
        /\ RowHeld_("half", half, FALSE) = half * 1
        /\ RowHeld_("glass", glass, FALSE) = 0
    BY <1>11 DEF RowHeld_, GlassType
  <2>2. Held_(pg, FALSE) = 0 + three * 6 + two * 4 + one * 2 + half * 1 + 0
    BY <1>6, <1>7, <1>8, <1>9, <1>10, <2>1
  <2>3. 0 + three * 6 + two * 4 + one * 2 + half * 1 + 0 = 6 * three + 4 * two + 2 * one + half
    BY <1>2
  <2> QED  BY <1>2, <2>2, <2>3
<1>13. Held_(pg, TRUE) = 2 * glass
  <2>1. /\ RowHeld_("3-pak", three, TRUE) = 0 /\ RowHeld_("2-pak", two, TRUE) = 0
        /\ RowHeld_("1-pak", one, TRUE) = 0 /\ RowHeld_("half", half, TRUE) = 0
        /\ RowHeld_("glass", glass, TRUE) = glass * 2
    BY <1>11 DEF RowHeld_, GlassType
  <2>2. Held_(pg, TRUE) = 0 + 0 + 0 + 0 + 0 + glass * 2
    BY <1>6, <1>7, <1>8, <1>9, <1>10, <2>1
  <2>3. 0 + 0 + 0 + 0 + 0 + glass * 2 = 2 * glass
    BY <1>3
  <2> QED  BY <2>2, <2>3
<1>14. Wrapped_(pg) = three + two + one + half + glass
  BY <1>2, <1>3, <1>6, <1>7, <1>8, <1>9, <1>10
<1>15. Wrapped_(pg) <= (plastic + 5) \div 6 + 1 + glass
  BY <1>1, <1>2, <1>3, <1>14
<1> QED  BY <1>3, <1>4, <1>12, <1>13, <1>15 DEF plastic, goods, glass

\* Every box there is fits InPost's largest slot.
LEMMA BoxesFit ==
    ASSUME NEW plan \in Plan_
    PROVE  FitWarnings(plan, "inpost") = {}
<1>1. LargeSlot["inpost"] = Box(38, 41, 64, 25)
  BY DEF LargeSlot
<1>2. \A t \in ParcelType : ParcelSpec[t] \in {Box(20, 40, 40, 18), Box(20, 30, 40, 12),
                                              Box(20, 20, 30, 6), Box(15, 20, 20, 3),
                                              Box(20, 30, 30, 9)}
  BY DEF ParcelSpec
<1>3. \A t \in ParcelType :
         /\ \A s \in 1..3 : ~(ParcelSpec[t].sides[s] > LargeSlot["inpost"].sides[s])
         /\ ~(ParcelSpec[t].kg > LargeSlot["inpost"].kg)
  <2> SUFFICES ASSUME NEW t \in ParcelType
               PROVE  /\ \A s \in 1..3 : ~(ParcelSpec[t].sides[s] > LargeSlot["inpost"].sides[s])
                      /\ ~(ParcelSpec[t].kg > LargeSlot["inpost"].kg)
    OBVIOUS
  <2>1. 1..3 = {1, 2, 3}
    OBVIOUS
  <2> QED  BY <1>1, <1>2, <2>1 DEF Box
<1>4. \A r \in DOMAIN plan : plan[r].type \in ParcelType
  <2>1. DOMAIN plan = 1..Len(plan) /\ \A r \in 1..Len(plan) : plan[r] \in [type : ParcelType, qty : Int]
    BY LenProperties, ElementOfSeq DEF Plan_
  <2> QED  BY <2>1
<1> QED  BY <1>3, <1>4 DEF FitWarnings

(***************************************************************************)
(* What the parcels collect.                                               *)
(***************************************************************************)
\* Two spans share a natural number of half-packs.
LEMMA OverlapIsCounted ==
    ASSUME NEW a \in Int, NEW b \in Int, NEW c \in Int, NEW d \in Int
    PROVE  Overlap(a, b, c, d) \in Nat
BY DEF Overlap

IsParcels(parcels) ==
    /\ Len(parcels) \in Nat \ {0} /\ DOMAIN parcels = 1..Len(parcels)
    /\ \A p \in DOMAIN parcels : parcels[p].type \in ParcelType

LEMMA TakenIsCounted ==
    ASSUME NEW lines \in Seq(OrderLine), NEW i \in DOMAIN lines,
           NEW parcels, IsParcels(parcels), NEW p \in DOMAIN parcels
    PROVE  Taken(lines, parcels, p, i) \in Nat
<1> DEFINE glass == lines[i].name.glass
           boxes == {q \in DOMAIN parcels : (parcels[q].type \in GlassType) = glass}
           start == GoodsBefore(lines, glass, i)
           room == [q \in 1..(p - 1) |-> IF q \in boxes THEN Room[parcels[q].type] ELSE 0]
           before == Sum(room)
           end == IF \E q \in boxes : q > p THEN before + Room[parcels[p].type]
                  ELSE Goods(lines, glass)
<1>1. HalfPacks(lines[i]) \in Nat
  BY LinesAreCounted
<1>2. start \in Nat
  <2>1. i \in 1..(Len(lines) + 1)
    BY LinesAreCounted
  <2> QED  BY <2>1, GoodsAreCounted
<1>3. before \in Nat
  <2>1. p - 1 \in Nat /\ \A q \in 1..(p - 1) : q \in DOMAIN parcels
    BY DEF IsParcels
  <2>2. \A q \in 1..(p - 1) : Room[parcels[q].type] \in Nat
    BY <2>1, RoomIsCounted DEF IsParcels
  <2>3. room \in [1..(p - 1) -> Nat]
    <3> HIDE DEF boxes
    <3> QED  BY <2>2
  <2> HIDE DEF room
  <2> QED  BY <2>1, <2>3, SumIsNat
<1>4. end \in Nat
  <2>1. Goods(lines, glass) \in Nat
    BY AllGoodsAreCounted
  <2>2. Room[parcels[p].type] \in Nat
    BY RoomIsCounted DEF IsParcels
  <2> HIDE DEF before, boxes, glass
  <2> QED  BY <1>3, <2>1, <2>2
<1>5. Overlap(start, start + HalfPacks(lines[i]), before, end) \in Nat
  <2> DEFINE over == start + HalfPacks(lines[i])
  <2>1. start \in Int /\ over \in Int /\ before \in Int /\ end \in Int
    <3> HIDE DEF start, before, end
    <3> QED  BY <1>1, <1>2, <1>3, <1>4
  <2> HIDE DEF start, before, end, over
  <2>2. Overlap(start, over, before, end) \in Nat
    BY <2>1, OverlapIsCounted
  <2> QED  BY <2>2 DEF over
<1>6. Taken(lines, parcels, p, i) =
          IF p \in boxes THEN Overlap(start, start + HalfPacks(lines[i]), before, end)
          ELSE IF boxes = {} /\ p = Len(parcels) THEN HalfPacks(lines[i])
          ELSE 0
  BY DEF Taken
<1> HIDE DEF boxes, start, before, end
<1> QED  BY <1>1, <1>5, <1>6

LEMMA WeightsAreCounted ==
    ASSUME NEW lines \in Seq(OrderLine), NEW parcels, IsParcels(parcels)
    PROVE  /\ Weights(lines, parcels) \in [1..Len(parcels) -> Nat]
           /\ Sum(Weights(lines, parcels)) > 0
<1> DEFINE n == Len(parcels)
           m == Len(lines)
           packed == Packable(lines)
           size == [i \in DOMAIN lines |-> IF i \in packed THEN HalfPacks(lines[i]) ELSE 1]
           product == CHOOSE f : f = [k \in 0..m |-> IF k = 0 THEN 1 ELSE f[k - 1] * size[k]]
           scale == product[m]
           sum(p) == [i \in DOMAIN lines |->
                        IF i \in packed
                        THEN lines[i].value * Taken(lines, parcels, p, i) * (scale \div size[i])
                        ELSE 0]
           worth == [p \in DOMAIN parcels |-> Sum(sum(p))]
           alike == [p \in DOMAIN parcels |-> 1]
           unknown == \E i \in packed : lines[i].value = NoValue
<1>1. /\ m \in Nat /\ DOMAIN lines = 1..m /\ n \in Nat \ {0} /\ DOMAIN parcels = 1..n
      /\ \A i \in 1..m : lines[i] \in OrderLine
  BY LinesAreCounted DEF IsParcels
<1>2. \A i \in packed : i \in 1..m /\ HalfPacks(lines[i]) \in Nat \ {0}
  BY <1>1, LinesAreCounted DEF Packable
<1>3. \A i \in 1..m : size[i] \in Nat \ {0}
  <2> HIDE DEF packed
  <2> QED  BY <1>1, <1>2
<1> HIDE DEF packed, size
<1>4. scale \in Nat
  <2>1. product = [k \in 0..m |-> IF k = 0 THEN 1 ELSE product[k - 1] * size[k]]
    <3>1. PICK g : Totals_(g, size, m, TRUE, 1)
      BY <1>1, TotalsExist
    <3>2. g = [k \in 0..m |-> IF k = 0 THEN 1 ELSE g[k - 1] * size[k]]
      BY <3>1 DEF Totals_, Joined
    <3> HIDE DEF m
    <3> QED  BY <3>2
  <2> HIDE DEF product, m
  <2> DEFINE T == {k \in 0..m : product[k] \in Nat}
  <2>2. \A k \in 0..m : product[k] = IF k = 0 THEN 1 ELSE product[k - 1] * size[k]
    BY <2>1
  <2>3. 0 \in T
    BY <1>1, <2>2
  <2>4. ASSUME NEW k \in 1..m, k - 1 \in T PROVE k \in T
    <3>1. product[k] = product[k - 1] * size[k]
      BY <2>2
    <3>2. product[k - 1] \in Nat /\ size[k] \in Nat
      BY <1>3, <2>4
    <3>3. product[k - 1] * size[k] \in Nat
      BY <3>2, Product
    <3> QED  BY <3>1, <3>3
  <2> HIDE DEF T
  <2>5. \A k \in 0..m : k \in T
    BY <1>1, <2>3, <2>4, Stepwise
  <2>6. m \in T
    BY <1>1, <2>5
  <2> QED  BY <2>6 DEF T
<1> HIDE DEF scale
<1>5. ASSUME ~unknown
      PROVE  worth \in [1..n -> Nat]
  <2>1. \A i \in packed : lines[i].value \in Nat
    <3>1. \A i \in packed : lines[i].value \in Nat \cup {NoValue}
      BY <1>1, <1>2 DEF OrderLine
    <3> QED  BY <1>5, <3>1
  <2>2. ASSUME NEW p \in 1..n PROVE Sum(sum(p)) \in Nat
    <3>1. ASSUME NEW i \in packed
          PROVE  lines[i].value * Taken(lines, parcels, p, i) * (scale \div size[i]) \in Nat
      <4> DEFINE v == lines[i].value
                 t == Taken(lines, parcels, p, i)
                 s == scale \div size[i]
      <4>1. v \in Nat /\ t \in Nat /\ s \in Nat
        <5>1. i \in DOMAIN lines /\ p \in DOMAIN parcels
          BY <1>1, <1>2
        <5>2. t \in Nat
          BY <5>1, TakenIsCounted
        <5>3. s \in Nat
          BY <1>1, <1>3, <1>4, <5>1, Division
        <5> QED  BY <2>1, <5>2, <5>3
      <4> HIDE DEF v, t, s
      <4>2. v * t * s \in Nat
        BY <4>1, Product
      <4> QED  BY <4>2 DEF v, t, s
    <3>2. sum(p) \in [1..m -> Nat]
      <4> HIDE DEF m
      <4> QED  BY <1>1, <3>1
    <3> HIDE DEF sum
    <3> QED  BY <1>1, <3>2, SumIsNat
  <2> HIDE DEF sum, n
  <2> QED  BY <1>1, <2>2
<1>6. Weights(lines, parcels) = IF unknown \/ Sum(Listed(worth)) = 0 THEN alike ELSE Listed(worth)
  BY DEF Weights, packed, size, scale, product, m
<1>7. alike \in [1..n -> Nat] /\ Sum(alike) = n
  <2>1. alike \in [1..n -> Nat] /\ alike \in [1..n -> Int] /\ \A p \in 1..n : alike[p] = 1
    BY <1>1
  <2>2. n \in Nat /\ 1 \in Int
    BY <1>1
  <2> HIDE DEF alike, n
  <2>3. Sum(alike) = n * 1
    BY <2>1, <2>2, SumOfEqual
  <2> QED  BY <2>1, <2>2, <2>3
<1>8. ~unknown => Listed(worth) = worth /\ Sum(worth) \in Nat
  <2> HIDE DEF worth, n, unknown
  <2> QED  BY <1>1, <1>5, ListedSame, SumIsNat
<1> HIDE DEF worth, n, unknown, alike
<1> QED  BY <1>1, <1>5, <1>6, <1>7, <1>8 DEF n

\* What the parcels collect is a natural number each, and the cash of the
\* order together (cod.py:210).
LEMMA PartsOfCash ==
    ASSUME NEW o \in Order, NEW plan \in Plan_, CodAllocation(o, plan) # <<>>
    PROVE  LET parcels == PhysicalParcels(plan)
               parts == CodAllocation(o, plan)
               delivery == LargestRemainder(o.shipping, [p \in DOMAIN parcels |-> 1])
               weight == Weights(o.lines, parcels)
               goods == LargestRemainder(o.cod - o.shipping, weight)
           IN /\ IsParcels(parcels) /\ o.cod - o.shipping \in Nat
              /\ parts \in [1..Len(parcels) -> Nat] /\ Sum(parts) = o.cod
              /\ delivery \in [1..Len(parcels) -> Nat] /\ goods \in [1..Len(parcels) -> Nat]
              /\ \A p \in 1..Len(parcels) :
                    /\ parts[p] = delivery[p] + goods[p]
                    /\ delivery[p] * Len(parcels) - o.shipping < Len(parcels)
                    /\ o.shipping - delivery[p] * Len(parcels) < Len(parcels)
                    /\ goods[p] * Sum(weight) - (o.cod - o.shipping) * weight[p] < Sum(weight)
                    /\ (o.cod - o.shipping) * weight[p] - goods[p] * Sum(weight) < Sum(weight)
              /\ weight \in [1..Len(parcels) -> Nat] /\ Sum(weight) \in Nat \ {0}
<1> DEFINE parcels == PhysicalParcels(plan)
           parts == CodAllocation(o, plan)
           n == Len(parcels)
           ones == [p \in DOMAIN parcels |-> 1]
           rest == o.cod - o.shipping
           weight == Weights(o.lines, parcels)
           delivery == LargestRemainder(o.shipping, ones)
           goods == LargestRemainder(rest, weight)
           both == [p \in DOMAIN parts |-> delivery[p] + goods[p]]
<1>1. IsParcels(parcels) /\ o.lines \in Seq(OrderLine) /\ o.shipping \in Nat /\ o.cod \in Nat
  BY ParcelsOfPlan, LinesOfOrder DEF IsParcels
<1>2. n \in Nat \ {0} /\ DOMAIN parcels = 1..n
  BY <1>1 DEF IsParcels
<1>3. parts = Listed([p \in DOMAIN parcels |-> delivery[p] + goods[p]]) /\ ~(o.shipping > o.cod)
  BY DEF CodAllocation
<1>4. rest \in Nat
  BY <1>1, <1>3
<1> HIDE DEF parcels, parts, n, rest
<1>5. weight \in [1..n -> Nat] /\ Sum(weight) > 0
  BY <1>1, WeightsAreCounted DEF n
<1>6. ones \in [1..n -> Nat] /\ Sum(ones) = n
  <2>1. ones \in [1..n -> Nat] /\ ones \in [1..n -> Int] /\ \A p \in 1..n : ones[p] = 1
    BY <1>2
  <2>2. n \in Nat /\ 1 \in Int
    BY <1>2
  <2> HIDE DEF ones
  <2>3. Sum(ones) = n * 1
    BY <2>1, <2>2, SumOfEqual
  <2> QED  BY <2>1, <2>2, <2>3
<1>7. \A p \in 1..n : ones[p] = 1
  BY <1>2
<1> HIDE DEF ones, weight
<1>5a. Sum(weight) \in Nat \ {0}
  <2>1. n \in Nat
    BY <1>2
  <2> QED  BY <1>5, <2>1, SumIsNat
<1>8. /\ goods \in [1..n -> Nat] /\ Sum(goods) = rest
      /\ \A p \in 1..n : /\ goods[p] * Sum(weight) - rest * weight[p] < Sum(weight)
                         /\ rest * weight[p] - goods[p] * Sum(weight) < Sum(weight)
  BY <1>2, <1>4, <1>5, SharedOut
<1>9. /\ delivery \in [1..n -> Nat] /\ Sum(delivery) = o.shipping
      /\ \A p \in 1..n : /\ delivery[p] * n - o.shipping < n
                         /\ o.shipping - delivery[p] * n < n
  <2>1. Sum(ones) > 0
    BY <1>2, <1>6
  <2>2. /\ delivery \in [1..n -> Nat] /\ Sum(delivery) = o.shipping
        /\ \A p \in 1..n : /\ delivery[p] * Sum(ones) - o.shipping * ones[p] < Sum(ones)
                           /\ o.shipping * ones[p] - delivery[p] * Sum(ones) < Sum(ones)
    BY <1>1, <1>2, <1>6, <2>1, SharedOut, ZenonT(60)
  <2>3. o.shipping * 1 = o.shipping
    BY <1>1
  <2> HIDE DEF delivery
  <2> QED  BY <1>6, <1>7, <2>2, <2>3
<1> HIDE DEF delivery, goods
<1>10. parts \in [1..n -> Nat] /\ \A p \in 1..n : parts[p] = delivery[p] + goods[p]
  <2> DEFINE s == [p \in 1..n |-> delivery[p] + goods[p]]
  <2>1. s \in [1..n -> Nat] /\ \A p \in 1..n : s[p] = delivery[p] + goods[p]
    BY <1>8, <1>9
  <2>2. parts = Listed(s)
    BY <1>2, <1>3
  <2> HIDE DEF s
  <2>3. n \in Nat
    BY <1>2
  <2>4. Listed(s) = s
    BY <2>1, <2>3, ListedSame
  <2> QED  BY <2>1, <2>2, <2>4
<1>11. Sum(parts) = Sum(delivery) + Sum(goods)
  <2>1. /\ parts \in [1..n -> Int] /\ delivery \in [1..n -> Int] /\ goods \in [1..n -> Int]
        /\ \A p \in 1..n : parts[p] = delivery[p] + goods[p]
    BY <1>8, <1>9, <1>10
  <2>2. n \in Nat
    BY <1>2
  <2> QED  BY <2>1, <2>2, SumPlus
<1>12. Sum(parts) = o.cod
  BY <1>1, <1>8, <1>9, <1>11 DEF rest
<1> QED  BY <1>1, <1>4, <1>5, <1>5a, <1>8, <1>9, <1>10, <1>12
         DEF n, parcels, parts, delivery, goods, rest, weight, ones

\* Two sums shared out, each part less than a whole off its share, are less
\* than two off together.
LEMMA OffByTwo ==
    ASSUME NEW n \in Nat \ {0}, NEW all \in Nat \ {0}, NEW d \in Nat, NEW g \in Nat,
           NEW s \in Nat, NEW t \in Nat, NEW w \in Nat,
           d * n - s < n, s - d * n < n, g * all - t * w < all, t * w - g * all < all
    PROVE  LET share == t * w * n + s * all
               off == (d + g) * all * n - share
           IN off < 2 * all * n /\ -off < 2 * all * n
<1> DEFINE a == d * n - s
           b == g * all - t * w
           share == t * w * n + s * all
           off == (d + g) * all * n - share
<1>1. a \in Int /\ b \in Int /\ -n < a /\ a < n /\ -all < b /\ b < all
  OBVIOUS
<1>2. off = all * a + n * b
  <2>1. (d + g) * all * n = all * (d * n) + n * (g * all)
    OBVIOUS
  <2>2. all * (d * n - s) = all * (d * n) - all * s
    OBVIOUS
  <2>3. n * (g * all - t * w) = n * (g * all) - n * (t * w)
    OBVIOUS
  <2>4. t * w * n = n * (t * w) /\ s * all = all * s
    OBVIOUS
  <2> QED  BY <2>1, <2>2, <2>3, <2>4
<1>3. 2 * all * n = all * n + n * all /\ all * n \in Int /\ n * all \in Int
  OBVIOUS
<1>4. all * (-n) = -(all * n) /\ n * (-all) = -(n * all)
  OBVIOUS
<1> HIDE DEF a, b, share, off
<1>5. all * a \in Int /\ all * a < all * n /\ all * (-n) < all * a
  BY <1>1, MoreThan
<1>6. n * b \in Int /\ n * b < n * all /\ n * (-all) < n * b
  BY <1>1, MoreThan
<1>7. off < 2 * all * n /\ -off < 2 * all * n
  BY <1>2, <1>3, <1>4, <1>5, <1>6
<1> QED  BY <1>7 DEF off, share

LEMMA SharesAreFair ==
    ASSUME order \in Order, packing.plan \in Plan_
    PROVE  FairShares
<1> DEFINE parcels == PhysicalParcels(packing.plan)
           parts == CodAllocation(order, packing.plan)
           weight == Weights(order.lines, parcels)
           rest == order.cod - order.shipping
           n == Len(parcels)
           delivery == LargestRemainder(order.shipping, [p \in DOMAIN parcels |-> 1])
           goods == LargestRemainder(rest, weight)
<1> SUFFICES ASSUME parts # <<>>, NEW p \in DOMAIN parcels
             PROVE  LET share == rest * weight[p] * n + order.shipping * Sum(weight)
                        off == parts[p] * Sum(weight) * n - share
                    IN off < 2 * Sum(weight) * n /\ -off < 2 * Sum(weight) * n
  BY DEF FairShares
<1>1. /\ IsParcels(parcels) /\ rest \in Nat
      /\ delivery \in [1..n -> Nat] /\ goods \in [1..n -> Nat]
      /\ \A q \in 1..n : /\ parts[q] = delivery[q] + goods[q]
                         /\ delivery[q] * n - order.shipping < n
                         /\ order.shipping - delivery[q] * n < n
                         /\ goods[q] * Sum(weight) - rest * weight[q] < Sum(weight)
                         /\ rest * weight[q] - goods[q] * Sum(weight) < Sum(weight)
      /\ weight \in [1..n -> Nat] /\ Sum(weight) \in Nat \ {0}
  BY PartsOfCash
<1>2. n \in Nat \ {0} /\ p \in 1..n /\ order.shipping \in Nat
  BY <1>1, LinesOfOrder DEF IsParcels
<1> HIDE DEF parcels, parts, n, rest, weight, delivery, goods
<1> DEFINE all == Sum(weight)
           d == delivery[p]
           g == goods[p]
           s == order.shipping
           w == weight[p]
<1>3. all \in Nat \ {0} /\ d \in Nat /\ g \in Nat /\ s \in Nat /\ w \in Nat
  BY <1>1, <1>2
<1>4. d * n - s < n /\ s - d * n < n /\ g * all - rest * w < all /\ rest * w - g * all < all
  BY <1>1, <1>2
<1>5. parts[p] = d + g
  BY <1>1, <1>2
<1> HIDE DEF all, d, g, s, w
<1>6. LET share == rest * w * n + s * all
          off == (d + g) * all * n - share
      IN off < 2 * all * n /\ -off < 2 * all * n
  BY <1>1, <1>2, <1>3, <1>4, OffByTwo
<1> QED  BY <1>5, <1>6 DEF all, d, g, s, w

Parcels_(plan) == {PhysicalParcels(plan)[p] : p \in DOMAIN PhysicalParcels(plan)}
ParcelsIn(s) == {s[k].parcel : k \in DOMAIN s}
Once_(s) == \A j, k \in DOMAIN s : s[j].parcel = s[k].parcel => j = k

\* what the parcels of a plan collect, of an order without cash nothing
Parts_(o, plan) == IF Cod(o) = 0 THEN [p \in DOMAIN PhysicalParcels(plan) |-> 0]
                   ELSE CodAllocation(o, plan)

\* The calls of a run: each of a parcel of the plan, with its part of the
\* cash, and one for each parcel that has no label yet, if the labels there
\* are of this plan (workflow.py:184).
LEMMA CallsOfRun ==
    ASSUME NEW d, d.plan \in Plan_, NEW from
    PROVE  /\ IsList(CallSpecs(d, from))
           /\ \A k \in DOMAIN CallSpecs(d, from) :
                 \E p \in DOMAIN PhysicalParcels(d.plan) :
                    LET parcel == PhysicalParcels(d.plan)[p]
                        cod == Parts_(order, d.plan)[p]
                    IN /\ CallSpecs(d, from)[k].parcel = parcel
                       /\ CallSpecs(d, from)[k].payload = Payload(d, parcel, cod, from)
           /\ ~TwoRows(d.plan) /\ ParcelsIn(d.labels) \subseteq Parcels_(d.plan) =>
                 /\ Once_(CallSpecs(d, from))
                 /\ ParcelsIn(CallSpecs(d, from)) = Parcels_(d.plan) \ ParcelsIn(d.labels)
<1> DEFINE parcels == PhysicalParcels(d.plan)
           rest == {p \in DOMAIN parcels : ~IsDone(d, parcels[p])}
           parts == IF Cod(order) = 0 THEN [p \in DOMAIN parcels |-> 0]
                    ELSE CodAllocation(order, d.plan)
           Spec(p) == [parcel |-> parcels[p],
                       payload |-> Payload(d, parcels[p], parts[ShareOf(p, rest)], from)]
           Nth(k) == CHOOSE p \in rest : Cardinality({q \in rest : q <= p}) = k
           n == Cardinality(rest)
           R == {x \in rest \X rest : x[1] < x[2]}
           specs == [k \in 1..n |-> Spec(Nth(k))]
<1>1. /\ IsList(parcels)
      /\ ~TwoRows(d.plan) =>
            \A p, q \in DOMAIN parcels :
               parcels[p].type = parcels[q].type /\ parcels[p].number = parcels[q].number => p = q
  BY ParcelsOfPlan
<1>2. CallSpecs(d, from) = specs
  BY DEF CallSpecs
<1>3. Len(parcels) \in Nat /\ DOMAIN parcels = 1..Len(parcels)
  BY <1>1, ListOf DEF IsList
<1> HIDE DEF parcels
<1>4. IsFiniteSet(rest) /\ rest \in SUBSET Int
  <2>1. IsFiniteSet(1..Len(parcels))
    BY <1>3, FS_Interval
  <2>2. rest \in SUBSET (1..Len(parcels))
    BY <1>3
  <2> HIDE DEF rest
  <2>3. IsFiniteSet(rest)
    BY <2>1, <2>2, FS_Subset
  <2> QED  BY <1>3, <2>2, <2>3
<1>5. /\ n \in Nat
      /\ \A p \in rest : Cardinality({q \in rest : q <= p}) \in 1..n
      /\ \A p, q \in rest :
            Cardinality({x \in rest : x <= p}) = Cardinality({x \in rest : x <= q}) => p = q
      /\ \A k \in 1..n : \E p \in rest : Cardinality({q \in rest : q <= p}) = k
  <2> HIDE DEF rest
  <2>1. /\ \A x \in rest : <<x, x>> \notin R
        /\ \A x, y \in rest : x # y => <<x, y>> \in R \/ <<y, x>> \in R
        /\ \A x, y, z \in rest : <<x, y>> \in R /\ <<y, z>> \in R => <<x, z>> \in R
    <3>1. \A x, y \in rest : <<x, y>> \in R <=> x < y
      OBVIOUS
    <3> HIDE DEF R
    <3>2. \A x \in rest : <<x, x>> \notin R
      BY <1>4, <3>1
    <3>3. \A x, y \in rest : x # y => <<x, y>> \in R \/ <<y, x>> \in R
      BY <1>4, <3>1
    <3>4. \A x, y, z \in rest : <<x, y>> \in R /\ <<y, z>> \in R => <<x, z>> \in R
      BY <1>4, <3>1
    <3> QED  BY <3>2, <3>3, <3>4
  <2> DEFINE Below(x) == Ahead(rest, R, x)
  <2>2. \A p \in rest : {q \in rest : q <= p} = Below(p) \cup {p} /\ p \notin Below(p)
    <3>1. \A p \in rest : Below(p) = {q \in rest : q < p}
      BY DEF Ahead
    <3>2. \A q, p \in rest : q <= p <=> (q < p \/ q = p)
      BY <1>4
    <3>3. \A p \in rest : ~(p < p)
      BY <1>4
    <3> HIDE DEF Below
    <3> QED  BY <3>1, <3>2, <3>3
  <2> HIDE DEF R
  <2>3. /\ n \in Nat
        /\ \A x \in rest : IsFiniteSet(Below(x)) /\ Cardinality(Below(x)) \in 0..(n - 1)
        /\ \A x, y \in rest : Cardinality(Below(x)) = Cardinality(Below(y)) => x = y
        /\ \A k \in 0..(n - 1) : \E x \in rest : Cardinality(Below(x)) = k
    <3>1. IsFiniteSet(rest)
      BY <1>4
    <3>2. \A x \in rest : IsFiniteSet(Below(x)) /\ Cardinality(Below(x)) \in 0..(n - 1)
      BY <2>1, <3>1, PlaceBounds
    <3>3. /\ \A x \in rest : <<x, x>> \notin R
          /\ \A x, y \in rest : x # y => <<x, y>> \in R \/ <<y, x>> \in R
          /\ \A x, y, z \in rest : <<x, y>> \in R /\ <<y, z>> \in R => <<x, z>> \in R
      BY <2>1
    <3>4. /\ n \in Nat
          /\ \A x, y \in rest : Cardinality(Below(x)) = Cardinality(Below(y)) => x = y
          /\ \A k \in 0..(n - 1) : \E x \in rest : Cardinality(Below(x)) = k
      BY <3>1, <3>3, Ranked
    <3> QED  BY <3>2, <3>4
  <2> HIDE DEF Below, n
  <2>4. \A p \in rest : Cardinality({q \in rest : q <= p}) = Cardinality(Below(p)) + 1
    <3> TAKE p \in rest
    <3>1. IsFiniteSet(Below(p)) /\ p \notin Below(p)
      BY <2>2, <2>3
    <3>2. Cardinality(Below(p) \cup {p}) = Cardinality(Below(p)) + 1
      BY <3>1, FS_AddElement
    <3> QED  BY <2>2, <3>2
  <2>5. \A p \in rest : Cardinality(Below(p)) \in Int
    BY <2>3
  <2>6. ASSUME NEW k \in 1..n
        PROVE  \E p \in rest : Cardinality({q \in rest : q <= p}) = k
    <3>1. k - 1 \in 0..(n - 1)
      BY <2>3
    <3>2. PICK p \in rest : Cardinality(Below(p)) = k - 1
      BY <2>3, <3>1
    <3> QED  BY <2>4, <3>2
  <2>7. ASSUME NEW p \in rest, NEW q \in rest,
               Cardinality({x \in rest : x <= p}) = Cardinality({x \in rest : x <= q})
        PROVE  p = q
    BY <2>3, <2>4, <2>5, <2>7
  <2>8. \A p \in rest : Cardinality({q \in rest : q <= p}) \in 1..n
    BY <2>3, <2>4
  <2> QED  BY <2>3, <2>6, <2>7, <2>8
<1>6. \A k \in 1..n : Nth(k) \in rest /\ Cardinality({q \in rest : q <= Nth(k)}) = k
  <2> HIDE DEF rest
  <2> QED  BY <1>5
<1>7. \A p \in rest : \E k \in 1..n : Nth(k) = p
  <2> TAKE p \in rest
  <2> DEFINE k == Cardinality({q \in rest : q <= p})
  <2>1. k \in 1..n
    BY <1>5
  <2>2. Nth(k) \in rest /\ Cardinality({q \in rest : q <= Nth(k)}) = k
    BY <1>6, <2>1
  <2>3. Nth(k) = p
    <3> HIDE DEF rest, Nth
    <3> QED  BY <1>5, <2>2
  <2> HIDE DEF k
  <2> QED  BY <2>1, <2>3
<1>8. IsList(specs) /\ DOMAIN specs = 1..n
  <2> HIDE DEF rest, Nth, Spec, n
  <2>1. specs \in Seq({Spec(Nth(k)) : k \in 1..n})
    BY <1>5
  <2> HIDE DEF specs
  <2>2. IsList(specs)
    BY <2>1, ListOf
  <2> QED  BY <2>2 DEF specs
<1>9. \A k \in 1..n : specs[k].parcel = parcels[Nth(k)]
  <2> HIDE DEF rest, Nth, n, parts
  <2> QED  OBVIOUS
<1>9a. ASSUME NEW k \in DOMAIN specs
       PROVE  \E p \in DOMAIN parcels :
                 /\ specs[k].parcel = parcels[p]
                 /\ specs[k].payload = Payload(d, parcels[p], Parts_(order, d.plan)[p], from)
  <2>1. Parts_(order, d.plan) = parts
    BY DEF Parts_, parcels
  <2>2. k \in 1..n
    BY <1>8
  <2>3. Nth(k) \in DOMAIN parcels
    BY <1>6, <2>2
  <2> DEFINE p == Nth(k)
  <2>4. specs[k] = [parcel |-> parcels[p], payload |-> Payload(d, parcels[p], parts[p], from)]
    <3> HIDE DEF n, Nth, rest, parts
    <3> QED  BY <2>2 DEF ShareOf
  <2> HIDE DEF specs, Nth, parts
  <2>5. /\ specs[k].parcel = parcels[p]
        /\ specs[k].payload = Payload(d, parcels[p], parts[p], from)
    BY <2>4
  <2> QED  BY <2>1, <2>3, <2>5
<1> HIDE DEF specs, Nth, n
<1>10. ASSUME ~TwoRows(d.plan), ParcelsIn(d.labels) \subseteq Parcels_(d.plan)
       PROVE  Once_(specs) /\ ParcelsIn(specs) = Parcels_(d.plan) \ ParcelsIn(d.labels)
  <2>1. Parcels_(d.plan) = {parcels[p] : p \in DOMAIN parcels}
    BY DEF Parcels_, parcels
  <2>2. \A p, q \in DOMAIN parcels :
           parcels[p].type = parcels[q].type /\ parcels[p].number = parcels[q].number => p = q
    BY <1>1, <1>10
  <2>3. ASSUME NEW p \in DOMAIN parcels PROVE IsDone(d, parcels[p]) <=> parcels[p] \in ParcelsIn(d.labels)
    <3>1. ASSUME NEW l \in DOMAIN d.labels, d.labels[l].parcel.type = parcels[p].type,
                 d.labels[l].parcel.number = parcels[p].number
          PROVE  parcels[p] \in ParcelsIn(d.labels)
      <4>1. d.labels[l].parcel \in ParcelsIn(d.labels)
        BY DEF ParcelsIn
      <4>2. PICK q \in DOMAIN parcels : d.labels[l].parcel = parcels[q]
        BY <1>10, <2>1, <4>1
      <4> QED  BY <2>2, <3>1, <4>1, <4>2
    <3>2. ASSUME parcels[p] \in ParcelsIn(d.labels) PROVE IsDone(d, parcels[p])
      BY <3>2 DEF ParcelsIn, IsDone
    <3> QED  BY <3>1, <3>2 DEF IsDone
  <2>4. rest = {p \in DOMAIN parcels : parcels[p] \notin ParcelsIn(d.labels)}
    BY <2>3
  <2> HIDE DEF rest
  <2>5. \A j, k \in 1..n : Nth(j) = Nth(k) => j = k
    BY <1>6
  <2>6. \A j, k \in 1..n : parcels[Nth(j)] = parcels[Nth(k)] => j = k
    BY <1>6, <2>2, <2>4, <2>5
  <2>7. Once_(specs)
    BY <1>8, <1>9, <2>6 DEF Once_
  <2>8. ParcelsIn(specs) = {parcels[p] : p \in rest}
    <3>1. ParcelsIn(specs) = {parcels[Nth(k)] : k \in 1..n}
      BY <1>8, <1>9 DEF ParcelsIn
    <3> QED  BY <1>6, <1>7, <3>1
  <2>9. {parcels[p] : p \in rest} = {parcels[p] : p \in DOMAIN parcels} \ ParcelsIn(d.labels)
    BY <2>4
  <2> QED  BY <2>1, <2>7, <2>8, <2>9
<1> QED  BY <1>2, <1>8, <1>9a, <1>10 DEF parcels

(***************************************************************************)
(* The invariant.  PackShape: the draft and the run have their shape, and  *)
(* a draft is executing while its run posts and at no other time.          *)
(* ReviewedThat: from the moment a draft is read, what was shown is what   *)
(* its copy asks of the courier, or a refusal that ends the run.           *)
(* SentSoFar: without two rows of one type and without an edit between     *)
(* read and claim, every label is of a parcel of the plan and no parcel    *)
(* has two; what a run has yet to post are the parcels without one.        *)
(***************************************************************************)
PackShape ==
    /\ order \in Order
    /\ packing = [plan |-> packing.plan, operator |-> packing.operator,
                  service |-> packing.service, phone |-> packing.phone,
                  labels |-> packing.labels, status |-> packing.status]
    /\ packing.plan \in Plan_ /\ IsList(packing.labels)
    /\ sending = [pc |-> sending.pc, draft |-> sending.draft, todo |-> sending.todo,
                  from |-> sending.from, shown |-> sending.shown]
    /\ IsList(sending.todo)
    /\ sending.pc = "posting" <=> packing.status = "executing"
    /\ \A d \in sending.draft : d.packing.plan \in Plan_

ReviewedThat ==
    /\ sending.pc = "read" =>
          \A v \in sending.shown, d \in sending.draft :
             \/ PlanRefuses(d.packing, d.window)
             \/ v.payloads = CallSpecs(d.packing, sending.from)
    /\ ReviewedIsSent

ReadAsItIs ==
    \A d \in sending.draft :
        d.packing.plan = packing.plan /\ d.packing.labels = packing.labels

LeftToSend ==
    /\ Once_(sending.todo)
    /\ ParcelsIn(sending.todo) = Parcels_(packing.plan) \ ParcelsIn(packing.labels)

LabelsOfPlan ==
    /\ ~TwoRows(packing.plan) /\ Once_(packing.labels)
    /\ ParcelsIn(packing.labels) \subseteq Parcels_(packing.plan)

AllSent == ParcelsIn(packing.labels) = Parcels_(packing.plan)

SentSoFar ==
    Despite({"two_rows", "late_edit"}) =>
        /\ LabelsOfPlan
        /\ sending.pc = "read" => ReadAsItIs
        /\ sending.pc = "posting" => LeftToSend
        /\ packing.status = "created" => AllSent

PackInv == PackShape /\ ReviewedThat /\ SentSoFar

\* The order does not change, so a draft goes on asking for what it asked.
LEMMA SameCalls ==
    ASSUME order' = order
    PROVE  \A d, w, from : /\ PlanRefuses(d, w)' <=> PlanRefuses(d, w)
                           /\ CallSpecs(d, from)' = CallSpecs(d, from)
<1>1. \A d, w : PlanRefuses(d, w)' <=> PlanRefuses(d, w)
  BY DEF PlanRefuses, InPostRefuses, ApaczkaRefuses, PointRefuses
<1>2. \A d, from : CallSpecs(d, from)' = CallSpecs(d, from)
  BY DEF CallSpecs, Payload
<1> QED  BY <1>1, <1>2

LEMMA PackStarts ==
    ASSUME ParcelInit
    PROVE  PackInv
<1>1. /\ order \in Order /\ packing.plan = CalcPackages(order.lines)
      /\ packing = [plan |-> packing.plan, operator |-> packing.operator,
                    service |-> packing.service, phone |-> packing.phone,
                    labels |-> packing.labels, status |-> packing.status]
      /\ packing.labels = <<>> /\ packing.status \in {"needs_review", "pending"}
  BY DEF ParcelInit, Packing
<1>2. packing.plan \in Plan_ /\ ~TwoRows(packing.plan)
  BY <1>1, PlannedRows
<1>3. /\ sending = [pc |-> "idle", draft |-> {}, todo |-> <<>>, from |-> 0, shown |-> {}]
  BY DEF ParcelInit, IdleRun
<1>4. IsList(<<>>) /\ Once_(<<>>) /\ ParcelsIn(<<>>) = {}
  BY DEF IsList, Once_, ParcelsIn
<1>5. PackShape
  BY <1>1, <1>2, <1>3, <1>4 DEF PackShape
<1>6. ReviewedThat
  BY <1>3 DEF ReviewedThat, ReviewedIsSent
<1>7. SentSoFar
  BY <1>1, <1>2, <1>3, <1>4 DEF SentSoFar, LabelsOfPlan
<1> QED  BY <1>5, <1>6, <1>7 DEF PackInv

LEMMA NothingSent ==
    ASSUME PackInv, UNCHANGED <<order, packing, sending, parcelCauses>>
    PROVE  PackInv'
<1>1. PackShape'
  BY DEF PackInv, PackShape
<1>2. ReviewedThat'
  <2>1. \A d, w, from : /\ PlanRefuses(d, w)' <=> PlanRefuses(d, w)
                        /\ CallSpecs(d, from)' = CallSpecs(d, from)
    BY SameCalls
  <2> QED  BY <2>1 DEF PackInv, ReviewedThat, ReviewedIsSent, Despite
<1>3. SentSoFar'
  BY DEF PackInv, SentSoFar, Despite, LabelsOfPlan, ReadAsItIs, LeftToSend, AllSent
<1> QED  BY <1>1, <1>2, <1>3 DEF PackInv

\* An edit keeps the labels, and the plan once there are any; only a review
\* changes the status, and one of InPost's needs the phone (drafts.py:104).
IsEdit(d) ==
    /\ Edited(d)
    /\ d = [plan |-> d.plan, operator |-> d.operator, service |-> d.service,
            phone |-> d.phone, labels |-> packing.labels, status |-> d.status]
    /\ \/ d.status = packing.status
       \/ /\ packing.status = "needs_review" /\ d.status = "pending"
          /\ order.courier = "inpost" => packing.phone
    /\ \/ d.plan = packing.plan /\ d.operator = packing.operator
       \/ /\ packing.labels = <<>> /\ packing.status \notin {"executing", "created"}
          /\ d.status = packing.status /\ d.plan \in Plan_ /\ d.operator = TRUE
    /\ d.phone = packing.phone \/ d.phone = TRUE
    /\ d.service = packing.service \/ d.service \in Service[order.courier]

LEMMA EditKeepsPack ==
    ASSUME PackInv, NEW d, IsEdit(d)
    PROVE  PackInv'
<1>1. /\ packing' = d /\ order' = order /\ sending' = sending
      /\ parcelCauses \subseteq parcelCauses'
      /\ TwoRows(d.plan) => "two_rows" \in parcelCauses'
      /\ sending.pc = "read" => "late_edit" \in parcelCauses'
  BY DEF IsEdit, Edited
<1>1a. /\ d = [plan |-> d.plan, operator |-> d.operator, service |-> d.service,
               phone |-> d.phone, labels |-> packing.labels, status |-> d.status]
       /\ \/ d.status = packing.status
          \/ packing.status = "needs_review" /\ d.status = "pending"
       /\ \/ d.plan = packing.plan
          \/ /\ packing.labels = <<>> /\ packing.status \notin {"executing", "created"}
             /\ d.status = packing.status /\ d.plan \in Plan_
  BY DEF IsEdit
<1>2. PackShape'
  BY <1>1, <1>1a DEF PackInv, PackShape
<1>3. ReviewedThat'
  <2>1. \A e, w, from : /\ PlanRefuses(e, w)' <=> PlanRefuses(e, w)
                        /\ CallSpecs(e, from)' = CallSpecs(e, from)
    BY <1>1, SameCalls
  <2> QED  BY <1>1, <2>1 DEF PackInv, ReviewedThat, ReviewedIsSent, Despite
<1>4. SentSoFar'
  <2> SUFFICES ASSUME Despite({"two_rows", "late_edit"})'
               PROVE  /\ LabelsOfPlan' /\ sending.pc # "read"
                      /\ sending.pc = "posting" => LeftToSend'
                      /\ d.status = "created" => AllSent'
    BY <1>1 DEF SentSoFar
  <2>1. ~TwoRows(d.plan) /\ sending.pc # "read" /\ Despite({"two_rows", "late_edit"})
    BY <1>1 DEF Despite
  <2>2. CASE d.plan = packing.plan
    BY <1>1, <1>1a, <2>1, <2>2 DEF PackInv, SentSoFar, LabelsOfPlan, LeftToSend, AllSent
  <2>3. CASE /\ packing.labels = <<>> /\ packing.status \notin {"executing", "created"}
             /\ d.status = packing.status
    <3>1. Once_(<<>>) /\ ParcelsIn(<<>>) = {}
      BY DEF Once_, ParcelsIn
    <3>2. LabelsOfPlan'
      BY <1>1, <1>1a, <2>1, <2>3, <3>1 DEF LabelsOfPlan
    <3> QED  BY <2>1, <2>3, <3>2 DEF PackInv, PackShape
  <2> QED  BY <1>1a, <2>2, <2>3
<1> QED  BY <1>2, <1>3, <1>4 DEF PackInv

LEMMA OperatorEdits ==
    ASSUME PackShape,
           \/ \E rows \in EditPlan : Repack(rows)
           \/ \E s \in {"locker", "courier", "door", "point", "unlisted"} : ChooseService(s)
           \/ GivePhone \/ Review
    PROVE  \E d : IsEdit(d)
<1>1. packing = [plan |-> packing.plan, operator |-> packing.operator,
                 service |-> packing.service, phone |-> packing.phone,
                 labels |-> packing.labels, status |-> packing.status]
  BY DEF PackShape
<1>2. ASSUME NEW rows \in EditPlan, Repack(rows) PROVE \E d : IsEdit(d)
  <2> DEFINE yes == TRUE
             e == [packing EXCEPT !.plan = rows]
             d == [e EXCEPT !.operator = yes]
  <2>1. Edited(d) /\ ~Locked(packing) /\ ValidBreakdown(rows)
    BY <1>2 DEF Repack
  <2>2. rows \in Plan_
    <3>1. rows \in Seq([type : STRING, qty : Int])
      BY ParcelShape
    <3>2. /\ Len(rows) \in Nat /\ DOMAIN rows = 1..Len(rows)
          /\ \A r \in 1..Len(rows) : rows[r] \in [type : STRING, qty : Int]
          /\ rows = [r \in 1..Len(rows) |-> rows[r]]
      BY <3>1, LenProperties, ElementOfSeq
    <3>3. \A r \in 1..Len(rows) : rows[r].type \in ParcelType
      BY <2>1, <3>2 DEF ValidBreakdown
    <3>4. \A r \in 1..Len(rows) : rows[r] \in [type : ParcelType, qty : Int]
      BY <3>2, <3>3
    <3>5. rows \in [1..Len(rows) -> [type : ParcelType, qty : Int]]
      BY <3>2, <3>4
    <3> QED  BY <3>2, <3>5, SeqDef DEF Plan_
  <2>3. /\ d = [plan |-> d.plan, operator |-> d.operator, service |-> d.service,
                phone |-> d.phone, labels |-> packing.labels, status |-> d.status]
        /\ d.plan = rows /\ d.status = packing.status /\ d.operator = yes
        /\ d.phone = packing.phone /\ d.service = packing.service
    <3> HIDE DEF yes
    <3>1. e = [plan |-> rows, operator |-> packing.operator, service |-> packing.service,
               phone |-> packing.phone, labels |-> packing.labels, status |-> packing.status]
      BY <1>1
    <3> HIDE DEF e
    <3>2. d = [plan |-> rows, operator |-> yes, service |-> packing.service,
               phone |-> packing.phone, labels |-> packing.labels, status |-> packing.status]
      BY <3>1
    <3> HIDE DEF d
    <3> QED  BY <3>2
  <2> HIDE DEF d
  <2>4. packing.labels = <<>> /\ packing.status \notin {"executing", "created"}
    BY <2>1 DEF Locked
  <2> HIDE DEF yes
  <2>5. IsEdit(d)
    BY <2>1, <2>2, <2>3, <2>4 DEF IsEdit, yes
  <2> QED  BY <2>5
<1>3. ASSUME NEW s, ChooseService(s) PROVE \E d : IsEdit(d)
  <2> DEFINE d == [packing EXCEPT !.service = s]
  <2>1. Edited(d) /\ s \in Service[order.courier]
    BY <1>3 DEF ChooseService
  <2>2. /\ d = [plan |-> d.plan, operator |-> d.operator, service |-> d.service,
                phone |-> d.phone, labels |-> packing.labels, status |-> d.status]
        /\ d.plan = packing.plan /\ d.status = packing.status /\ d.operator = packing.operator
        /\ d.phone = packing.phone /\ d.service = s
    BY <1>1
  <2> HIDE DEF d
  <2>3. IsEdit(d)
    BY <2>1, <2>2 DEF IsEdit
  <2> QED  BY <2>3
<1>4. ASSUME GivePhone PROVE \E d : IsEdit(d)
  <2> DEFINE yes == TRUE
             d == [packing EXCEPT !.phone = yes]
  <2>1. Edited(d)
    BY <1>4 DEF GivePhone
  <2>2. /\ d = [plan |-> d.plan, operator |-> d.operator, service |-> d.service,
                phone |-> d.phone, labels |-> packing.labels, status |-> d.status]
        /\ d.plan = packing.plan /\ d.status = packing.status /\ d.operator = packing.operator
        /\ d.phone = yes /\ d.service = packing.service
    <3> HIDE DEF yes
    <3>1. d = [plan |-> packing.plan, operator |-> packing.operator,
               service |-> packing.service, phone |-> yes, labels |-> packing.labels,
               status |-> packing.status]
      BY <1>1
    <3> HIDE DEF d
    <3> QED  BY <3>1
  <2> HIDE DEF d, yes
  <2>3. IsEdit(d)
    BY <2>1, <2>2 DEF IsEdit, yes
  <2> QED  BY <2>3
<1>5. ASSUME Review PROVE \E d : IsEdit(d)
  <2> DEFINE d == [packing EXCEPT !.status = "pending"]
  <2>1. Edited(d) /\ packing.status = "needs_review" /\ (order.courier = "inpost" => packing.phone)
    BY <1>5 DEF Review
  <2>2. /\ d = [plan |-> d.plan, operator |-> d.operator, service |-> d.service,
                phone |-> d.phone, labels |-> packing.labels, status |-> d.status]
        /\ d.plan = packing.plan /\ d.status = "pending" /\ d.operator = packing.operator
        /\ d.phone = packing.phone /\ d.service = packing.service
    BY <1>1
  <2> HIDE DEF d
  <2>3. IsEdit(d)
    BY <2>1, <2>2 DEF IsEdit
  <2> QED  BY <2>3
<1> QED  BY <1>2, <1>3, <1>4, <1>5

LEMMA DraftIsRead ==
    ASSUME PackInv, NEW window, NEW shown, ReadDraft(window, shown)
    PROVE  PackInv'
<1>1. PICK draft, from, copy : /\ draft = packing /\ from = address
                               /\ copy = [packing |-> draft, window |-> window]
  OBVIOUS
<1>2. copy.packing = draft /\ copy.window = window
  BY <1>1
<1>3. /\ order' = order /\ packing' = packing /\ parcelCauses' = parcelCauses
      /\ sending' = [pc |-> "read", draft |-> {copy}, todo |-> <<>>, from |-> from,
                     shown |-> shown]
      /\ sending.pc = "idle" /\ \A v \in shown : Matches(v, packing, window)
  BY <1>1 DEF ReadDraft
<1>4. /\ sending'.pc = "read" /\ sending'.draft = {copy} /\ sending'.todo = <<>>
      /\ sending'.from = from /\ sending'.shown = shown
  BY <1>3
<1>5. IsList(<<>>)
  BY DEF IsList
<1>6. PackShape'
  BY <1>1, <1>2, <1>3, <1>4, <1>5 DEF PackInv, PackShape
<1>7. ReviewedThat'
  <2>1. \A v \in shown : \/ PlanRefuses(draft, window)
                         \/ v.payloads = CallSpecs(draft, from)
    BY <1>1, <1>3 DEF Matches, Preview
  <2>2. \A v \in shown : \/ PlanRefuses(draft, window)'
                         \/ v.payloads = CallSpecs(draft, from)'
    BY <1>3, <2>1, SameCalls
  <2>3. ASSUME NEW v \in sending'.shown, NEW d \in sending'.draft
        PROVE  \/ PlanRefuses(d.packing, d.window)'
               \/ v.payloads = CallSpecs(d.packing, sending.from)'
    BY <1>2, <1>4, <2>2
  <2> QED  BY <1>4, <2>3 DEF ReviewedThat, ReviewedIsSent
<1>8. SentSoFar'
  BY <1>1, <1>2, <1>3, <1>4
     DEF PackInv, PackShape, SentSoFar, Despite, LabelsOfPlan, ReadAsItIs, AllSent
<1> QED  BY <1>6, <1>7, <1>8 DEF PackInv

\* A run ends with an error, or with every parcel sent.
LEMMA RunEnds ==
    ASSUME PackInv, NEW status, EndRun(status), order' = order,
           parcelCauses \subseteq parcelCauses',
           \/ status = "error"
           \/ status = "created" /\ (Despite({"two_rows", "late_edit"}) => AllSent)
    PROVE  PackInv'
<1>1. packing' = [plan |-> packing.plan, operator |-> packing.operator,
                  service |-> packing.service, phone |-> packing.phone,
                  labels |-> packing.labels, status |-> status]
  BY DEF PackInv, PackShape, EndRun
<1>2. /\ packing'.plan = packing.plan /\ packing'.labels = packing.labels
      /\ packing'.status = status
  BY <1>1
<1>3. sending' = [pc |-> "idle", draft |-> {}, todo |-> <<>>, from |-> 0, shown |-> {}]
  BY DEF EndRun, IdleRun
<1>4. sending'.pc = "idle" /\ sending'.draft = {} /\ sending'.todo = <<>>
  BY <1>3
<1>5. PackShape'
  <2>1. IsList(<<>>)
    BY DEF IsList
  <2> QED  BY <1>1, <1>2, <1>3, <1>4, <2>1 DEF PackInv, PackShape
<1>6. ReviewedThat'
  BY <1>4 DEF ReviewedThat, ReviewedIsSent
<1>7. SentSoFar'
  BY <1>2, <1>4 DEF PackInv, SentSoFar, Despite, LabelsOfPlan, AllSent
<1> QED  BY <1>5, <1>6, <1>7 DEF PackInv

LEMMA RunClaims ==
    ASSUME PackInv, Claim
    PROVE  PackInv'
<1>1. sending.pc = "read" /\ order' = order
  BY DEF Claim
<1>2. CASE packing.status \notin {"pending", "error"}
  <2>1. packing' = packing /\ parcelCauses' = parcelCauses
        /\ sending' = [pc |-> "idle", draft |-> {}, todo |-> <<>>, from |-> 0, shown |-> {}]
    BY <1>2 DEF Claim, IdleRun
  <2>2. sending'.pc = "idle" /\ sending'.draft = {} /\ sending'.todo = <<>>
    BY <2>1
  <2>3. IsList(<<>>)
    BY DEF IsList
  <2>4. PackShape'
    BY <1>1, <2>1, <2>2, <2>3 DEF PackInv, PackShape
  <2>5. ReviewedThat'
    BY <2>2 DEF ReviewedThat, ReviewedIsSent
  <2>6. SentSoFar'
    BY <2>1, <2>2 DEF PackInv, SentSoFar, Despite, LabelsOfPlan, AllSent
  <2> QED  BY <2>4, <2>5, <2>6 DEF PackInv
<1>3. CASE packing.status \in {"pending", "error"}
  <2>1. PICK d \in sending.draft :
           /\ parcelCauses' = parcelCauses \cup
                 (IF Sender # sending.from THEN {"moved"} ELSE {})
           /\ IF Refuses(d.packing, d.window) THEN EndRun("error")
              ELSE /\ packing' = [packing EXCEPT !.status = "executing"]
                   /\ sending' = [sending EXCEPT !.pc = "posting",
                                     !.todo = CallSpecs(d.packing, Sender)]
    BY <1>3 DEF Claim
  <2>2. CASE Refuses(d.packing, d.window)
    BY <1>1, <2>1, <2>2, RunEnds
  <2>3. CASE ~Refuses(d.packing, d.window)
    <3> DEFINE specs == CallSpecs(d.packing, Sender)
    <3>1. packing' = [plan |-> packing.plan, operator |-> packing.operator,
                      service |-> packing.service, phone |-> packing.phone,
                      labels |-> packing.labels, status |-> "executing"]
      BY <2>1, <2>3 DEF PackInv, PackShape
    <3>2. /\ packing'.plan = packing.plan /\ packing'.labels = packing.labels
          /\ packing'.status = "executing"
      BY <3>1
    <3>3. sending' = [pc |-> "posting", draft |-> sending.draft, todo |-> specs,
                      from |-> sending.from, shown |-> sending.shown]
      <4> HIDE DEF specs
      <4>1. sending' = [sending EXCEPT !.pc = "posting", !.todo = specs]
        BY <2>1, <2>3 DEF specs
      <4> QED  BY <4>1 DEF PackInv, PackShape
    <3>4. /\ sending'.pc = "posting" /\ sending'.draft = sending.draft
          /\ sending'.todo = specs /\ sending'.shown = sending.shown
      BY <3>3
    <3>5. d.packing.plan \in Plan_
      BY DEF PackInv, PackShape
    <3>6. /\ IsList(specs)
          /\ ~TwoRows(d.packing.plan)
             /\ ParcelsIn(d.packing.labels) \subseteq Parcels_(d.packing.plan) =>
                /\ Once_(specs)
                /\ ParcelsIn(specs) = Parcels_(d.packing.plan) \ ParcelsIn(d.packing.labels)
      BY <3>5, CallsOfRun
    <3>7. ReviewedThat'
      <4> SUFFICES ASSUME Despite({"moved"})', NEW v \in sending.shown,
                          NEW k \in DOMAIN specs
                   PROVE  \E j \in DOMAIN v.payloads : v.payloads[j] = specs[k]
        BY <3>4 DEF ReviewedThat, ReviewedIsSent
      <4>1. Sender = sending.from
        BY <2>1 DEF Despite
      <4>2. ~PlanRefuses(d.packing, d.window)
        BY <2>3 DEF Refuses
      <4>3. v.payloads = specs
        BY <1>1, <4>1, <4>2 DEF PackInv, ReviewedThat
      <4> HIDE DEF specs
      <4> QED  BY <4>3
    <3> HIDE DEF specs
    <3>8. PackShape'
      BY <1>1, <3>1, <3>2, <3>3, <3>4, <3>6 DEF PackInv, PackShape
    <3>9. SentSoFar'
      <4> SUFFICES ASSUME Despite({"two_rows", "late_edit"})'
                   PROVE  LabelsOfPlan' /\ LeftToSend'
        BY <3>2, <3>4 DEF SentSoFar
      <4>1. Despite({"two_rows", "late_edit"})
        BY <2>1 DEF Despite
      <4>2. LabelsOfPlan /\ ReadAsItIs
        BY <1>1, <4>1 DEF PackInv, SentSoFar
      <4>3. d.packing.plan = packing.plan /\ d.packing.labels = packing.labels
        BY <4>2 DEF ReadAsItIs
      <4> QED  BY <3>2, <3>4, <3>6, <4>2, <4>3 DEF LabelsOfPlan, LeftToSend
    <3> QED  BY <3>7, <3>8, <3>9 DEF PackInv
  <2> QED  BY <2>2, <2>3
<1> QED  BY <1>2, <1>3

LEMMA ParcelPosts ==
    ASSUME PackInv, Post
    PROVE  PackInv'
<1>1. /\ sending.pc = "posting" /\ sending.todo # <<>>
      /\ order' = order /\ parcelCauses' = parcelCauses
  BY DEF Post
<1>2. CASE ~Complete(Head(sending.todo))
  BY <1>1, <1>2, RunEnds DEF Post
<1>3. CASE Complete(Head(sending.todo))
  <2> DEFINE todo == sending.todo
             labels == packing.labels
             n == Len(labels) + 1
  <2>1. IsList(todo) /\ IsList(labels)
    BY DEF PackInv, PackShape
  <2>2. /\ IsList(Tail(todo)) /\ Len(todo) \in Nat \ {0} /\ DOMAIN todo = 1..Len(todo)
        /\ DOMAIN Tail(todo) = 1..(Len(todo) - 1) /\ Head(todo) = todo[1]
        /\ \A i \in DOMAIN Tail(todo) : Tail(todo)[i] = todo[i + 1]
    BY <1>1, <2>1, Tailed
  <2> DEFINE new == Append(labels, todo[1])
             rest == Tail(todo)
  <2>3. /\ IsList(new) /\ Len(labels) \in Nat /\ DOMAIN labels = 1..Len(labels)
        /\ DOMAIN new = 1..n /\ \A i \in 1..Len(labels) : new[i] = labels[i]
        /\ new[n] = todo[1]
    BY <2>1, Appended
  <2>4. /\ packing' = [plan |-> packing.plan, operator |-> packing.operator,
                       service |-> packing.service, phone |-> packing.phone,
                       labels |-> new, status |-> packing.status]
        /\ sending' = [pc |-> "posting", draft |-> sending.draft, todo |-> rest,
                       from |-> sending.from, shown |-> sending.shown]
    <3>1. /\ packing' = [packing EXCEPT !.labels = new]
          /\ sending' = [sending EXCEPT !.todo = rest]
      BY <1>3, <2>2 DEF Post
    <3> HIDE DEF new, rest
    <3> QED  BY <1>1, <3>1 DEF PackInv, PackShape
  <2> HIDE DEF new, rest, todo, labels
  <2>5. /\ packing'.plan = packing.plan /\ packing'.labels = new
        /\ packing'.status = packing.status
        /\ sending'.pc = "posting" /\ sending'.draft = sending.draft
        /\ sending'.todo = rest /\ sending'.shown = sending.shown
    BY <2>4
  <2>6. PackShape'
    BY <1>1, <2>2, <2>3, <2>4, <2>5 DEF PackInv, PackShape, rest
  <2>7. /\ \A i \in DOMAIN rest : i + 1 \in DOMAIN todo /\ i + 1 # 1 /\ rest[i] = todo[i + 1]
        /\ \A i \in DOMAIN todo : i # 1 => i - 1 \in DOMAIN rest /\ rest[i - 1] = todo[i]
        /\ \A i, j \in DOMAIN rest : i + 1 = j + 1 => i = j
        /\ 1 \in DOMAIN todo
    <3>1. \A i \in 1..(Len(todo) - 1) : i + 1 \in 1..Len(todo) /\ i + 1 # 1
      BY <2>2
    <3>2. \A i \in 1..Len(todo) : i # 1 => i - 1 \in 1..(Len(todo) - 1) /\ (i - 1) + 1 = i
      BY <2>2
    <3>3. \A i, j \in 1..(Len(todo) - 1) : i + 1 = j + 1 => i = j
      BY <2>2
    <3>4. 1 \in 1..Len(todo)
      BY <2>2
    <3> QED  BY <2>2, <3>1, <3>2, <3>3, <3>4 DEF rest
  <2>8. ReviewedThat'
    <3> SUFFICES ASSUME Despite({"moved"}), NEW v \in sending.shown, NEW k \in DOMAIN rest
                 PROVE  \E j \in DOMAIN v.payloads : v.payloads[j] = rest[k]
      BY <1>1, <2>5 DEF ReviewedThat, ReviewedIsSent, Despite
    <3>1. \E j \in DOMAIN v.payloads : v.payloads[j] = todo[k + 1]
      BY <1>1, <2>7 DEF PackInv, ReviewedThat, ReviewedIsSent, todo
    <3> QED  BY <2>7, <3>1
  <2>9. SentSoFar'
    <3> SUFFICES ASSUME Despite({"two_rows", "late_edit"})
                 PROVE  LabelsOfPlan' /\ LeftToSend'
      BY <1>1, <2>5 DEF SentSoFar, Despite, PackInv, PackShape
    <3>1. /\ ~TwoRows(packing.plan) /\ Once_(labels) /\ Once_(todo)
          /\ ParcelsIn(labels) \subseteq Parcels_(packing.plan)
          /\ ParcelsIn(todo) = Parcels_(packing.plan) \ ParcelsIn(labels)
      BY <1>1 DEF PackInv, SentSoFar, LabelsOfPlan, LeftToSend, labels, todo
    <3> DEFINE parcel == todo[1].parcel
    <3>2. parcel \in ParcelsIn(todo) /\ parcel \notin ParcelsIn(labels)
      BY <2>7, <3>1 DEF ParcelsIn
    <3>3. \A i \in DOMAIN new : \/ i \in DOMAIN labels /\ new[i] = labels[i]
                                \/ i = n /\ new[i] = todo[1]
      <4>1. \A i \in 1..n : i \in 1..Len(labels) \/ i = n
        BY <2>3
      <4> QED  BY <2>3, <4>1
    <3>4. ParcelsIn(new) = ParcelsIn(labels) \cup {parcel}
      <4>1. n \in DOMAIN new /\ \A i \in DOMAIN labels : i \in DOMAIN new /\ new[i] = labels[i]
        BY <2>3
      <4> HIDE DEF n
      <4> QED  BY <2>3, <3>3, <4>1 DEF ParcelsIn
    <3>5. Once_(new)
      BY <3>1, <3>2, <3>3 DEF Once_, ParcelsIn
    <3>6. ParcelsIn(rest) = ParcelsIn(todo) \ {parcel}
      <4>1. \A i \in DOMAIN rest : todo[i + 1].parcel # parcel
        BY <2>7, <3>1 DEF Once_
      <4> QED  BY <2>7, <4>1 DEF ParcelsIn
    <3>7. Once_(rest)
      BY <2>7, <3>1 DEF Once_
    <3> HIDE DEF parcel
    <3>8. LabelsOfPlan'
      BY <2>5, <3>1, <3>2, <3>4, <3>5 DEF LabelsOfPlan
    <3>9. LeftToSend'
      BY <2>5, <3>1, <3>2, <3>4, <3>6, <3>7 DEF LeftToSend
    <3> QED  BY <3>8, <3>9
  <2> QED  BY <2>6, <2>8, <2>9 DEF PackInv
<1> QED  BY <1>2, <1>3

LEMMA RunIsDone ==
    ASSUME PackInv, Done
    PROVE  PackInv'
<1>1. /\ sending.pc = "posting" /\ sending.todo = <<>> /\ EndRun("created")
      /\ order' = order /\ parcelCauses' = parcelCauses
  BY DEF Done
<1>2. ASSUME Despite({"two_rows", "late_edit"}) PROVE AllSent
  <2>1. LabelsOfPlan /\ LeftToSend
    BY <1>1, <1>2 DEF PackInv, SentSoFar
  <2>2. ParcelsIn(<<>>) = {}
    BY DEF ParcelsIn
  <2>3. Parcels_(packing.plan) \ ParcelsIn(packing.labels) = {}
    BY <1>1, <2>1, <2>2 DEF LeftToSend
  <2> QED  BY <2>1, <2>3 DEF LabelsOfPlan, AllSent
<1> QED  BY <1>1, <1>2, RunEnds

LEMMA ParcelStep ==
    ASSUME PackInv, [ParcelNext]_parcelVars
    PROVE  PackInv'
<1>1. CASE \/ \E rows \in EditPlan : Repack(rows)
           \/ \E s \in {"locker", "courier", "door", "point", "unlisted"} : ChooseService(s)
           \/ GivePhone \/ Review
  <2>1. PICK d : IsEdit(d)
    BY <1>1, OperatorEdits DEF PackInv
  <2> QED  BY <2>1, EditKeepsPack
<1>2. ASSUME NEW w, Show(w) PROVE PackInv'
  BY <1>2, NothingSent DEF Show
<1>3. ASSUME NEW w, NEW v, ReadDraft(w, v) PROVE PackInv'
  BY <1>3, DraftIsRead
<1>4. CASE Claim
  BY <1>4, RunClaims
<1>5. CASE Post
  BY <1>5, ParcelPosts
<1>6. CASE PostFails
  BY <1>6, RunEnds DEF PostFails
<1>7. CASE Done
  BY <1>7, RunIsDone
<1>8. CASE Move
  BY <1>8, NothingSent DEF Move
<1>9. CASE UNCHANGED parcelVars
  BY <1>9, NothingSent DEF parcelVars
<1> QED  BY <1>1, <1>2, <1>3, <1>4, <1>5, <1>6, <1>7, <1>8, <1>9 DEF ParcelNext

\* As many labels as parcels, if no parcel is labelled twice.
LEMMA HowManySent ==
    ASSUME NEW s, IsList(s), \A i, j \in DOMAIN s : s[i] = s[j] => i = j
    PROVE  Len(s) \in Nat /\ Cardinality({s[i] : i \in DOMAIN s}) = Len(s)
<1> DEFINE T == {s[i] : i \in DOMAIN s}
           f == [i \in 1..Len(s) |-> s[i]]
<1>1. Len(s) \in Nat /\ DOMAIN s = 1..Len(s)
  BY ListOf DEF IsList
<1>2. f \in Bijection(1..Len(s), T)
  BY <1>1 DEF Bijection, Injection, IsInjective, Surjection
<1>3. IsFiniteSet(1..Len(s)) /\ Cardinality(1..Len(s)) = Len(s)
  BY <1>1, FS_Interval
<1> HIDE DEF f, T
<1>4. Cardinality(T) = Cardinality(1..Len(s))
  BY <1>2, <1>3, FS_Bijection DEF ExistsBijection
<1> QED  BY <1>1, <1>3, <1>4 DEF T

LEMMA PackIsEnough ==
    ASSUME PackInv
    PROVE  SentAsReviewed
<1>1. IsList(packing.labels) /\ packing.plan \in Plan_
  BY DEF PackInv, PackShape
<1> DEFINE parcels == PhysicalParcels(packing.plan)
           labels == packing.labels
<1>2. /\ IsList(parcels)
      /\ ~TwoRows(packing.plan) =>
            \A p, q \in DOMAIN parcels : parcels[p].type = parcels[q].type =>
               /\ parcels[p].of = parcels[q].of
               /\ parcels[p].number = parcels[q].number => p = q
  BY <1>1, ParcelsOfPlan
<1>3. Parcels_(packing.plan) = {parcels[p] : p \in DOMAIN parcels}
  BY DEF Parcels_
<1> HIDE DEF parcels
<1>4. ASSUME packing.status = "created", Despite({"two_rows", "late_edit"})
      PROVE  Len(labels) = Len(parcels) /\ \A p \in DOMAIN parcels : IsDone(packing, parcels[p])
  <2>1. LabelsOfPlan /\ AllSent
    BY <1>4 DEF PackInv, SentSoFar
  <2> DEFINE s == [l \in DOMAIN labels |-> labels[l].parcel]
  <2>2. Len(labels) \in Nat /\ DOMAIN labels = 1..Len(labels)
    BY <1>1, ListOf DEF IsList
  <2>3. IsList(s) /\ DOMAIN s = DOMAIN labels /\ Len(s) = Len(labels)
    <3>1. s \in Seq({labels[l].parcel : l \in DOMAIN labels}) /\ Len(s) = Len(labels)
      BY <2>2
    <3> HIDE DEF s
    <3>2. IsList(s)
      BY <3>1, ListOf
    <3> QED  BY <3>1, <3>2 DEF s
  <2>4. \A i, j \in DOMAIN s : s[i] = s[j] => i = j
    BY <2>1 DEF LabelsOfPlan, Once_
  <2>5. {s[l] : l \in DOMAIN s} = ParcelsIn(labels)
    BY DEF ParcelsIn
  <2> HIDE DEF s, labels
  <2>6. Cardinality(ParcelsIn(labels)) = Len(labels)
    BY <2>3, <2>4, <2>5, HowManySent
  <2>7. \A p, q \in DOMAIN parcels : parcels[p] = parcels[q] => p = q
    BY <1>2, <2>1 DEF LabelsOfPlan
  <2>8. Cardinality({parcels[p] : p \in DOMAIN parcels}) = Len(parcels)
    BY <1>2, <2>7, HowManySent
  <2>9. ParcelsIn(labels) = {parcels[p] : p \in DOMAIN parcels}
    BY <1>3, <2>1 DEF AllSent, labels
  <2>10. \A p \in DOMAIN parcels : IsDone(packing, parcels[p])
    BY <2>9 DEF ParcelsIn, IsDone, labels
  <2> QED  BY <2>6, <2>8, <2>9, <2>10
<1>5. EveryParcelIsSent
  BY <1>4 DEF EveryParcelIsSent, parcels
<1>6. NumberedTogether
  <2> SUFFICES ASSUME Despite({"two_rows", "late_edit"}),
                      NEW k \in DOMAIN labels, NEW l \in DOMAIN labels,
                      labels[k].parcel.type = labels[l].parcel.type
               PROVE  labels[k].parcel.of = labels[l].parcel.of
    BY DEF NumberedTogether
  <2>1. LabelsOfPlan
    BY DEF PackInv, SentSoFar
  <2>2. labels[k].parcel \in Parcels_(packing.plan) /\ labels[l].parcel \in Parcels_(packing.plan)
    BY <2>1 DEF LabelsOfPlan, ParcelsIn
  <2>3. PICK p \in DOMAIN parcels, q \in DOMAIN parcels :
           labels[k].parcel = parcels[p] /\ labels[l].parcel = parcels[q]
    BY <1>3, <2>2
  <2> QED  BY <1>2, <2>1, <2>3 DEF LabelsOfPlan
<1>7. ReviewedIsSent
  BY DEF PackInv, ReviewedThat
<1> QED  BY <1>5, <1>6, <1>7 DEF SentAsReviewed

(***************************************************************************)
(* What is sent is what was planned and reviewed: a draft that is created  *)
(* has one label for each parcel of its plan, over however many failed and *)
(* resumed runs; its labels number one plan; and a reviewed run posts      *)
(* nothing that was not shown (workflow.py:184, cod.py:81).                *)
(***************************************************************************)
THEOREM SentAsReviewedHolds == PackingSpec => []SentAsReviewed
<1>1. ParcelInit => PackInv
  BY PackStarts
<1>2. PackInv /\ [ParcelNext]_parcelVars => PackInv'
  BY ParcelStep
<1>3. PackInv => SentAsReviewed
  BY PackIsEnough
<1> QED  BY <1>1, <1>2, <1>3, PTL DEF PackingSpec

(***************************************************************************)
(* The cash.  CashTyped: the draft, the run and the counters keep their    *)
(* types, a reviewed draft of InPost's has a phone, and a plan no operator *)
(* asked for is the planner's.  Paid_: each call is insured for what it    *)
(* collects, and to a locker it collects everything.  Shares_: each call   *)
(* collects the part of its parcel.  SharedSoFar: it does for every label  *)
(* and every call to come, unless a plan has two rows of one type or was   *)
(* edited between read and claim.                                          *)
(***************************************************************************)
CashTyped ==
    /\ packing.status \in {"needs_review", "pending", "executing", "created", "error"}
    /\ packing.phone \in BOOLEAN /\ packing.operator \in BOOLEAN
    /\ packing.service \in Service[order.courier]
    /\ \A d \in sending.draft : d.packing.service \in Service[order.courier]
    /\ order.courier = "inpost" /\ packing.status # "needs_review" => packing.phone
    /\ ~packing.operator => packing.plan = CalcPackages(order.lines)
    /\ sending.pc \in {"idle", "read", "posting"} /\ Cardinality(screen) <= 1
    /\ address \in 1..2 /\ edits \in 0..MaxEdits
    /\ parcelFaults \in 0..MaxParcelFaults
    /\ parcelCauses \subseteq {"two_rows", "late_edit", "moved"}

Paid_(o, s) ==
    \A k \in DOMAIN s :
        /\ s[k].payload.money.cod \in Nat
        /\ s[k].payload.money.insured = InsuranceOf(s[k].payload.money.cod)
        /\ s[k].payload.service = "locker" /\ Cod(o) > 0 =>
              s[k].payload.money.cod = Cod(o)

Shares_(o, plan, s) ==
    \A k \in DOMAIN s : \A p \in DOMAIN PhysicalParcels(plan) :
        s[k].parcel = PhysicalParcels(plan)[p] =>
            s[k].payload.money.cod = Parts_(o, plan)[p]

\* an order's cash can be shared among the parcels of a plan
CanShare_(o, plan) == Cod(o) > 0 => CodAllocation(o, plan) # <<>>

SharedSoFar ==
    Despite({"two_rows", "late_edit"}) =>
        /\ Shares_(order, packing.plan, packing.labels)
        /\ sending.pc = "posting" => Shares_(order, packing.plan, sending.todo)
        /\ packing.labels # <<>> \/ packing.status \in {"executing", "created"} =>
              CanShare_(order, packing.plan)

PaidFor == Paid_(order, packing.labels) /\ Paid_(order, sending.todo)

CashInv == PackInv /\ CashTyped /\ PaidFor /\ SharedSoFar

\* The parts of an order's cash are all of it.
LEMMA PartsOfOrder ==
    ASSUME NEW o \in Order, NEW plan \in Plan_, CanShare_(o, plan)
    PROVE  /\ Cod(o) \in Nat
           /\ Parts_(o, plan) \in [1..Len(PhysicalParcels(plan)) -> Nat]
           /\ Sum(Parts_(o, plan)) = Cod(o)
<1> DEFINE parcels == PhysicalParcels(plan)
           n == Len(parcels)
           parts == Parts_(o, plan)
<1>1. n \in Nat \ {0} /\ DOMAIN parcels = 1..n
  BY ParcelsOfPlan
<1>2. o.cod \in Nat /\ o.codError \in BOOLEAN
  BY ParcelShape
<1>3. Cod(o) \in Nat
  BY <1>2 DEF Cod
<1>4. CASE Cod(o) = 0
  <2>1. parts = [p \in 1..n |-> 0]
    BY <1>1, <1>4 DEF Parts_
  <2>2. parts \in [1..n -> Nat] /\ parts \in [1..n -> Int] /\ \A p \in 1..n : parts[p] = 0
    BY <2>1
  <2>3. n \in Nat /\ 0 \in Int
    BY <1>1
  <2> HIDE DEF parts, n, parcels
  <2>4. Sum(parts) = n * 0
    BY <2>2, <2>3, SumOfEqual
  <2>5. n * 0 = 0
    BY <2>3
  <2> QED  BY <1>3, <1>4, <2>2, <2>4, <2>5 DEF parts, n, parcels
<1>5. CASE Cod(o) # 0
  <2>1. CodAllocation(o, plan) # <<>> /\ parts = CodAllocation(o, plan) /\ Cod(o) = o.cod
    BY <1>3, <1>5 DEF CanShare_, Parts_, Cod
  <2>2. CodAllocation(o, plan) \in [1..n -> Nat] /\ Sum(CodAllocation(o, plan)) = o.cod
    BY <2>1, PartsOfCash
  <2> QED  BY <1>3, <2>1, <2>2
<1> QED  BY <1>4, <1>5

LEMMA PayloadsArePaid ==
    ASSUME NEW d, d.service \in Service[order.courier], NEW parcel, NEW cod, NEW from,
           order.courier \in {"inpost", "apaczka"}
    PROVE  /\ Payload(d, parcel, cod, from).money = [cod |-> cod, insured |-> InsuranceOf(cod)]
           /\ Payload(d, parcel, cod, from).service = "locker" =>
                 order.courier = "inpost" /\ d.service = "locker"
<1>1. CASE order.courier = "apaczka"
  <2>1. d.service # "locker"
    BY <1>1 DEF Service, ApaczkaService
  <2> QED  BY <1>1, <2>1 DEF Payload, ShipmentOrder, Money
<1>2. CASE order.courier = "inpost"
  BY <1>2 DEF Payload, PaczkomatPayload, KurierPayload, Money
<1> QED  BY <1>1, <1>2

\* A run that is not refused pays its calls (cod.py:210).
LEMMA CallsArePaid ==
    ASSUME order \in Order, NEW d, d.plan \in Plan_, d.service \in Service[order.courier],
           NEW window, ~Refuses(d, window), NEW from
    PROVE  /\ Paid_(order, CallSpecs(d, from))
           /\ ~TwoRows(d.plan) => Shares_(order, d.plan, CallSpecs(d, from))
           /\ CanShare_(order, d.plan)
<1> DEFINE specs == CallSpecs(d, from)
           parcels == PhysicalParcels(d.plan)
           parts == Parts_(order, d.plan)
<1>1. order.courier \in {"inpost", "apaczka"}
  BY ParcelShape
<1>2. CanShare_(order, d.plan)
  BY <1>1 DEF Refuses, PlanRefuses, InPostRefuses, ApaczkaRefuses, CanShare_
<1>3. parts \in [1..Len(parcels) -> Nat] /\ Sum(parts) = Cod(order) /\ Cod(order) \in Nat
  BY <1>2, PartsOfOrder
<1>4. /\ DOMAIN parcels = 1..Len(parcels) /\ Len(parcels) \in Nat \ {0}
      /\ ~TwoRows(d.plan) => \A p, q \in DOMAIN parcels :
            parcels[p].type = parcels[q].type /\ parcels[p].number = parcels[q].number => p = q
  BY ParcelsOfPlan
<1>5. \A k \in DOMAIN specs : \E p \in DOMAIN parcels :
         /\ specs[k].parcel = parcels[p]
         /\ specs[k].payload = Payload(d, parcels[p], parts[p], from)
  BY CallsOfRun
<1>6. order.courier = "inpost" /\ d.service = "locker" /\ Cod(order) > 0 => Len(parcels) = 1
  BY DEF Refuses, PlanRefuses, InPostRefuses, OneParcel
<1> HIDE DEF specs, parcels, parts
<1>7. \A k \in DOMAIN specs : \E p \in DOMAIN parcels :
         /\ specs[k].parcel = parcels[p]
         /\ specs[k].payload.money = [cod |-> parts[p], insured |-> InsuranceOf(parts[p])]
         /\ specs[k].payload.service = "locker" => order.courier = "inpost" /\ d.service = "locker"
  <2> TAKE k \in DOMAIN specs
  <2>1. PICK p \in DOMAIN parcels :
           /\ specs[k].parcel = parcels[p]
           /\ specs[k].payload = Payload(d, parcels[p], parts[p], from)
    BY <1>5
  <2>2. /\ Payload(d, parcels[p], parts[p], from).money
              = [cod |-> parts[p], insured |-> InsuranceOf(parts[p])]
        /\ Payload(d, parcels[p], parts[p], from).service = "locker" =>
              order.courier = "inpost" /\ d.service = "locker"
    BY <1>1, PayloadsArePaid
  <2> QED  BY <2>1, <2>2
<1>8. Paid_(order, specs)
  <2> SUFFICES ASSUME NEW k \in DOMAIN specs
               PROVE  /\ specs[k].payload.money.cod \in Nat
                      /\ specs[k].payload.money.insured = InsuranceOf(specs[k].payload.money.cod)
                      /\ specs[k].payload.service = "locker" /\ Cod(order) > 0 =>
                            specs[k].payload.money.cod = Cod(order)
    BY DEF Paid_
  <2>1. PICK p \in DOMAIN parcels :
           /\ specs[k].payload.money = [cod |-> parts[p], insured |-> InsuranceOf(parts[p])]
           /\ specs[k].payload.service = "locker" =>
                 order.courier = "inpost" /\ d.service = "locker"
    BY <1>7
  <2>2. specs[k].payload.money.cod = parts[p]
        /\ specs[k].payload.money.insured = InsuranceOf(parts[p])
    BY <2>1
  <2>3. parts[p] \in Nat
    BY <1>3, <1>4
  <2>4. ASSUME Len(parcels) = 1 PROVE parts[p] = Cod(order)
    <3> DEFINE v == parts[1]
    <3>1. p = 1 /\ parts \in [1..1 -> Int] /\ 1 \in 1..1 /\ 1 \in Nat
      BY <1>3, <1>4, <2>4
    <3>2. v \in Int /\ \A q \in 1..1 : parts[q] = IF q = 1 THEN v ELSE 0
      BY <3>1
    <3> HIDE DEF v
    <3>3. Sum(parts) = v
      BY <3>1, <3>2, SumOfOne
    <3> QED  BY <1>3, <3>1, <3>3 DEF v
  <2> QED  BY <1>6, <2>1, <2>2, <2>3, <2>4
<1>9. ASSUME ~TwoRows(d.plan) PROVE Shares_(order, d.plan, specs)
  <2> SUFFICES ASSUME NEW k \in DOMAIN specs, NEW p \in DOMAIN parcels,
                      specs[k].parcel = parcels[p]
               PROVE  specs[k].payload.money.cod = parts[p]
    BY DEF Shares_, parcels, parts
  <2>1. PICK q \in DOMAIN parcels :
           /\ specs[k].parcel = parcels[q]
           /\ specs[k].payload.money = [cod |-> parts[q], insured |-> InsuranceOf(parts[q])]
    BY <1>7
  <2>2. p = q
    BY <1>4, <1>9, <2>1
  <2> QED  BY <2>1, <2>2
<1> QED  BY <1>2, <1>8, <1>9 DEF specs

LEMMA CashStarts ==
    ASSUME ParcelInit
    PROVE  CashInv
<1>1. /\ order \in Order /\ packing.plan = CalcPackages(order.lines)
      /\ packing.labels = <<>> /\ packing.service = order.service
      /\ packing.phone = order.phone /\ packing.operator = FALSE
      /\ packing.status = IF NeedsReview(order) THEN "needs_review" ELSE "pending"
  BY DEF ParcelInit, Packing
<1>2. sending = [pc |-> "idle", draft |-> {}, todo |-> <<>>, from |-> 0, shown |-> {}]
  BY DEF ParcelInit, IdleRun
<1>3. sending.pc = "idle" /\ sending.draft = {} /\ sending.todo = <<>>
  BY <1>2
<1>4. order.service \in Service[order.courier] /\ order.phone \in BOOLEAN
      /\ MaxEdits \in Nat /\ MaxParcelFaults \in Nat
  BY <1>1, ParcelShape
<1>5. CashTyped
  <2>1. Cardinality(screen) <= 1
    BY FS_EmptySet DEF ParcelInit
  <2>2. order.courier = "inpost" /\ packing.status # "needs_review" => packing.phone
    BY <1>1, <1>4 DEF NeedsReview
  <2>3. packing.phone \in BOOLEAN /\ packing.operator \in BOOLEAN
    BY <1>1, <1>4
  <2>4. /\ address \in 1..2 /\ edits \in 0..MaxEdits
        /\ parcelFaults \in 0..MaxParcelFaults
        /\ parcelCauses \subseteq {"two_rows", "late_edit", "moved"}
    BY <1>4 DEF ParcelInit
  <2>5. packing.status \in {"needs_review", "pending"}
    BY <1>1
  <2> QED  BY <1>1, <1>3, <1>4, <2>1, <2>2, <2>3, <2>4, <2>5 DEF CashTyped
<1>6. PaidFor
  BY <1>1, <1>3 DEF PaidFor, Paid_
<1>7. SharedSoFar
  <2>1. packing.status \notin {"executing", "created"}
    BY <1>1
  <2> QED  BY <1>1, <1>3, <2>1 DEF SharedSoFar, Shares_
<1> QED  BY <1>5, <1>6, <1>7, PackStarts DEF CashInv

\* A step that buys nothing and plans nothing keeps what is paid for.
LEMMA PaidAsBefore ==
    ASSUME CashInv, order' = order, packing'.labels = packing.labels,
           packing'.plan = packing.plan, parcelCauses \subseteq parcelCauses',
           sending'.todo \in {sending.todo, <<>>},
           sending'.pc = "posting" =>
              (sending.pc = "posting" \/ sending'.todo = <<>>),
           packing'.status \in {"executing", "created"} =>
              packing.status \in {"executing", "created"}
    PROVE  PaidFor' /\ SharedSoFar'
<1>1. PaidFor'
  BY DEF CashInv, PaidFor, Paid_
<1>2. SharedSoFar'
  <2> SUFFICES ASSUME Despite({"two_rows", "late_edit"})'
               PROVE  /\ Shares_(order', packing'.plan, packing'.labels)
                      /\ sending'.pc = "posting" =>
                            Shares_(order', packing'.plan, sending'.todo)
                      /\ packing'.labels # <<>> \/ packing'.status \in {"executing", "created"}
                            => CanShare_(order', packing'.plan)
    BY DEF SharedSoFar
  <2>1. Despite({"two_rows", "late_edit"})
    BY DEF Despite
  <2>2. Shares_(order, packing.plan, <<>>)
    BY DEF Shares_
  <2> QED  BY <2>1, <2>2 DEF CashInv, SharedSoFar
<1> QED  BY <1>1, <1>2

LEMMA NothingPaid ==
    ASSUME CashInv, UNCHANGED <<order, packing, sending, edits, parcelFaults, parcelCauses>>,
           Cardinality(screen') <= 1, address' \in 1..2
    PROVE  CashInv'
<1>1. PackInv'
  BY NothingSent DEF CashInv
<1>2. PaidFor' /\ SharedSoFar'
  BY PaidAsBefore
<1>3. CashTyped'
  BY DEF CashInv, CashTyped
<1> QED  BY <1>1, <1>2, <1>3 DEF CashInv

LEMMA EditKeepsCash ==
    ASSUME CashInv, NEW d, IsEdit(d)
    PROVE  CashInv'
<1>1. PackInv'
  BY EditKeepsPack DEF CashInv
<1>2. /\ packing' = d /\ order' = order /\ sending' = sending /\ screen' = screen
      /\ address' = address /\ parcelFaults' = parcelFaults
      /\ edits < MaxEdits /\ edits' = edits + 1
      /\ parcelCauses' = parcelCauses
          \cup (IF TwoRows(d.plan) THEN {"two_rows"} ELSE {})
          \cup (IF sending.pc = "read" THEN {"late_edit"} ELSE {})
  BY DEF IsEdit, Edited
<1>3. /\ d = [plan |-> d.plan, operator |-> d.operator, service |-> d.service,
              phone |-> d.phone, labels |-> packing.labels, status |-> d.status]
      /\ \/ d.status = packing.status
         \/ /\ packing.status = "needs_review" /\ d.status = "pending"
            /\ order.courier = "inpost" => packing.phone
      /\ \/ d.plan = packing.plan /\ d.operator = packing.operator
         \/ /\ packing.labels = <<>> /\ packing.status \notin {"executing", "created"}
            /\ d.status = packing.status /\ d.plan \in Plan_ /\ d.operator = TRUE
      /\ d.phone = packing.phone \/ d.phone = TRUE
      /\ d.service = packing.service \/ d.service \in Service[order.courier]
  BY DEF IsEdit
<1>4. CashTyped
  BY DEF CashInv
<1>5. CashTyped'
  <2>1. d.status \in {"needs_review", "pending", "executing", "created", "error"}
    BY <1>3, <1>4 DEF CashTyped
  <2>2. d.phone \in BOOLEAN /\ d.operator \in BOOLEAN
    BY <1>3, <1>4 DEF CashTyped
  <2>3. d.service \in Service[order.courier]
    BY <1>3, <1>4 DEF CashTyped
  <2>4. order.courier = "inpost" /\ d.status # "needs_review" => d.phone
    BY <1>3, <1>4 DEF CashTyped
  <2>5. ~d.operator => d.plan = CalcPackages(order.lines)
    BY <1>3, <1>4 DEF CashTyped
  <2>6. edits' \in 0..MaxEdits
    BY <1>2, <1>4, ParcelShape DEF CashTyped
  <2>7. parcelCauses' \subseteq {"two_rows", "late_edit", "moved"}
    BY <1>2, <1>4 DEF CashTyped
  <2> QED  BY <1>2, <1>4, <2>1, <2>2, <2>3, <2>4, <2>5, <2>6, <2>7 DEF CashTyped
<1>6. PaidFor' /\ SharedSoFar'
  <2>1. CASE d.plan = packing.plan
    <3>1. d.status \in {"executing", "created"} => packing.status \in {"executing", "created"}
      BY <1>3
    <3>2. d.labels = packing.labels
      BY <1>3
    <3> QED  BY <1>2, <2>1, <3>1, <3>2, PaidAsBefore
  <2>2. CASE /\ packing.labels = <<>> /\ packing.status \notin {"executing", "created"}
             /\ d.status = packing.status
    <3>1. d.labels = <<>>
      BY <1>3, <2>2
    <3>2. sending.pc # "posting"
      BY <2>2 DEF CashInv, PackInv, PackShape
    <3>3. PaidFor'
      BY <1>2, <3>1 DEF CashInv, PaidFor, Paid_
    <3>4. Shares_(order, d.plan, <<>>)
      BY DEF Shares_
    <3>5. SharedSoFar'
      BY <1>2, <2>2, <3>1, <3>2, <3>4 DEF SharedSoFar
    <3> QED  BY <3>3, <3>5
  <2> QED  BY <1>3, <2>1, <2>2
<1> QED  BY <1>1, <1>5, <1>6 DEF CashInv

LEMMA CopyIsPaid ==
    ASSUME CashInv, NEW window, NEW shown, ReadDraft(window, shown)
    PROVE  CashInv'
<1>1. PICK draft, from, copy : /\ draft = packing /\ from = address
                               /\ copy = [packing |-> draft, window |-> window]
  OBVIOUS
<1>2. copy.packing = draft
  BY <1>1
<1>3. /\ order' = order /\ packing' = packing /\ parcelCauses' = parcelCauses
      /\ sending' = [pc |-> "read", draft |-> {copy}, todo |-> <<>>, from |-> from,
                     shown |-> shown]
      /\ UNCHANGED <<address, edits, parcelFaults>> /\ screen' = {}
  BY <1>1 DEF ReadDraft
<1>4. sending'.pc = "read" /\ sending'.draft = {copy} /\ sending'.todo = <<>>
  BY <1>3
<1>5. PackInv'
  BY DraftIsRead DEF CashInv
<1>6. PaidFor' /\ SharedSoFar'
  BY <1>3, <1>4, PaidAsBefore
<1>7. CashTyped'
  <2>1. Cardinality(screen') <= 1
    BY <1>3, FS_EmptySet
  <2> QED  BY <1>1, <1>2, <1>3, <1>4, <2>1 DEF CashInv, CashTyped
<1> QED  BY <1>5, <1>6, <1>7 DEF CashInv

LEMMA EndKeepsCash ==
    ASSUME CashInv, PackInv', NEW status \in {"error", "created"}, EndRun(status),
           UNCHANGED <<order, screen, address, edits>>,
           packing.status # "needs_review",
           status = "created" => packing.status = "executing",
           parcelFaults' \in 0..MaxParcelFaults,
           parcelCauses \subseteq parcelCauses',
           parcelCauses' \subseteq {"two_rows", "late_edit", "moved"}
    PROVE  CashInv'
<1>1. packing' = [plan |-> packing.plan, operator |-> packing.operator,
                  service |-> packing.service, phone |-> packing.phone,
                  labels |-> packing.labels, status |-> status]
  BY DEF CashInv, PackInv, PackShape, EndRun
<1>2. /\ packing'.plan = packing.plan /\ packing'.labels = packing.labels
      /\ packing'.operator = packing.operator /\ packing'.service = packing.service
      /\ packing'.phone = packing.phone /\ packing'.status = status
  BY <1>1
<1>3. sending' = [pc |-> "idle", draft |-> {}, todo |-> <<>>, from |-> 0, shown |-> {}]
  BY DEF EndRun, IdleRun
<1>4. sending'.pc = "idle" /\ sending'.draft = {} /\ sending'.todo = <<>>
  BY <1>3
<1>5. PaidFor' /\ SharedSoFar'
  BY <1>2, <1>4, PaidAsBefore
<1>6. CashTyped'
  BY <1>2, <1>4 DEF CashInv, CashTyped
<1> QED  BY <1>5, <1>6 DEF CashInv

LEMMA ClaimKeepsCash ==
    ASSUME CashInv, Claim
    PROVE  CashInv'
<1>0. PackInv'
  BY RunClaims DEF CashInv
<1>1. sending.pc = "read" /\ UNCHANGED <<order, screen, address, edits, parcelFaults>>
  BY DEF Claim
<1>2. CASE packing.status \notin {"pending", "error"}
  <2>1. packing' = packing /\ parcelCauses' = parcelCauses
        /\ sending' = [pc |-> "idle", draft |-> {}, todo |-> <<>>, from |-> 0, shown |-> {}]
    BY <1>2 DEF Claim, IdleRun
  <2>2. sending'.pc = "idle" /\ sending'.draft = {} /\ sending'.todo = <<>>
    BY <2>1
  <2>3. PaidFor' /\ SharedSoFar'
    BY <1>1, <2>1, <2>2, PaidAsBefore
  <2>4. CashTyped'
    BY <1>1, <2>1, <2>2 DEF CashInv, CashTyped
  <2> QED  BY <1>0, <2>3, <2>4 DEF CashInv
<1>3. CASE packing.status \in {"pending", "error"}
  <2>1. PICK d \in sending.draft :
           /\ parcelCauses' = parcelCauses \cup
                 (IF Sender # sending.from THEN {"moved"} ELSE {})
           /\ IF Refuses(d.packing, d.window) THEN EndRun("error")
              ELSE /\ packing' = [packing EXCEPT !.status = "executing"]
                   /\ sending' = [sending EXCEPT !.pc = "posting",
                                     !.todo = CallSpecs(d.packing, Sender)]
    BY <1>3 DEF Claim
  <2>2. /\ parcelCauses \subseteq parcelCauses'
        /\ parcelCauses' \subseteq {"two_rows", "late_edit", "moved"}
    BY <2>1 DEF CashInv, CashTyped
  <2>3. CASE Refuses(d.packing, d.window)
    <3>1. EndRun("error") /\ parcelFaults' \in 0..MaxParcelFaults
      BY <1>1, <2>1, <2>3 DEF CashInv, CashTyped
    <3> QED  BY <1>0, <1>1, <1>3, <2>2, <3>1, EndKeepsCash
  <2>4. CASE ~Refuses(d.packing, d.window)
    <3> DEFINE specs == CallSpecs(d.packing, Sender)
    <3>1. packing' = [plan |-> packing.plan, operator |-> packing.operator,
                      service |-> packing.service, phone |-> packing.phone,
                      labels |-> packing.labels, status |-> "executing"]
      BY <2>1, <2>4 DEF CashInv, PackInv, PackShape
    <3>2. /\ packing'.plan = packing.plan /\ packing'.labels = packing.labels
          /\ packing'.operator = packing.operator /\ packing'.service = packing.service
          /\ packing'.phone = packing.phone /\ packing'.status = "executing"
      BY <3>1
    <3>3. sending' = [pc |-> "posting", draft |-> sending.draft, todo |-> specs,
                      from |-> sending.from, shown |-> sending.shown]
      <4> HIDE DEF specs
      <4>1. sending' = [sending EXCEPT !.pc = "posting", !.todo = specs]
        BY <2>1, <2>4 DEF specs
      <4> QED  BY <4>1 DEF CashInv, PackInv, PackShape
    <3>4. /\ sending'.pc = "posting" /\ sending'.draft = sending.draft
          /\ sending'.todo = specs
      BY <3>3
    <3> DEFINE copy == d.packing
    <3>5. copy.plan \in Plan_ /\ copy.service \in Service[order.courier] /\ order \in Order
      BY DEF CashInv, PackInv, PackShape, CashTyped
    <3>6. /\ Paid_(order, specs)
          /\ ~TwoRows(copy.plan) => Shares_(order, copy.plan, specs)
          /\ CanShare_(order, copy.plan)
      <4>1. ~Refuses(copy, d.window)
        BY <2>4
      <4> HIDE DEF copy
      <4> QED  BY <3>5, <4>1, CallsArePaid DEF copy
    <3> HIDE DEF specs
    <3>7. PaidFor'
      BY <1>1, <3>2, <3>4, <3>6 DEF CashInv, PaidFor
    <3>8. SharedSoFar'
      <4> SUFFICES ASSUME Despite({"two_rows", "late_edit"})'
                   PROVE  /\ Shares_(order, packing.plan, packing.labels)
                          /\ Shares_(order, packing.plan, specs)
                          /\ CanShare_(order, packing.plan)
        BY <1>1, <3>2, <3>4 DEF SharedSoFar
      <4>1. Despite({"two_rows", "late_edit"})
        BY <2>2 DEF Despite
      <4>2. LabelsOfPlan /\ ReadAsItIs
        BY <1>1, <4>1 DEF CashInv, PackInv, SentSoFar
      <4>3. copy.plan = packing.plan /\ ~TwoRows(packing.plan)
        BY <4>2 DEF ReadAsItIs, LabelsOfPlan
      <4> QED  BY <3>6, <4>1, <4>3 DEF CashInv, SharedSoFar
    <3>9. CashTyped'
      BY <1>1, <1>3, <2>2, <3>2, <3>4 DEF CashInv, CashTyped
    <3> QED  BY <1>0, <3>7, <3>8, <3>9 DEF CashInv
  <2> QED  BY <2>3, <2>4
<1> QED  BY <1>2, <1>3

LEMMA PostKeepsCash ==
    ASSUME CashInv, Post
    PROVE  CashInv'
<1>0. PackInv'
  BY ParcelPosts DEF CashInv
<1>1. /\ sending.pc = "posting" /\ sending.todo # <<>> /\ packing.status = "executing"
      /\ UNCHANGED <<order, screen, address, edits, parcelFaults, parcelCauses>>
  BY DEF Post, CashInv, PackInv, PackShape
<1>2. CASE ~Complete(Head(sending.todo))
  <2>1. EndRun("error")
    BY <1>2 DEF Post
  <2>2. /\ parcelFaults' \in 0..MaxParcelFaults /\ parcelCauses \subseteq parcelCauses'
        /\ parcelCauses' \subseteq {"two_rows", "late_edit", "moved"}
    BY <1>1 DEF CashInv, CashTyped
  <2> QED  BY <1>0, <1>1, <2>1, <2>2, EndKeepsCash
<1>3. CASE Complete(Head(sending.todo))
  <2> DEFINE todo == sending.todo
             labels == packing.labels
             n == Len(labels) + 1
  <2>1. IsList(todo) /\ IsList(labels)
    BY DEF CashInv, PackInv, PackShape
  <2>2. /\ DOMAIN todo = 1..Len(todo) /\ Len(todo) \in Nat \ {0}
        /\ DOMAIN Tail(todo) = 1..(Len(todo) - 1) /\ Head(todo) = todo[1]
        /\ \A i \in DOMAIN Tail(todo) : Tail(todo)[i] = todo[i + 1]
    BY <1>1, <2>1, Tailed
  <2> DEFINE new == Append(labels, todo[1])
             rest == Tail(todo)
  <2>3. /\ Len(labels) \in Nat /\ DOMAIN labels = 1..Len(labels)
        /\ DOMAIN new = 1..n /\ \A i \in 1..Len(labels) : new[i] = labels[i]
        /\ new[n] = todo[1]
    BY <2>1, Appended
  <2>4. /\ packing' = [plan |-> packing.plan, operator |-> packing.operator,
                       service |-> packing.service, phone |-> packing.phone,
                       labels |-> new, status |-> packing.status]
        /\ sending' = [pc |-> "posting", draft |-> sending.draft, todo |-> rest,
                       from |-> sending.from, shown |-> sending.shown]
    <3>1. /\ packing' = [packing EXCEPT !.labels = new]
          /\ sending' = [sending EXCEPT !.todo = rest]
      BY <1>3, <2>2 DEF Post
    <3> HIDE DEF new, rest
    <3> QED  BY <1>1, <3>1 DEF CashInv, PackInv, PackShape
  <2>5. \A i \in DOMAIN new : \/ i \in DOMAIN labels /\ new[i] = labels[i]
                              \/ 1 \in DOMAIN todo /\ new[i] = todo[1]
    <3>1. 1 \in DOMAIN todo /\ \A i \in 1..n : i \in 1..Len(labels) \/ i = n
      BY <2>2, <2>3
    <3> HIDE DEF new
    <3> QED  BY <2>3, <3>1
  <2>6. \A i \in DOMAIN rest : i + 1 \in DOMAIN todo /\ rest[i] = todo[i + 1]
    BY <2>2
  <2> HIDE DEF new, rest, todo, labels, n
  <2>7. /\ packing'.plan = packing.plan /\ packing'.labels = new
        /\ packing'.operator = packing.operator /\ packing'.service = packing.service
        /\ packing'.phone = packing.phone /\ packing'.status = packing.status
        /\ sending'.pc = "posting" /\ sending'.draft = sending.draft
        /\ sending'.todo = rest
    BY <2>4
  <2>8. PaidFor'
    <3>1. Paid_(order, labels) /\ Paid_(order, todo)
      BY DEF CashInv, PaidFor, labels, todo
    <3>2. Paid_(order, new)
      BY <2>5, <3>1 DEF Paid_
    <3>3. Paid_(order, rest)
      BY <2>6, <3>1 DEF Paid_
    <3> QED  BY <1>1, <2>7, <3>2, <3>3 DEF PaidFor
  <2>9. SharedSoFar'
    <3> SUFFICES ASSUME Despite({"two_rows", "late_edit"})
                 PROVE  /\ Shares_(order, packing.plan, new)
                        /\ Shares_(order, packing.plan, rest)
                        /\ CanShare_(order, packing.plan)
      BY <1>1, <2>7 DEF SharedSoFar, Despite
    <3>1. /\ Shares_(order, packing.plan, labels) /\ Shares_(order, packing.plan, todo)
          /\ CanShare_(order, packing.plan)
      BY <1>1 DEF CashInv, SharedSoFar, labels, todo
    <3>2. Shares_(order, packing.plan, new)
      BY <2>5, <3>1 DEF Shares_
    <3>3. Shares_(order, packing.plan, rest)
      BY <2>6, <3>1 DEF Shares_
    <3> QED  BY <3>1, <3>2, <3>3
  <2>10. CashTyped'
    BY <1>1, <2>7 DEF CashInv, CashTyped
  <2> QED  BY <1>0, <2>8, <2>9, <2>10 DEF CashInv
<1> QED  BY <1>2, <1>3

LEMMA CashStep ==
    ASSUME CashInv, [ParcelNext]_parcelVars
    PROVE  CashInv'
<1>0. PackInv'
  BY ParcelStep DEF CashInv
<1>1. CASE \/ \E rows \in EditPlan : Repack(rows)
           \/ \E s \in {"locker", "courier", "door", "point", "unlisted"} : ChooseService(s)
           \/ GivePhone \/ Review
  <2>1. PICK d : IsEdit(d)
    BY <1>1, OperatorEdits DEF CashInv, PackInv
  <2> QED  BY <2>1, EditKeepsCash
<1>2. ASSUME NEW w, Show(w) PROVE CashInv'
  <2> DEFINE view == [draft |-> packing, window |-> w, payloads |-> Preview(packing, w)]
  <2>1. screen' = {view}
    BY <1>2 DEF Show
  <2> HIDE DEF view
  <2>2. Cardinality(screen') <= 1
    BY <2>1, FS_Singleton
  <2>3. /\ UNCHANGED <<order, packing, sending, edits, parcelFaults, parcelCauses>>
        /\ address' \in 1..2
    BY <1>2 DEF Show, CashInv, CashTyped
  <2> QED  BY <2>2, <2>3, NothingPaid
<1>3. ASSUME NEW w, NEW v, ReadDraft(w, v) PROVE CashInv'
  BY <1>3, CopyIsPaid
<1>4. CASE Claim
  BY <1>4, ClaimKeepsCash
<1>5. CASE Post
  BY <1>5, PostKeepsCash
<1>6. CASE PostFails
  <2>1. /\ packing.status = "executing" /\ EndRun("error")
        /\ UNCHANGED <<order, screen, address, edits, parcelCauses>>
        /\ parcelCauses' \subseteq {"two_rows", "late_edit", "moved"}
    BY <1>6 DEF PostFails, CashInv, CashTyped, PackInv, PackShape
  <2>2. parcelFaults' \in 0..MaxParcelFaults
    BY <1>6, ParcelShape DEF PostFails, CashInv, CashTyped
  <2> QED  BY <1>0, <2>1, <2>2, EndKeepsCash
<1>7. CASE Done
  <2>1. /\ packing.status = "executing" /\ EndRun("created")
        /\ UNCHANGED <<order, screen, address, edits, parcelFaults, parcelCauses>>
        /\ parcelCauses' \subseteq {"two_rows", "late_edit", "moved"}
        /\ parcelFaults' \in 0..MaxParcelFaults
    BY <1>7 DEF Done, CashInv, CashTyped, PackInv, PackShape
  <2> QED  BY <1>0, <2>1, EndKeepsCash
<1>8. CASE Move
  <2>1. /\ UNCHANGED <<order, packing, screen, sending, edits, parcelFaults, parcelCauses>>
        /\ address' \in 1..2 /\ Cardinality(screen') <= 1
    BY <1>8 DEF Move, CashInv, CashTyped
  <2> QED  BY <2>1, NothingPaid
<1>9. CASE UNCHANGED parcelVars
  <2>1. /\ UNCHANGED <<order, packing, screen, sending, edits, parcelFaults, parcelCauses>>
        /\ address' \in 1..2 /\ Cardinality(screen') <= 1
    BY <1>9 DEF parcelVars, CashInv, CashTyped
  <2> QED  BY <2>1, NothingPaid
<1> QED  BY <1>1, <1>2, <1>3, <1>4, <1>5, <1>6, <1>7, <1>8, <1>9 DEF ParcelNext

\* A sum over some of the places, and over one more.
Part_(s, n, S) == [p \in 1..n |-> IF p \in S THEN s[p] ELSE 0]

\* a place not among the ones summed
NotYet_(j, S) == j \notin S

LEMMA PartGrows ==
    ASSUME NEW n \in Nat, NEW s \in [1..n -> Int], NEW S, NEW j \in 1..n, NotYet_(j, S)
    PROVE  Sum(Part_(s, n, S \cup {j})) = Sum(Part_(s, n, S)) + s[j]
<1>1. PICK v, a, b, c : /\ v = s[j] /\ a = Part_(s, n, S) /\ c = Part_(s, n, S \cup {j})
                        /\ b = [p \in 1..n |-> IF p = j THEN s[j] ELSE 0]
  OBVIOUS
<1>2. v \in Int /\ a \in [1..n -> Int] /\ b \in [1..n -> Int] /\ c \in [1..n -> Int]
  BY <1>1 DEF Part_
<1>3. \A p \in 1..n : b[p] = IF p = j THEN v ELSE 0
  BY <1>1
<1>4. \A p \in 1..n : c[p] = a[p] + b[p]
  <2> TAKE p \in 1..n
  <2>1. s[p] \in Int
    OBVIOUS
  <2>2. CASE p = j
    BY <1>1, <2>1, <2>2 DEF Part_, NotYet_
  <2>3. CASE p # j
    BY <1>1, <2>1, <2>3 DEF Part_
  <2> QED  BY <2>2, <2>3
<1>5. Sum(b) = v
  BY <1>2, <1>3, SumOfOne
<1>6. Sum(c) = Sum(a) + Sum(b)
  BY <1>2, <1>4, SumPlus
<1> QED  BY <1>1, <1>5, <1>6

\* A sum in another order: every member once.
Rearranged_(f, m, t, n, s) ==
    /\ f \in [1..m -> 1..n] /\ \A i, j \in 1..m : f[i] = f[j] => i = j
    /\ \A p \in 1..n : \E i \in 1..m : f[i] = p
    /\ \A i \in 1..m : t[i] = s[f[i]]

LEMMA SumRearranged ==
    ASSUME NEW m \in Nat, NEW n \in Nat, NEW s \in [1..n -> Int], NEW f,
           NEW t \in [1..m -> Int], Rearranged_(f, m, t, n, s)
    PROVE  Sum(t) = Sum(s)
<1>0. ASSUME NEW S, NEW j \in 1..n, NotYet_(j, S)
      PROVE  Sum(Part_(s, n, S \cup {j})) = Sum(Part_(s, n, S)) + s[j]
  BY <1>0, PartGrows, SMTT(30)
<1>1. PICK g \in [0..m -> Int] : /\ g[0] = 0 /\ \A k \in 1..m : g[k] = g[k - 1] + t[k]
                               /\ Sum(t) = g[m]
  BY SumOfList
<1> DEFINE Before(k) == {f[i] : i \in 1..k}
           T == {k \in 0..m : Sum(Part_(s, n, Before(k))) = g[k]}
<1>2. 0 \in T
  <2> DEFINE none == Part_(s, n, Before(0))
  <2>1. none \in [1..n -> Int] /\ \A p \in 1..n : none[p] = 0
    BY DEF Part_
  <2>2. 0 \in Int /\ n * 0 = 0
    OBVIOUS
  <2> HIDE DEF none
  <2>3. Sum(none) = n * 0
    BY <2>1, <2>2, SumOfEqual
  <2> QED  BY <1>1, <2>2, <2>3 DEF none
<1>3. ASSUME NEW k \in 1..m, k - 1 \in T PROVE k \in T
  <2> DEFINE taken == Before(k - 1)
             j == f[k]
  <2>1. \A i \in 1..k : i \in 1..(k - 1) \/ i = k
    OBVIOUS
  <2>2. \A i \in 1..(k - 1) : i \in 1..k /\ i \in 1..m /\ i # k
    OBVIOUS
  <2>3. j \in 1..n /\ j \notin taken /\ t[k] = s[j]
    <3>1. j \in 1..n /\ t[k] = s[j]
      BY DEF Rearranged_
    <3>2. j \notin taken
      BY <2>2 DEF Rearranged_
    <3> QED  BY <3>1, <3>2
  <2>4. Before(k) = taken \cup {j}
    <3>1. j \in Before(k)
      <4>1. k \in 1..k
        OBVIOUS
      <4> QED  BY <4>1
    <3>2. taken \subseteq Before(k)
      BY <2>2
    <3>3. Before(k) \subseteq taken \cup {j}
      BY <2>1
    <3> HIDE DEF Before, taken, j
    <3> QED  BY <3>1, <3>2, <3>3
  <2>5. Sum(Part_(s, n, taken)) = g[k - 1] /\ g[k] = g[k - 1] + t[k]
    BY <1>1, <1>3
  <2>6. Sum(Part_(s, n, Before(k))) = g[k] => k \in T
    OBVIOUS
  <2> HIDE DEF taken, j, T, Before
  <2>7. Sum(Part_(s, n, taken \cup {j})) = Sum(Part_(s, n, taken)) + s[j]
    <3>1. j \in 1..n /\ NotYet_(j, taken)
      BY <2>3 DEF NotYet_
    <3> QED  BY <1>0, <3>1
  <2> QED  BY <2>3, <2>4, <2>5, <2>6, <2>7
<1> HIDE DEF T
<1>4. \A k \in 0..m : k \in T
  BY <1>2, <1>3, Stepwise
<1>5. Sum(Part_(s, n, Before(m))) = g[m]
  <2>1. m \in T
    BY <1>4
  <2> QED  BY <2>1 DEF T
<1>6. Part_(s, n, Before(m)) = s
  <2>1. \A p \in 1..n : p \in Before(m)
    BY DEF Rearranged_
  <2> QED  BY <2>1 DEF Part_
<1> QED  BY <1>1, <1>5, <1>6

LEMMA InsuredEnough ==
    ASSUME NEW cod \in Nat
    PROVE  InsuranceOf(cod) - cod \in 0..99
<1> DEFINE q == (cod + 99) \div 100
           r == (cod + 99) % 100
<1>1. q \in Nat /\ r \in 0..99 /\ cod + 99 = 100 * q + r
  OBVIOUS
<1> HIDE DEF q, r
<1>2. q * 100 - cod = 99 - r
  BY <1>1
<1> QED  BY <1>1, <1>2 DEF InsuranceOf, q

\* The labels of a created draft collect the parts of the cash, one each.
LEMMA CashIsCollected ==
    ASSUME CashInv, packing.status = "created", Despite({"two_rows", "late_edit"})
    PROVE  Sum([l \in DOMAIN packing.labels |-> packing.labels[l].payload.money.cod])
              = Cod(order)
<1> DEFINE labels == packing.labels
           parcels == PhysicalParcels(packing.plan)
           m == Len(labels)
           n == Len(parcels)
           parts == Parts_(order, packing.plan)
           cash == [l \in DOMAIN labels |-> labels[l].payload.money.cod]
           f == [l \in 1..m |-> CHOOSE p \in 1..n : labels[l].parcel = parcels[p]]
<1>1. /\ order \in Order /\ packing.plan \in Plan_ /\ IsList(labels)
      /\ ~TwoRows(packing.plan) /\ Once_(labels) /\ AllSent
      /\ Shares_(order, packing.plan, labels) /\ CanShare_(order, packing.plan)
      /\ Paid_(order, labels)
  BY DEF CashInv, PackInv, PackShape, SentSoFar, LabelsOfPlan, SharedSoFar, PaidFor
<1>2. m \in Nat /\ DOMAIN labels = 1..m
  BY <1>1, ListOf DEF IsList
<1>3. n \in Nat /\ DOMAIN parcels = 1..n
      /\ \A p, q \in 1..n : parcels[p] = parcels[q] => p = q
  BY <1>1, ParcelsOfPlan
<1>4. parts \in [1..n -> Nat] /\ Sum(parts) = Cod(order)
  BY <1>1, PartsOfOrder
<1>5. {labels[l].parcel : l \in 1..m} = {parcels[p] : p \in 1..n}
  BY <1>1, <1>2, <1>3 DEF AllSent, ParcelsIn, Parcels_
<1>6. /\ \A l \in 1..m : \A p \in 1..n :
           labels[l].parcel = parcels[p] => cash[l] = parts[p]
      /\ \A l \in 1..m : cash[l] \in Nat
      /\ \A k, l \in 1..m : labels[k].parcel = labels[l].parcel => k = l
      /\ DOMAIN cash = 1..m /\ cash = [l \in 1..m |-> cash[l]]
  BY <1>1, <1>2, <1>3 DEF Shares_, Paid_, Once_
<1> HIDE DEF labels, parcels, m, n, parts, cash
<1>7. \A l \in 1..m : f[l] \in 1..n /\ labels[l].parcel = parcels[f[l]]
  <2> TAKE l \in 1..m
  <2>1. \E p \in 1..n : labels[l].parcel = parcels[p]
    BY <1>5
  <2> QED  BY <2>1
<1>8. f \in [1..m -> 1..n]
  <2>1. f = [l \in 1..m |-> f[l]]
    OBVIOUS
  <2> HIDE DEF f
  <2> QED  BY <1>7, <2>1
<1> HIDE DEF f
<1>9. \A i, j \in 1..m : f[i] = f[j] => i = j
  BY <1>6, <1>7
<1>10. \A p \in 1..n : \E i \in 1..m : f[i] = p
  <2> TAKE p \in 1..n
  <2>1. PICK i \in 1..m : labels[i].parcel = parcels[p]
    BY <1>5
  <2> QED  BY <1>3, <1>7, <2>1
<1>11. cash \in [1..m -> Int] /\ parts \in [1..n -> Int] /\ \A i \in 1..m : cash[i] = parts[f[i]]
  BY <1>4, <1>6, <1>7
<1>12. Rearranged_(f, m, cash, n, parts)
  BY <1>8, <1>9, <1>10, <1>11 DEF Rearranged_
<1>13. Sum(cash) = Sum(parts)
  BY <1>2, <1>3, <1>11, <1>12, SumRearranged
<1> QED  BY <1>4, <1>13 DEF cash, labels

LEMMA CashIsEnough ==
    ASSUME CashInv
    PROVE  ShippedAsPlanned
<1>1. order \in Order /\ packing.plan \in Plan_ /\ CashTyped /\ PaidFor
  BY DEF CashInv, PackInv, PackShape
<1>2. ParcelTypeOK
  <2>1. \A r \in DOMAIN packing.plan : packing.plan[r].type \in ParcelType
    <3>1. /\ DOMAIN packing.plan = 1..Len(packing.plan)
          /\ \A r \in 1..Len(packing.plan) : packing.plan[r] \in [type : ParcelType, qty : Int]
      BY <1>1, LenProperties, ElementOfSeq DEF Plan_
    <3> QED  BY <3>1
  <2>2. \A l \in DOMAIN packing.labels : packing.labels[l].payload.money.cod \in Nat
    BY <1>1 DEF PaidFor, Paid_
  <2> QED  BY <1>1, <2>1, <2>2 DEF CashTyped, ParcelTypeOK
<1>3. PlanHoldsOrder
  <2> SUFFICES ASSUME ~packing.operator
               PROVE  /\ Held_(packing.plan, FALSE) = Goods(order.lines, FALSE)
                      /\ Held_(packing.plan, TRUE) - Goods(order.lines, TRUE) \in 0..1
                      /\ Wrapped_(packing.plan) <= (Goods(order.lines, FALSE) + 5) \div 6 + 1
                                                      + (Goods(order.lines, TRUE) + 1) \div 2
                      /\ FitWarnings(packing.plan, "inpost") = {}
    BY DEF PlanHoldsOrder, Held_, Wrapped_
  <2>1. packing.plan = CalcPackages(order.lines)
    BY <1>1 DEF CashTyped
  <2>2. LET plan == CalcPackages(order.lines)
        IN /\ Held_(plan, FALSE) = Goods(order.lines, FALSE)
           /\ Held_(plan, TRUE) - Goods(order.lines, TRUE) \in 0..1
           /\ Wrapped_(plan) <= (Goods(order.lines, FALSE) + 5) \div 6 + 1
                                   + (Goods(order.lines, TRUE) + 1) \div 2
    BY <1>1, PlanIsEnough
  <2>3. FitWarnings(packing.plan, "inpost") = {}
    BY <1>1, BoxesFit
  <2> QED  BY <2>1, <2>2, <2>3
<1>4. SentAsReviewed
  BY PackIsEnough DEF CashInv
<1>5. CollectsTheTotal
  BY CashIsCollected, ZenonT(30) DEF CollectsTheTotal
<1>6. InsuredForCod
  <2> SUFFICES ASSUME NEW l \in DOMAIN packing.labels
               PROVE  packing.labels[l].payload.money.insured
                         - packing.labels[l].payload.money.cod \in 0..99
    BY Zenon DEF InsuredForCod
  <2> DEFINE money == packing.labels[l].payload.money
  <2>1. money.cod \in Nat /\ money.insured = InsuranceOf(money.cod)
    BY <1>1 DEF PaidFor, Paid_
  <2> HIDE DEF money
  <2>2. InsuranceOf(money.cod) - money.cod \in 0..99
    BY <2>1, InsuredEnough
  <2> QED  BY <2>1, <2>2, ZenonT(60) DEF money
<1>7. FairShares
  BY <1>1, SharesAreFair
<1>8. LockerCollectsOnce
  BY <1>1 DEF LockerCollectsOnce, PaidFor, Paid_
<1> QED  BY <1>2, <1>3, <1>4, <1>5, <1>6, <1>7, <1>8 DEF ShippedAsPlanned

(***************************************************************************)
(* The parcels sent are the order: its plan holds all of its goods, a      *)
(* draft that is created has collected its cash to the grosz, in fair      *)
(* shares and insured, a locker never collects for one of several parcels, *)
(* and what is sent is what was reviewed, over failed and resumed runs and *)
(* the edits between them (workflow.py:184, cod.py:81, planning.py:73).    *)
(***************************************************************************)
THEOREM ShippedAsPlannedHolds == PackingSpec => []ShippedAsPlanned
<1>1. ParcelInit => CashInv
  BY CashStarts
<1>2. CashInv /\ [ParcelNext]_parcelVars => CashInv'
  BY CashStep
<1>3. CashInv => ShippedAsPlanned
  BY CashIsEnough
<1> QED  BY <1>1, <1>2, <1>3, PTL DEF PackingSpec
=============================================================================
