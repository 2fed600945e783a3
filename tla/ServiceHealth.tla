----------------------------- MODULE ServiceHealth -----------------------------
(***************************************************************************)
(* The API process and what it says of the services it depends on: the     *)
(* guards of its start (api/main.py, common/appenv.py,                     *)
(* common/provider_safety.py) and the health report of                     *)
(* api/routers/integrations.py, which reads one integration after another  *)
(* while they fail, answer again, and the vault's cached secrets lapse.    *)
(* External: the services themselves.                                      *)
(***************************************************************************)
EXTENDS Integers, FiniteSets, Sequences

CONSTANTS
    Setting,           \* the environments the process is started in
    MaxHealthFaults,   \* bound on changes of the services
    MaxReports         \* bound on health requests

ASSUME HealthAssumption ==
    /\ MaxHealthFaults \in Nat /\ MaxReports \in Nat
    /\ \A s \in Setting : {"app", "legacy", "authOff", "vault", "tenant", "backend",
                           "domains", "fakOff", "mode", "urls", "source"} \subseteq DOMAIN s

VARIABLES
    setting,      \* the environment variables of this process
    process,      \* "down", "up" or "refused"
    services,     \* [down, token, queue]: what fails now, the cached access
                  \* token of Allegro, the entries of the dead-letter queue
    kept,         \* providers whose secrets are in the vault's cache
    healthReport, \* [live, at, items]: the request in progress or the last one
    healthFaults,
    reports

healthVars == <<setting, process, services, kept, healthReport, healthFaults, reports>>

Provider_ == {"fakturownia", "allegro", "inpost", "apaczka"}
Integration == <<"auth", "storage", "table_storage", "keyvault", "shopify",
                 "fakturownia", "allegro", "inpost", "apaczka", "dlq_retry">>
ItemCount == Len(Integration)
Item == 1..ItemCount
HealthStatus == {"healthy", "degraded", "unavailable", "not_configured"}
NotAsked == [status |-> "unread", worked |-> FALSE]

(***************************************************************************)
(* The start.                                                              *)
(***************************************************************************)

Named(raw) ==
    CASE raw \in {"production", "prod", "live"} -> "production"
      [] raw \in {"staging", "stage"} -> "staging"
      [] raw \in {"development", "dev", "local", "sandbox"} -> "development"
      [] OTHER -> "unknown"

AppEnv(s) ==
    IF s.app # "" THEN Named(s.app) ELSE IF s.legacy # "" THEN Named(s.legacy) ELSE "unset"

WritesAreSafe(s) == AppEnv(s) = "staging" => s.mode = "fake" /\ s.urls = "fake"

RefusesStart(s) ==
    \/ AppEnv(s) = "unknown"
    \/ s.authOff /\ AppEnv(s) = "production"
    \/ s.authOff /\ s.vault /\ AppEnv(s) # "development"
    \/ ~WritesAreSafe(s)
    \/ s.vault /\ ~s.authOff /\ "vault" \in services.down

Start ==
    /\ process \in {"down", "refused"}
    /\ process' = IF RefusesStart(setting) THEN "refused" ELSE "up"
    /\ UNCHANGED <<setting, services, kept, healthReport, healthFaults, reports>>

(***************************************************************************)
(* Secrets, as the application resolves them: the environment, the local   *)
(* encrypted file, then the vault and its cache.                           *)
(***************************************************************************)

FromVault(p) ==
    /\ setting.vault /\ setting.source[p] = "vault"
    /\ p \in kept \/ "vault" \notin services.down

Resolves(p) == setting.source[p] \in {"env", "file"} \/ FromVault(p)

Works(p) == Resolves(p) /\ p \notin services.down

(***************************************************************************)
(* The items.  A live check makes one read-only call with credentials.     *)
(***************************************************************************)

Checked(p, live, called) ==
    IF ~Resolves(p) THEN "not_configured"
    ELSE IF live /\ ~(called /\ p \notin services.down) THEN "unavailable" ELSE "healthy"

AuthItem ==
    IF setting.authOff THEN "degraded"
    ELSE IF ~setting.tenant THEN "unavailable" ELSE "healthy"

\* mutant: a storage that cannot be listed is only degraded by its backend
StorageItemUnread(live) ==
    IF setting.backend = "local-filesystem" THEN "degraded" ELSE "healthy"

StorageItem(live) ==
    IF live /\ "storage" \in services.down THEN "unavailable"
    ELSE IF setting.backend = "local-filesystem" THEN "degraded" ELSE "healthy"

TableStorageItem(live) ==
    IF live /\ "table" \in services.down THEN "unavailable"
    ELSE IF setting.backend = "local-filesystem" THEN "degraded" ELSE "healthy"

\* get_secret(required=False) never raises: the vault's own failure is not seen.
KeyVaultItem == IF setting.vault THEN "healthy" ELSE "not_configured"

ShopifyItem ==
    IF setting.domains THEN "healthy"
    ELSE IF AppEnv(setting) = "production" THEN "unavailable" ELSE "degraded"

FakturowniaItem(live) ==
    IF setting.fakOff THEN "not_configured" ELSE Checked("fakturownia", live, TRUE)

AllegroItem(live) ==
    IF live /\ Resolves("allegro") /\ services.token \in {"none", "expired"} THEN "degraded"
    ELSE Checked("allegro", live, services.token = "good")

InPostItem(live) == Checked("inpost", live, setting.source["inpost"] = "env")

ApaczkaItem(live) == Checked("apaczka", live, setting.source["apaczka"] = "env")

QueueItem ==
    IF "table" \in services.down THEN "unavailable"
    ELSE IF services.queue > 0 THEN "degraded" ELSE "healthy"

ItemStatus(i, live) ==
    CASE i = "auth" -> AuthItem
      [] i = "storage" -> StorageItem(live)
      [] i = "table_storage" -> TableStorageItem(live)
      [] i = "keyvault" -> KeyVaultItem
      [] i = "shopify" -> ShopifyItem
      [] i = "fakturownia" -> FakturowniaItem(live)
      [] i = "allegro" -> AllegroItem(live)
      [] i = "inpost" -> InPostItem(live)
      [] i = "apaczka" -> ApaczkaItem(live)
      [] i = "dlq_retry" -> QueueItem

\* Whether the integration would have served the application at that moment.
Served(i) ==
    CASE i \in Provider_ -> Works(i)
      [] i = "storage" -> "storage" \notin services.down
      [] i \in {"table_storage", "dlq_retry"} -> "table" \notin services.down
      [] OTHER -> TRUE

MayRead(roles) == roles \cap {"admin", "accountant", "viewer"} # {}

AskHealth ==
    /\ process = "up" /\ healthReport.at = 0 /\ reports < MaxReports
    /\ \E role \in {"admin", "viewer", "shipment-mgr"}, live \in BOOLEAN :
           LET roles == IF setting.authOff THEN {"admin"} ELSE {role}
           IN  /\ MayRead(roles)
               /\ live => "admin" \in roles
               /\ healthReport' = [live |-> live, at |-> 1,
                                   items |-> [i \in Item |-> NotAsked]]
    /\ reports' = reports + 1
    /\ UNCHANGED <<setting, process, services, kept, healthFaults>>

\* Looking a provider's secret up in the vault caches what it finds, under the
\* name it was asked for: the vault item spells all but one differently.
CheckItem ==
    /\ process = "up" /\ healthReport.at > 0
    /\ LET i == Integration[healthReport.at]
           lookedUp == CASE i = "keyvault" -> IF healthReport.live THEN {"fakturownia"} ELSE {}
                         [] i = "fakturownia" -> IF setting.fakOff THEN {} ELSE {i}
                         [] i \in Provider_ -> {i}
                         [] OTHER -> {}
       IN  /\ healthReport' =
                  [healthReport EXCEPT
                       !.at = (@ + 1) % (ItemCount + 1),
                       !.items[healthReport.at] =
                           [status |-> ItemStatus(i, healthReport.live), worked |-> Served(i)]]
           /\ kept' = kept \cup {p \in lookedUp : FromVault(p)}
    /\ UNCHANGED <<setting, process, services, healthFaults, reports>>

(***************************************************************************)
(* External: services fail and come back, the cached token ages, the queue *)
(* fills, the vault's cache lapses, the process dies.                      *)
(***************************************************************************)

ServiceChanges ==
    /\ healthFaults < MaxHealthFaults
    /\ \/ \E s \in {"storage", "table", "vault"} \cup Provider_ :
              services' = [services EXCEPT !.down = IF s \in @ THEN @ \ {s} ELSE @ \cup {s}]
       \/ \E t \in {"good", "expired", "rejected"} \ {services.token} :
              services' = [services EXCEPT !.token = t]
       \/ services' = [services EXCEPT !.queue = 1 - @]
    /\ healthFaults' = healthFaults + 1
    /\ UNCHANGED <<setting, process, kept, healthReport, reports>>

CacheLapses ==
    /\ kept # {} /\ kept' = {}
    /\ UNCHANGED <<setting, process, services, healthReport, healthFaults, reports>>

ProcessDies ==
    /\ process = "up" /\ healthFaults < MaxHealthFaults
    /\ process' = "down" /\ kept' = {} /\ healthReport' = [healthReport EXCEPT !.at = 0]
    /\ healthFaults' = healthFaults + 1
    /\ UNCHANGED <<setting, services, reports>>

HealthInit ==
    /\ setting \in Setting
    /\ process = "down" /\ services = [down |-> {}, token |-> "none", queue |-> 0]
    /\ kept = {}
    /\ healthReport = [live |-> FALSE, at |-> 0,
                       items |-> [i \in Item |-> NotAsked]]
    /\ healthFaults = 0 /\ reports = 0

HealthNext == Start \/ AskHealth \/ CheckItem \/ ServiceChanges \/ CacheLapses \/ ProcessDies

HealthSpec == HealthInit /\ [][HealthNext]_healthVars

-----------------------------------------------------------------------------

\* Every item of a report has one of the four declared statuses, the items
\* read so far are a prefix of the list, and the vault's cache holds only what
\* the vault supplied (integrations.py:23, _keyvault.py:29).
HealthTypeOK ==
    /\ process \in {"down", "up", "refused"}
    /\ healthReport.at \in 0..ItemCount
    /\ \A i \in Item :
           LET s == healthReport.items[i].status
           IN  /\ s \in HealthStatus \cup {"unread"}
               /\ healthReport.at > 0 => (s # "unread" <=> i < healthReport.at)
    /\ kept \subseteq {p \in Provider_ : setting.source[p] = "vault"}

\* A provider or a storage a live report calls healthy served the application
\* at the moment it was read, whatever fails between two items
\* (integrations.py:356, :224).
HealthyHasServed ==
    \A i \in Item :
        LET r == healthReport.items[i]
        IN  healthReport.live /\ r.status = "healthy" => r.worked

\* A provider the report calls unavailable really failed the application, as
\* the promise that the dashboard and the application cannot disagree has it
\* (integrations.py:80): a token refused by Allegro aside, and InPost and
\* Apaczka aside when their credentials are not in the environment, the only
\* place their live checks read.
UnavailableHasFailed ==
    \A i \in Item :
        LET r == healthReport.items[i]
            p == Integration[i]
        IN  p \in Provider_ /\ r.status = "unavailable" /\ r.worked =>
                \/ p = "allegro"
                \/ p \in {"inpost", "apaczka"} /\ setting.source[p] # "env"

\* A process that serves requests checks tokens wherever it is production or a
\* deployment of unknown purpose, and writes to no live provider from staging,
\* however its legacy variables are set (main.py:87, provider_safety.py:3).
ServesSafely ==
    process = "up" =>
        /\ setting.authOff =>
               /\ setting.app \notin {"production", "prod", "live"}
               /\ setting.vault => setting.app = "" \/ Named(setting.app) = "development"
        /\ setting.app \in {"staging", "stage"} => setting.mode = "fake" /\ setting.urls = "fake"

(***************************************************************************)
(* What the API says of its services is what its own calls met, and it     *)
(* serves only under the guards of its start (integrations.py:80,          *)
(* main.py:97).                                                            *)
(***************************************************************************)
HealthIsTrue == HealthTypeOK /\ HealthyHasServed /\ UnavailableHasFailed /\ ServesSafely
=============================================================================
