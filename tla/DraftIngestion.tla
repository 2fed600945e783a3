---------------------------- MODULE DraftIngestion ----------------------------
(***************************************************************************)
(* How one order of a source becomes a shipping draft: the Shopify webhook *)
(* with its table of seen deliveries, the operator's sync, the Allegro     *)
(* poller and the retry of failed creations, all writing the draft table   *)
(* while an operator has drafts executed.                                  *)
(*                                                                         *)
(* Webhooks, syncs and poll cycles run concurrently.  One action is one    *)
(* call to a table or to a source.  Of a cycle over many orders only the   *)
(* part about this order is modelled: the code handles orders one by one   *)
(* and an error in one does not stop the others.  Executing a draft is the *)
(* subject of ShippingExecution; here it is three actions.                 *)
(***************************************************************************)
EXTENDS DraftRecord, Sequences, FiniteSetsExt, Functions

CONSTANTS
    Process,    \* requests and poll cycles that may be in progress at a time
    WebhookId,  \* delivery ids the source may use for this order
    Histories,  \* what may become of an order: sequences of its versions
    MaxIds,     \* bound: drafts of the order that are stored or executed
    MaxRuns,    \* bound: drafts of the order that are executed
    MaxOps,     \* bound: deliveries, retries, syncs and polls of the order
    MaxFaults   \* bound: calls that fail and processes that are killed

ASSUME HistoriesAssumption ==
    /\ 1 \in DOMAIN Histories
    /\ \A k \in DOMAIN Histories : Histories[k] \in Seq(Order) \ {<< >>}
ASSUME IngestionBounds ==
    MaxIds \in Nat /\ MaxRuns \in 0..(MaxIds - 1) /\ MaxOps \in Nat /\ MaxFaults \in Nat

Id == 1..MaxIds

(***************************************************************************)
(* What excuses a broken promise, recorded when it occurs.                 *)
(***************************************************************************)
Cause == {"concurrent_creation", \* two creations looked before either wrote
          "cleanup_failed",      \* duplicates were not found or not deleted
          "replaced",            \* a draft being or been executed was deleted
          "overwritten",         \* a sync wrote over what it had not read
          "expiry_race",         \* deliveries met one expired mark
          "unmarked",            \* a mark was stored, its delivery refused
          "half_written",        \* duplicates were deleted, then the write failed
          "double_retry",        \* an entry put back is deleted by another retry
          "crash", "queue_failed", "discarded"}

VARIABLES
    history,  \* which of Histories the order has
    version,  \* the one its source has now
    seen,     \* webhook_id's row of the dedup table
    rows,     \* the order's drafts, by id
    runner,   \* the executions of drafts
    labels,   \* labels[i]: what the courier has sold for draft i
    dlq,      \* dead-letter entries of kind draft_creation
    proc,     \* the processes' local state
    accepted, \* deliveries answered as accepted since their mark was stored
    ops,      \* what MaxOps bounds
    faults,   \* what MaxFaults bounds
    causes    \* history: the causes met so far

orderVars == <<history, version>>
tableVars == <<seen, rows, dlq>>
courierVars == <<runner, labels>>
bounds == <<ops, faults>>
vars == <<history, version, seen, rows, runner, labels, dlq, proc, accepted,
          ops, faults, causes>>

Op == {"webhook", "sync", "retry"}

(***************************************************************************)
(* ver is the version of the order the process has; id the draft it writes *)
(* (0: a new one) and copy that draft as it was read.                      *)
(***************************************************************************)
Proc == [pc : {"idle", "create", "look", "delete", "again", "find", "persist",
               "clean", "upsert", "enqueue", "unqueue"},
         op : Op, wid : WebhookId \cup {"none"}, ver : Nat, id : Nat,
         copy : Draft, dups : SUBSET Id, entry : Nat]

Versions == Histories[history]

\* the draft each version of an order is built into
Built == [k \in DOMAIN Histories |->
             [v \in DOMAIN Histories[k] |-> Build(Histories[k][v])]]

NoCopy == Built[1][1]

IdleProc == [pc |-> "idle", op |-> "sync", wid |-> "none", ver |-> 1, id |-> 0,
             copy |-> NoCopy, dups |-> {}, entry |-> 0]

\* Drafts are rows the builders can produce, failures are filed with their
\* order, and every handler is at a step of its own (ingestion.py,
\* shipping_draft_composition.py).
TypeOK ==
    /\ history \in DOMAIN Histories /\ version \in DOMAIN Versions
    /\ seen \in [WebhookId -> {"none", "fresh", "expired"}]
    /\ DOMAIN rows \subseteq Id /\ \A i \in DOMAIN rows : rows[i] \in Draft
    /\ runner \in [Id -> {"idle", "run", "patch"}]
    /\ labels \in [Id -> Nat]
    /\ dlq \subseteq 1..MaxFaults
    /\ proc \in [Process -> Proc]
    /\ accepted \in [WebhookId -> Nat]
    /\ ops \in 0..MaxOps /\ faults \in 0..MaxFaults
    /\ causes \subseteq Cause

Init ==
    /\ history \in DOMAIN Histories /\ version = 1
    /\ seen = [w \in WebhookId |-> "none"]
    /\ rows = << >>
    /\ runner = [i \in Id |-> "idle"] /\ labels = [i \in Id |-> 0]
    /\ dlq = {}
    /\ proc = [p \in Process |-> IdleProc]
    /\ accepted = [w \in WebhookId |-> 0]
    /\ ops = 0 /\ faults = 0 /\ causes = {}

IsShopify == Versions[1].source = "shopify"

Goto(p, pc) == proc' = [proc EXCEPT ![p].pc = pc]

End(p) == proc' = [proc EXCEPT ![p] = IdleProc]

Start(p, op, pc, wid, ver, entry) ==
    /\ proc[p].pc = "idle"
    /\ proc' = [proc EXCEPT ![p] = [IdleProc EXCEPT
                   !.pc = pc, !.op = op, !.wid = wid, !.ver = ver,
                   !.entry = entry]]

Unstored == UNCHANGED <<tableVars, courierVars>>

\* one more request, unless the bound is met
Counted == ops < MaxOps /\ ops' = ops + 1

\* one more call fails or process dies
MayFault == faults < MaxFaults /\ faults' = faults + 1

-----------------------------------------------------------------------------
(***************************************************************************)
(* The order in its source, and time.                                      *)
(***************************************************************************)
OrderChanges ==
    /\ version < Len(Versions)
    /\ version' = version + 1
    /\ UNCHANGED <<history, tableVars, courierVars, proc, accepted, causes,
                   bounds>>

\* twenty-four hours pass
MarkExpires(w) ==
    /\ seen[w] = "fresh"
    /\ seen' = [seen EXCEPT ![w] = "expired"]
    /\ accepted' = [accepted EXCEPT ![w] = 0]
    /\ UNCHANGED <<orderVars, rows, dlq, courierVars, proc, causes, bounds>>

-----------------------------------------------------------------------------
(***************************************************************************)
(* shopify_order_created: the webhook carries the order as it was created. *)
(* A request that fails its signature, topic or domain check, or whose     *)
(* order has no shipping lines, leaves no trace and is not modelled.       *)
(***************************************************************************)
Deliver(p, w) ==
    /\ IsShopify
    /\ Start(p, "webhook", IF w = "none" THEN "persist" ELSE "create",
             w, 1, 0)
    /\ Counted
    /\ Unstored
    /\ UNCHANGED <<orderVars, accepted, causes, faults>>

\* another delivery has looked at the mark this one replaced
Racing(p) == \E q \in Process \ {p} :
    proc[q].wid = proc[p].wid /\ proc[q].pc \in {"delete", "again"}

\* this call inserted the mark: the delivery is accepted
Inserted(p) ==
    LET w == proc[p].wid IN
    /\ seen' = [seen EXCEPT ![w] = "fresh"]
    /\ accepted' = [accepted EXCEPT ![w] = @ + 1]
    /\ proc' = [proc EXCEPT ![p].pc = "persist", ![p].wid = "none"]
    /\ causes' = IF Racing(p) THEN causes \cup {"expiry_race"} ELSE causes

\* mark_seen_if_new: create_entity, the answer to a conflict read and judged
MarkCreate(p) ==
    /\ proc[p].pc \in {"create", "again"}
    /\ IF seen[proc[p].wid] = "none" THEN Inserted(p)
       ELSE /\ IF proc[p].pc = "create" THEN Goto(p, "look") ELSE End(p)
            /\ UNCHANGED <<seen, accepted, causes>>
    /\ UNCHANGED <<orderVars, rows, dlq, courierVars, bounds>>

MarkLook(p) ==
    /\ proc[p].pc = "look"
    /\ CASE seen[proc[p].wid] = "none" -> Goto(p, "again")
         [] seen[proc[p].wid] = "fresh" -> End(p)
         [] OTHER -> Goto(p, "delete")
    /\ Unstored
    /\ UNCHANGED <<orderVars, accepted, causes, bounds>>

MarkDelete(p) ==
    /\ proc[p].pc = "delete"
    /\ seen' = [seen EXCEPT ![proc[p].wid] = "none"]
    /\ Goto(p, "again")
    /\ UNCHANGED <<orderVars, rows, dlq, courierVars, accepted, causes,
                   bounds>>

\* 503: the source will deliver again, though the mark may be stored
MarkFault(p) ==
    /\ proc[p].pc \in {"create", "look", "delete", "again"} /\ MayFault
    /\ End(p)
    /\ \/ UNCHANGED <<seen, causes>>
       \/ /\ proc[p].pc \in {"create", "again"} /\ seen[proc[p].wid] = "none"
          /\ seen' = [seen EXCEPT ![proc[p].wid] = "fresh"]
          /\ causes' = causes \cup {"unmarked"}
    /\ UNCHANGED <<orderVars, rows, dlq, courierVars, accepted, ops>>

-----------------------------------------------------------------------------
(***************************************************************************)
(* sync_orders and poll_orders_once: fetch the orders, look each one up,   *)
(* merge it with the draft found or create a draft.  The scheduled poll    *)
(* asks for orders nobody has processed yet.                               *)
(***************************************************************************)
Sync(p) ==
    /\ Start(p, "sync", "find", "none", version, 0)
    /\ Counted
    /\ Unstored
    /\ UNCHANGED <<orderVars, accepted, causes, faults>>

Poll(p) ==
    /\ ~IsShopify /\ Versions[version].fulfillment = "new"
    /\ Start(p, "sync", "find", "none", version, 0)
    /\ Counted
    /\ Unstored
    /\ UNCHANGED <<orderVars, accepted, causes, faults>>

\* find_draft_by_external_id: a draft in error only if there is no other
Found ==
    LET healthy == {i \in DOMAIN rows : rows[i].status # "error"}
    IN IF healthy # {} THEN healthy ELSE DOMAIN rows

FindNone(p) ==
    /\ proc[p].pc = "find" /\ Found = {}
    /\ Goto(p, "persist")
    /\ Unstored
    /\ UNCHANGED <<orderVars, accepted, causes, bounds>>

FindDraft(p, i) ==
    /\ proc[p].pc = "find" /\ i \in Found
    /\ LET merged == Merge(rows[i], Built[history][proc[p].ver]) IN
       IF merged = rows[i] THEN End(p)
       ELSE proc' = [proc EXCEPT ![p].pc = "persist", ![p].id = i,
                        ![p].copy = rows[i]]
    /\ Unstored
    /\ UNCHANGED <<orderVars, accepted, causes, bounds>>

\* no answer is no decision: the order is left to a later cycle
FindFault(p) ==
    /\ proc[p].pc = "find" /\ MayFault
    /\ End(p)
    /\ Unstored
    /\ UNCHANGED <<orderVars, accepted, causes, ops>>

-----------------------------------------------------------------------------
(***************************************************************************)
(* upsert_draft: query the other drafts of the order, delete them one by   *)
(* one, write the record.  A failing query or delete is only logged.       *)
(***************************************************************************)
Creating(p) == proc[p].pc \in {"clean", "upsert"} /\ proc[p].id = 0

\* mutant: duplicates are looked for by the id of the shop's order alone
DuplicatesShopifyOnly(p) ==
    IF IsShopify THEN DOMAIN rows \ {proc[p].id} ELSE {}

Duplicates(p) == DOMAIN rows \ {proc[p].id}

Cleaning(p, dups) ==
    proc' = [proc EXCEPT ![p].pc = IF dups = {} THEN "upsert" ELSE "clean",
                         ![p].dups = dups]

Overlap(p) == IF proc[p].id = 0 /\ \E q \in Process \ {p} : Creating(q)
              THEN {"concurrent_creation"} ELSE {}

QueryDuplicates(p) ==
    /\ proc[p].pc = "persist"
    /\ Cleaning(p, Duplicates(p))
    /\ causes' = causes \cup Overlap(p)
    /\ Unstored
    /\ UNCHANGED <<orderVars, accepted, bounds>>

QueryFault(p) ==
    /\ proc[p].pc = "persist" /\ MayFault
    /\ Cleaning(p, {})
    /\ causes' = causes \cup Overlap(p) \cup {"cleanup_failed"}
    /\ Unstored
    /\ UNCHANGED <<orderVars, accepted, ops>>

Executed(i) == i \in DOMAIN rows /\ (rows[i].started \/ rows[i].shipments > 0)

DeleteDuplicate(p, i) ==
    /\ proc[p].pc = "clean" /\ i \in proc[p].dups
    /\ Cleaning(p, proc[p].dups \ {i})
    /\ rows' = Restrict(rows, DOMAIN rows \ {i})
    /\ causes' = IF Executed(i) THEN causes \cup {"replaced"} ELSE causes
    /\ UNCHANGED <<orderVars, seen, dlq, courierVars, accepted, bounds>>

DeleteFault(p, i) ==
    /\ proc[p].pc = "clean" /\ i \in proc[p].dups /\ MayFault
    /\ Cleaning(p, proc[p].dups \ {i})
    /\ causes' = causes \cup {"cleanup_failed"}
    /\ Unstored
    /\ UNCHANGED <<orderVars, accepted, ops>>

\* ids of drafts nobody has to do with any more are given anew
FreeIds == {i \in Id : /\ i \notin DOMAIN rows /\ labels[i] = 0
                       /\ runner[i] = "idle"
                       /\ \A p \in Process : proc[p].id # i}

Target(p) ==
    IF proc[p].id # 0 THEN proc[p].id
    ELSE IF FreeIds = {} THEN 0 ELSE Min(FreeIds)

\* what persist_draft_from_order built, and for a known order merged
Record(p) ==
    LET built == Built[history][proc[p].ver] IN
    IF proc[p].id = 0 THEN built ELSE Merge(proc[p].copy, built)

Current(p) == proc[p].id \in DOMAIN rows /\ rows[proc[p].id] = proc[p].copy

Written(p) ==
    /\ Target(p) \in Id
    /\ rows' = [i \in DOMAIN rows \cup {Target(p)} |->
                   IF i = Target(p) THEN Record(p) ELSE rows[i]]
    /\ causes' = IF proc[p].id # 0 /\ ~Current(p)
                 THEN causes \cup {"overwritten"} ELSE causes

Upsert(p) ==
    /\ proc[p].pc = "upsert"
    /\ Written(p)
    /\ IF proc[p].op = "retry" THEN Goto(p, "unqueue") ELSE End(p)
    /\ UNCHANGED <<orderVars, seen, dlq, courierVars, accepted, bounds>>

\* the webhook's failure is queued, a retry's put back; a sync counts it
AfterFault(p) ==
    CASE proc[p].op = "webhook" ->
            proc' = [proc EXCEPT ![p].pc = "enqueue", ![p].entry = faults']
      [] proc[p].op = "retry" -> Goto(p, "enqueue")
      [] OTHER -> End(p)

UpsertFault(p) ==
    /\ proc[p].pc = "upsert" /\ MayFault
    /\ AfterFault(p)
    /\ \/ /\ causes' = IF proc[p].op = "sync" /\ DOMAIN rows = {}
                        THEN causes \cup {"half_written"} ELSE causes
          /\ UNCHANGED <<rows>>
       \/ Written(p)
    /\ UNCHANGED <<orderVars, seen, dlq, courierVars, accepted, ops>>

-----------------------------------------------------------------------------
(***************************************************************************)
(* The dead-letter queue of failed creations.                              *)
(***************************************************************************)
\* another retry of the same entry has written its draft
Unqueuing(entry) ==
    \E q \in Process : proc[q].pc = "unqueue" /\ proc[q].entry = entry

EnqueueDlq(p) ==
    /\ proc[p].pc = "enqueue"
    /\ \/ /\ dlq' = dlq \cup {proc[p].entry} /\ UNCHANGED faults
          /\ causes' = IF Unqueuing(proc[p].entry)
                       THEN causes \cup {"double_retry"} ELSE causes
       \/ /\ MayFault
          /\ UNCHANGED dlq /\ causes' = causes \cup {"queue_failed"}
    /\ End(p)
    /\ UNCHANGED <<orderVars, seen, rows, courierVars, accepted, ops>>

\* retry_dlq_entry creates the draft from the stored payload
Retry(p, entry) ==
    /\ entry \in dlq
    /\ Start(p, "retry", "persist", "none", 1, entry)
    /\ Counted
    /\ Unstored
    /\ UNCHANGED <<orderVars, accepted, causes, faults>>

DeleteDlqEntry(p) ==
    /\ proc[p].pc = "unqueue"
    /\ \/ dlq' = dlq \ {proc[p].entry} /\ UNCHANGED faults
       \/ MayFault /\ UNCHANGED dlq
    /\ End(p)
    /\ UNCHANGED <<orderVars, seen, rows, courierVars, accepted, causes, ops>>

\* delete_dlq_entry: an operator gives the order up
Discard(entry) ==
    /\ entry \in dlq
    /\ dlq' = dlq \ {entry}
    /\ causes' = causes \cup {"discarded"}
    /\ UNCHANGED <<orderVars, seen, rows, courierVars, proc, accepted, bounds>>

-----------------------------------------------------------------------------
(***************************************************************************)
(* Executing a draft: the claim, a label, the patch that records it, or    *)
(* the release of the claim after a failure.  The snapshot taken before    *)
(* the claim is current here.                                              *)
(***************************************************************************)
EXECUTABLE_STATES == {"pending", "pending_confirmation", "error"}

Execute(i) ==
    /\ i \in DOMAIN rows /\ rows[i].status \in EXECUTABLE_STATES
    /\ runner[i] = "idle" /\ rows[i].shipments = 0
    /\ Cardinality({j \in Id \ {i} : labels[j] > 0 \/ runner[j] # "idle"})
          < MaxRuns
    /\ rows' = [rows EXCEPT ![i].status = "executing", ![i].started = TRUE]
    /\ runner' = [runner EXCEPT ![i] = "run"]
    /\ UNCHANGED <<orderVars, seen, dlq, labels, proc, accepted, causes,
                   bounds>>

BuyLabel(i) ==
    /\ runner[i] = "run"
    /\ labels' = [labels EXCEPT ![i] = @ + 1]
    /\ runner' = [runner EXCEPT ![i] = "patch"]
    /\ UNCHANGED <<orderVars, tableVars, proc, accepted, causes, bounds>>

\* an update of a row that is gone fails
RecordLabel(i, status) ==
    /\ runner[i] = "patch" /\ status \in {"created", "pending_confirmation"}
    /\ runner' = [runner EXCEPT ![i] = "idle"]
    /\ rows' = IF i \in DOMAIN rows
               THEN [rows EXCEPT ![i].shipments = labels[i],
                        ![i].draftId = TRUE, ![i].status = status,
                        ![i].tracking =
                           IF status = "created" THEN "ours" ELSE @]
               ELSE rows
    /\ UNCHANGED <<orderVars, seen, dlq, labels, proc, accepted, causes,
                   bounds>>

ExecutionFails(i) ==
    /\ runner[i] = "run"
    /\ runner' = [runner EXCEPT ![i] = "idle"]
    /\ rows' = IF i \in DOMAIN rows /\ rows[i].status = "executing"
               THEN [rows EXCEPT ![i].status = "error", ![i].error = TRUE]
               ELSE rows
    /\ UNCHANGED <<orderVars, seen, dlq, labels, proc, accepted, causes,
                   bounds>>

\* the replica or the poller job is killed
Crash(p) ==
    /\ proc[p].pc # "idle" /\ MayFault
    /\ End(p)
    /\ causes' = causes \cup {"crash"}
    /\ Unstored
    /\ UNCHANGED <<orderVars, accepted, ops>>

PersistStep(p) ==
    \/ QueryDuplicates(p) \/ \E i \in Id : DeleteDuplicate(p, i)
    \/ Upsert(p)

Step(p) ==
    \/ MarkCreate(p) \/ MarkLook(p) \/ MarkDelete(p)
    \/ FindNone(p) \/ \E i \in Id : FindDraft(p, i)
    \/ PersistStep(p)
    \/ EnqueueDlq(p) \/ DeleteDlqEntry(p)

Fault(p) ==
    \/ MarkFault(p) \/ FindFault(p) \/ QueryFault(p)
    \/ \E i \in Id : DeleteFault(p, i)
    \/ UpsertFault(p) \/ Crash(p)

Execution(i) ==
    \/ BuyLabel(i) \/ ExecutionFails(i)
    \/ \E status \in Status : RecordLabel(i, status)

Next ==
    \/ OrderChanges
    \/ \E w \in WebhookId : MarkExpires(w)
    \/ \E p \in Process :
          \/ \E w \in WebhookId \cup {"none"} : Deliver(p, w)
          \/ Sync(p) \/ Poll(p)
          \/ \E entry \in dlq : Retry(p, entry)
          \/ Step(p) \/ Fault(p)
    \/ \E entry \in dlq : Discard(entry)
    \/ \E i \in Id : Execute(i) \/ Execution(i)

Spec == Init /\ [][Next]_vars

-----------------------------------------------------------------------------
Excused(excuses) == causes \cap excuses # {}

(***************************************************************************)
(* An order has one draft, however many deliveries, syncs, polls and       *)
(* retries create it (shipping_store.py:200).                              *)
(***************************************************************************)
OneDraft ==
    \/ Excused({"concurrent_creation", "cleanup_failed", "overwritten"})
    \/ Cardinality(DOMAIN rows) <= 1

(***************************************************************************)
(* A label that was bought stays on record: no sync, no redelivery and no  *)
(* retry drops the draft or the shipment it carries (drafts.py:289).       *)
(***************************************************************************)
LabelsAreKnown ==
    \/ Excused({"replaced", "overwritten"})
    \/ \A i \in Id : labels[i] > 0 /\ runner[i] = "idle"
          => i \in DOMAIN rows /\ rows[i].shipments = labels[i]

(***************************************************************************)
(* A delivery id lets one delivery through until its mark expires          *)
(* (shopify_dedup_store.py:212).                                           *)
(***************************************************************************)
AcceptedOnce ==
    Excused({"expiry_race"}) \/ \A w \in WebhookId : accepted[w] <= 1

(***************************************************************************)
(* No order is lost: once its delivery is marked as seen, which refuses    *)
(* every repetition, it has a draft or a dead-letter entry unless somebody *)
(* still works on it (ingestion.py:281).                                   *)
(***************************************************************************)
OrderIsKept ==
    \/ Excused({"crash", "queue_failed", "discarded", "unmarked",
                "half_written", "double_retry"})
    \/ (\E w \in WebhookId : seen[w] # "none")
          => \/ DOMAIN rows # {} \/ dlq # {}
             \/ \E p \in Process : proc[p].pc # "idle"

(***************************************************************************)
(* No sync makes a finished or cancelled draft executable again            *)
(* (drafts.py:166).                                                        *)
(***************************************************************************)
FinalStays ==
    [][\A i \in DOMAIN rows \cap DOMAIN rows' :
          rows[i].status \in {"created", "cancelled"}
             /\ rows'[i].status # rows[i].status
          => "overwritten" \in causes']_vars

(***************************************************************************)
(* An order has one draft: of its repeated deliveries one is taken, no two *)
(* creations both stay, and no failure on the way leaves it without a      *)
(* draft and without a dead letter, unless for one of the causes each part *)
(* names (ingestion.py:281, shipping_store.py:200).                        *)
(***************************************************************************)
OrderHasOneDraft == AcceptedOnce /\ OneDraft /\ OrderIsKept
=============================================================================
