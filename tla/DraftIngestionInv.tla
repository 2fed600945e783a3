-------------------------- MODULE DraftIngestionInv --------------------------
(***************************************************************************)
(* The invariants of DraftIngestion that its theorems rest on.  Each is    *)
(* excused by the causes of the property it strengthens and by no other.   *)
(***************************************************************************)
EXTENDS DraftIngestion

-----------------------------------------------------------------------------
(***************************************************************************)
(* What a process holds fits the step it is at (ingestion.py:258,          *)
(* shopify_dedup_store.py:209): a delivery with a mark has its id, a       *)
(* version is one the order has had, and the entry of a retry or of a      *)
(* failed creation is a number the queue has given out.                    *)
(***************************************************************************)
Marking == {"create", "look", "delete", "again"}

Fits(r) ==
    /\ r.pc \in Marking => r.wid \in WebhookId
    /\ r.ver \in DOMAIN Versions
    /\ r.id \in Id \cup {0}
    /\ r.op = "retry" \/ r.pc \in {"enqueue", "unqueue"}
          => r.entry \in 1..MaxFaults
    /\ r.pc = "upsert" => r.dups = {}

StepsFit == \A p \in Process : Fits(proc[p])

-----------------------------------------------------------------------------
(***************************************************************************)
(* A mark nobody has put back since it went away has let nothing through   *)
(* (shopify_dedup_store.py:240): neither has an expired one, nor one a     *)
(* delivery is about to delete because it saw it expired.                  *)
(***************************************************************************)
MarksCount ==
    \/ Excused({"expiry_race"})
    \/ /\ \A w \in WebhookId : /\ accepted[w] <= 1
                               /\ seen[w] # "fresh" => accepted[w] = 0
       /\ \A p \in Process : proc[p].pc = "delete" => accepted[proc[p].wid] = 0

(***************************************************************************)
(* One creation at a time is between its look for duplicates and its write *)
(* (shipping_store.py:197), and of the drafts of the order it knows all.   *)
(***************************************************************************)
OneCreation ==
    \/ Excused({"concurrent_creation", "cleanup_failed", "overwritten"})
    \/ /\ \A p, q \in Process : Creating(p) /\ Creating(q) => p = q
       /\ \A p \in Process : Creating(p) => DOMAIN rows \subseteq proc[p].dups
       /\ \A i, j \in DOMAIN rows : i = j

(***************************************************************************)
(* An order whose delivery is marked has a draft, or a request on its way  *)
(* to write one or to queue its failure, or a dead letter that nobody who  *)
(* is done with it will delete (dlq.py:125).                               *)
(***************************************************************************)
Carrying(p) == proc[p].pc \in {"persist", "clean", "upsert", "enqueue"}

SomebodyKeepsIt ==
    \/ Excused({"crash", "queue_failed", "discarded", "unmarked",
                "half_written", "double_retry"})
    \/ (\E w \in WebhookId : seen[w] # "none")
          => \/ DOMAIN rows # {}
             \/ \E p \in Process : Carrying(p)
             \/ \E entry \in dlq : ~Unqueuing(entry)

-----------------------------------------------------------------------------
(***************************************************************************)
(* A draft whose execution has not reported is executing                   *)
(* (shipping_store.py:445).                                                *)
(***************************************************************************)
RunsExecute ==
    \/ Excused({"overwritten"})
    \/ \A i \in DOMAIN rows : runner[i] # "idle" => rows[i].status = "executing"

(***************************************************************************)
(* A draft in execution is there, marked as started, and has a label only  *)
(* once one was bought; one whose execution has reported has all labels it *)
(* bought (workflow.py:187).                                               *)
(***************************************************************************)
RunsAreTold ==
    \/ Excused({"replaced", "overwritten"})
    \/ \A i \in Id :
          /\ runner[i] # "idle" => i \in DOMAIN rows /\ rows[i].started
          /\ runner[i] = "run" => labels[i] = 0
          /\ labels[i] > 0 /\ runner[i] = "idle"
                => i \in DOMAIN rows /\ rows[i].shipments = labels[i]
=============================================================================
