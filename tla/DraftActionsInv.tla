---------------------------- MODULE DraftActionsInv ----------------------------
(***************************************************************************)
(* The inductive invariants of DraftActions.  TLC checks them on small     *)
(* instances; the theorems are in DraftActionsProofs, DraftActionsSafety.  *)
(***************************************************************************)
EXTENDS DraftActions

(***************************************************************************)
(* Where a request of each kind can be.                                    *)
(***************************************************************************)
ParcelPc == {"persist", "checkpoint", "wait", "record", "pending"}
PickupPc == {"propose", "persist_pickup", "pickup_status"}

Place(p) ==
    LET op == proc[p].op
        pc == proc[p].pc IN
    /\ pc \in {"idle", "claim", "release", "reopen"} => op = "execute"
    /\ pc \in ParcelPc \cup {"proposal", "parcel", "finish", "fail"}
          => op \in {"execute", "confirm"}
    /\ pc \in PickupPc => op \in {"execute", "pickup"}
    /\ pc \in {"claim_pickup", "unpickup"} => op = "pickup"
    /\ pc \in {"cancel", "cancelled"}
          => op \in {"cancel_shipment", "cancel_dispatch"}
    /\ pc = "save" => op \in {"repack", "review"}

(***************************************************************************)
(* Commands and pickups that a draft names exist, and a shipment is known  *)
(* only by a command that was carried out.                                 *)
(***************************************************************************)
ShipsExist(ships) ==
    \A k \in Parcel :
       /\ ships[k].cmd <= Len(commands)
       /\ ships[k].id => /\ ships[k].cmd # NoCmd
                         /\ commands[ships[k].cmd].state
                               \in {"success", "cancelled"}

Exists(d) ==
    /\ ShipsExist(d.ships)
    /\ d.command <= Len(commands)
    /\ d.pickupCommand <= Len(pickups) /\ d.dispatch <= Len(pickups)
    /\ d.dispatch # NoCmd => pickups[d.dispatch] \in {"success", "cancelled"}

(***************************************************************************)
(* What a request's own state says about what it does.                     *)
(***************************************************************************)
OrdersParcel(p) ==
    /\ proc[p].cmd <= Len(commands)
    /\ proc[p].op = "confirm" /\ proc[p].pc = "proposal"
          => proc[p].snap.status = "pending_confirmation"
    /\ proc[p].pc \in ParcelPc => Todo(p) # {} /\ proc[p].cmd # NoCmd
    /\ proc[p].pc \in {"wait", "record", "pending"}
          => proc[p].snap.ships[Current(p)].cmd = proc[p].cmd
    /\ proc[p].pc = "record"
          => commands[proc[p].cmd].state \in {"success", "cancelled"}
    /\ proc[p].op \in {"execute", "confirm"}
             /\ proc[p].pc \in PickupPc \cup {"finish"} => Todo(p) = {}

OrdersPickup(p) ==
    /\ proc[p].pcmd <= Len(pickups)
    /\ proc[p].pc \notin PickupPc \cup {"finish", "fail", "unpickup"}
             \/ proc[p].pc = "propose" \/ proc[p].op = "confirm"
          => proc[p].pcmd = NoCmd
    /\ proc[p].pc \in {"persist_pickup", "pickup_status"}
          => proc[p].pcmd # NoCmd
    /\ proc[p].pc \notin {"finish", "fail", "unpickup"} => proc[p].outcome = "none"
    /\ proc[p].pc \in {"finish", "unpickup"} =>
          /\ proc[p].outcome \in {"pending", "success", "over"}
                => proc[p].pcmd # NoCmd
          /\ proc[p].outcome = "none" => proc[p].pcmd = NoCmd
          /\ proc[p].outcome = "success"
                => pickups[proc[p].pcmd] \in {"success", "cancelled"}
          /\ proc[p].outcome = "over" => pickups[proc[p].pcmd] = "error"

CancelsPickup(p) ==
    proc[p].op = "cancel_dispatch" =>
       /\ proc[p].snap.dispatch # NoCmd
       /\ proc[p].pc = "cancelled"
             => pickups[proc[p].snap.dispatch] = "cancelled"

Local(p) ==
    /\ Place(p)
    /\ proc[p].pc = "idle" => proc[p] = IdleProc
    /\ Exists(proc[p].snap)
    /\ OrdersParcel(p) /\ OrdersPickup(p) /\ CancelsPickup(p)

LocalInv ==
    /\ Len(commands) <= MaxCmds /\ Len(pickups) <= MaxPickups
    /\ Exists(draft)
    /\ draft.dispatch = NoCmd \/ draft.pickupCommand = NoCmd
    /\ \A p \in Process : Local(p)

-----------------------------------------------------------------------------
(***************************************************************************)
(* One run orders at a time and its list of shipments is the draft's: a    *)
(* run that was claimed finds no other one, and none runs on a draft that  *)
(* is created (shipping_store.py:436, composition.py:957).                 *)
(***************************************************************************)
Ordering(p) == Running(p) /\ proc[p].pc # "proposal"
Claimed(p) == proc[p].op = "execute" /\ proc[p].pc = "proposal"

OneRun ==
    /\ \A p, q \in Process : Ordering(p) /\ Ordering(q) => p = q
    /\ \A p, q \in Process : Claimed(p) => ~Ordering(q)
    /\ \A p \in Process : Ordering(p) => proc[p].snap.ships = draft.ships
    /\ \A p \in Process : Ordering(p) \/ Claimed(p)
                             => draft.status \notin {"created", "needs_review"}

RunInv == Excused({"second_run"}) \/ OneRun

(***************************************************************************)
(* Every create-command is known: by the checkpoint of its parcel, to the  *)
(* run that has just sent it, or, the first one, by the draft's own field  *)
(* as long as the status lets a later run look there (composition.py:522). *)
(***************************************************************************)
OrderCause == {"second_run", "lost_answer", "crash", "stale_review",
               "forgotten"}

Uncharted == draft.command # NoCmd /\ draft.ships[1].cmd = NoCmd

HeldBy(p, c) == /\ Ordering(p) /\ proc[p].pc \in {"persist", "checkpoint"}
                /\ proc[p].cmd = c /\ Current(p) = commands[c].parcel

CommandKnown(c) ==
    \/ draft.ships[commands[c].parcel].cmd = c
    \/ \E p \in Process : HeldBy(p, c)
    \/ Uncharted /\ commands[c].parcel = 1 /\ draft.command = c

SameOrders(p) == /\ proc[p].snap.ships = draft.ships
                 /\ proc[p].snap.command = draft.command

Resumable(p) ==
    /\ proc[p].pc \in {"persist", "checkpoint"} /\ Ordering(p) =>
          /\ draft.ships[Current(p)].cmd \in {NoCmd, proc[p].cmd}
          /\ Uncharted => proc[p].pc = "checkpoint" /\ draft.command = proc[p].cmd
    /\ proc[p].pc = "parcel" /\ Ordering(p) /\ Uncharted =>
          /\ proc[p].snap.status = "pending_confirmation"
          /\ proc[p].snap.command = draft.command
    /\ proc[p].op = "execute" /\ SameOrders(p) /\ Uncharted
             /\ \/ proc[p].pc = "proposal"
                \/ proc[p].pc = "claim" /\ draft.status = "pending_confirmation"
          => proc[p].snap.status = "pending_confirmation"
    \* a command that was just sent is in nobody's hands yet
    /\ proc[p].pc = "persist" =>
          /\ draft.command # proc[p].cmd
          /\ \A q \in Process : proc[q].snap.command # proc[p].cmd

CommandsFound ==
    /\ \A c \in DOMAIN commands : CommandKnown(c)
    /\ Uncharted => draft.status \in {"pending_confirmation", "executing",
                                      "cancelled"}
    /\ \A p \in Process : Resumable(p)

OrderInv == Excused(OrderCause) \/ CommandsFound

-----------------------------------------------------------------------------
(***************************************************************************)
(* Once a draft is cancelled nobody is at work who could write over it.    *)
(***************************************************************************)
Quiet(p) == \/ proc[p].pc \in {"idle", "claim"}
            \/ proc[p].op \in {"cancel_shipment", "cancel_dispatch"}

AtRest == draft.status = "cancelled" => \A p \in Process : Quiet(p)

CancelInv == Excused({"cancel_raced"}) \/ AtRest

(***************************************************************************)
(* Shipments are cancelled at Allegro only by a request that is still at   *)
(* it or has said so, and created means that every parcel was recorded.    *)
(***************************************************************************)
Cancelling == \E p \in Process : proc[p].op = "cancel_shipment"

CompleteCause == {"second_run", "stale_review", "cancel_raced", "lost_answer",
                  "crash"}

AllRecorded ==
    /\ \/ Cancelling \/ draft.status = "cancelled"
       \/ \A c \in DOMAIN commands : commands[c].state # "cancelled"
    /\ draft.status = "created" => \A k \in Parcel : draft.ships[k].id

CompleteInv == Excused(CompleteCause) \/ AllRecorded

(***************************************************************************)
(* While parcels are ordered the status or a checkpoint locks the plan.    *)
(***************************************************************************)
PlanCause == {"stale_repack", "stale_review", "second_run", "foreign_release",
              "lost_answer", "crash", "forgotten", "late_failure"}

Charted == \E k \in Parcel : draft.ships[k].cmd # NoCmd

PlanLocked ==
    /\ \A p \in Process :
          Ordering(p) \/ Claimed(p) =>
             Charted \/ draft.status \in {"executing", "pending_confirmation",
                                          "cancelled"}
    /\ draft.status = "pending_confirmation" => Charted \/ Uncharted

PlanInv == Excused(PlanCause) \/ PlanLocked

-----------------------------------------------------------------------------
(***************************************************************************)
(* The pickup's flag.  It is set by the request that orders the pickup or  *)
(* with the pickup's number; before the draft is created it is not set,    *)
(* and a request about to order a new pickup holds it alone                *)
(* (shipping_store.py:464, fulfillment.py:92).                             *)
(***************************************************************************)
FlagCause == {"second_run", "cancel_raced", "crash", "stale_pickup",
              "stale_review", "late_failure", "foreign_release"}

Settled == draft.status \in {"created", "cancelled"}

Collecting(p) == proc[p].op = "pickup" /\ proc[p].pc # "claim_pickup"

\* it orders a new pickup, or has just failed to
Alone(p) == /\ proc[p].op = "pickup"
            /\ \/ proc[p].pc \in {"propose", "persist_pickup"}
               \/ proc[p].pc = "unpickup" /\ proc[p].pcmd = NoCmd

CancellingPickup(p, c) == /\ proc[p].op = "cancel_dispatch"
                          /\ proc[p].pc = "cancelled"
                          /\ proc[p].snap.dispatch = c

Unmentioned(c) ==
    /\ draft.pickupCommand # c /\ draft.dispatch # c
    /\ \A p \in Process : /\ proc[p].pcmd # c /\ proc[p].snap.dispatch # c
                          /\ proc[p].snap.pickupCommand # c

FlagTold ==
    /\ \A p \in Process : Alone(p) => /\ draft.pickup
                                      /\ draft.pickupCommand = NoCmd
                                      /\ draft.dispatch = NoCmd
    /\ \A p, q \in Process : Alone(p) /\ Alone(q) => p = q
    /\ \A p \in Process : Collecting(p) => draft.status = "created"
    /\ draft.dispatch # NoCmd => draft.pickup
    /\ draft.pickup => Settled /\ (draft.dispatch # NoCmd
                                     \/ \E p \in Process : Collecting(p))
    /\ \A p \in Process : proc[p].op = "cancel_dispatch"
          => draft.dispatch = proc[p].snap.dispatch
    /\ draft.dispatch # NoCmd =>
          \/ pickups[draft.dispatch] = "success"
          \/ \E p \in Process : CancellingPickup(p, draft.dispatch)
    /\ \A c \in DOMAIN pickups : pickups[c] = "cancelled" =>
          Unmentioned(c) \/ \E p \in Process : CancellingPickup(p, c)

FlagInv == Excused(FlagCause) \/ FlagTold

(***************************************************************************)
(* Every pickup that may take place is known to the draft or to the        *)
(* request that has just ordered it, and a run orders the first of all.    *)
(***************************************************************************)
PickupCause == FlagCause \cup {"lost_answer"}

LivePickup(c) == pickups[c] \in {"pending", "success"}

Booking(p) == proc[p].op = "execute" /\ proc[p].pcmd # NoCmd

PickupsFound ==
    /\ \A c \in DOMAIN pickups : LivePickup(c) =>
          \/ c = draft.pickupCommand \/ c = draft.dispatch
          \/ \E p \in Process : proc[p].pc = "persist_pickup" /\ proc[p].pcmd = c
    /\ ~Settled => pickups = << >> \/ \E p \in Process : Booking(p)
    /\ \A p \in Process : Booking(p) =>
          /\ Ordering(p)
          /\ draft.pickupCommand =
                IF proc[p].pc = "persist_pickup" THEN NoCmd ELSE proc[p].pcmd

PickupInv == Excused(PickupCause) \/ PickupsFound
=============================================================================
