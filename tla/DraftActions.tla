----------------------------- MODULE DraftActions -----------------------------
(***************************************************************************)
(* What operators do with one draft that Allegro ships: execute it,        *)
(* confirm it while its create-commands are pending, order and cancel the  *)
(* pickup, cancel the shipments, repack it, clear its review.              *)
(*                                                                         *)
(* Every request reads the draft first and works on that snapshot; what it *)
(* writes later is a merge of the fields it names.  One action is one call *)
(* to the draft table or to Allegro.  At Allegro a parcel is ordered by a  *)
(* command that is carried out later, and so is a pickup.  Drafts of the   *)
(* other couriers are the subject of ShippingExecution.                    *)
(***************************************************************************)
EXTENDS Naturals, Sequences, FiniteSets

CONSTANTS
    Process,     \* requests that may be in progress at a time
    Ops,         \* the operations requests ask for
    Parcels,     \* parcels of the draft
    MaxCmds,     \* bound: create-commands
    MaxPickups,  \* bound: pickup commands, no more of them
    MaxRequests, \* bound: requests
    MaxFaults    \* bound: calls that fail and requests that are killed

Parcel == 1..Parcels
Cmd == 1..MaxCmds
NoCmd == 0

ASSUME ActionBounds ==
    /\ Parcels \in Nat \ {0} /\ MaxCmds \in Nat /\ MaxPickups \in 0..MaxCmds
    /\ MaxRequests \in Nat /\ MaxFaults \in Nat

Status == {"pending", "needs_review", "pending_confirmation", "executing",
           "created", "error", "cancelled"}

EXECUTABLE_STATES == {"pending", "pending_confirmation", "error"}
BREAKDOWN_LOCKED_STATUSES ==
    {"executing", "pending_confirmation", "created", "cancelled"}

(***************************************************************************)
(* A parcel's checkpoint: the command that ordered it, and whether its     *)
(* shipment is known.  plan says whether the operator repacked the draft.  *)
(***************************************************************************)
Shipments == [Parcel -> [cmd : Cmd \cup {NoCmd}, id : BOOLEAN]]

Draft == [status : Status, ships : Shipments, command : Cmd \cup {NoCmd},
          pickup : BOOLEAN, pickupCommand : Cmd \cup {NoCmd},
          dispatch : Cmd \cup {NoCmd}, repacked : BOOLEAN]

NoShipments == [k \in Parcel |-> [cmd |-> NoCmd, id |-> FALSE]]

CommandState == {"pending", "success", "error", "cancelled"}

Op == {"execute", "confirm", "pickup", "cancel_shipment",
       "cancel_dispatch", "repack", "review"}

Cause == {"second_run",     \* two runs at a time, or one on an older snapshot
          "lost_answer",    \* a call did its work and its caller never knew
          "forgotten",      \* a status was written that hides a command
          "stale_pickup",   \* a pickup claimed or written on an older snapshot
          "late_failure",   \* a confirmation failed after the draft moved on
          "cancel_raced",   \* a run or a pickup went on over a cancellation
          "stale_review",   \* a review was cleared on an older snapshot
          "stale_repack",   \* a plan was saved on an older snapshot
          "foreign_release", \* a failed run released another run's claim
          "crash"}

VARIABLES
    draft,     \* the row of the table
    commands,  \* Allegro's create-commands: the parcel and the state of each
    pickups,   \* Allegro's pickup commands: the state of each
    proc,      \* the requests' local state
    requests, faults, causes

vars == <<draft, commands, pickups, proc, requests, faults, causes>>
allegroVars == <<commands, pickups>>

InitialDraft(status) ==
    [status |-> status, ships |-> NoShipments, command |-> NoCmd,
     pickup |-> FALSE, pickupCommand |-> NoCmd, dispatch |-> NoCmd,
     repacked |-> FALSE]

(***************************************************************************)
(* snap is the snapshot, its shipments kept up to date by the run itself;  *)
(* cmd the create-command the run works on, pcmd its pickup command, and   *)
(* outcome what it has learnt of that one.                                 *)
(***************************************************************************)
Pc == {"idle", "claim", "proposal", "parcel", "persist", "checkpoint", "wait",
       "record", "pending", "finish", "fail", "release", "reopen",
       "claim_pickup", "propose", "persist_pickup", "pickup_status",
       "unpickup", "cancel", "cancelled", "save"}

Outcome == {"none", "pending", "success", "failed", "over"}

Proc == [pc : Pc, op : Op, snap : Draft, cmd : Cmd \cup {NoCmd},
         pcmd : Cmd \cup {NoCmd}, outcome : Outcome]

IdleProc == [pc |-> "idle", op |-> "execute", snap |-> InitialDraft("pending"),
             cmd |-> NoCmd, pcmd |-> NoCmd, outcome |-> "none"]

\* The draft keeps the fields of its table row, the provider's commands and
\* pickups their states, and every handler a step of its own
\* (shipping_store.py, allegro_delivery.py).
TypeOK ==
    /\ draft \in Draft
    /\ commands \in Seq([parcel : Parcel, state : CommandState])
    /\ pickups \in Seq(CommandState)
    /\ proc \in [Process -> Proc]
    /\ requests \in 0..MaxRequests /\ faults \in 0..MaxFaults
    /\ causes \subseteq Cause

Init ==
    /\ draft \in {InitialDraft("pending"), InitialDraft("needs_review")}
    /\ commands = << >> /\ pickups = << >>
    /\ proc = [p \in Process |-> IdleProc]
    /\ requests = 0 /\ faults = 0 /\ causes = {}

Goto(p, pc) == proc' = [proc EXCEPT ![p].pc = pc]
End(p) == proc' = [proc EXCEPT ![p] = IdleProc]

MayFault == faults < MaxFaults /\ faults' = faults + 1

Begin(p, op, pc) ==
    /\ op \in Ops /\ proc[p].pc = "idle" /\ requests < MaxRequests
    /\ requests' = requests + 1
    /\ proc' = [proc EXCEPT ![p] =
                   [pc |-> pc, op |-> op, snap |-> draft, cmd |-> NoCmd,
                    pcmd |-> NoCmd, outcome |-> "none"]]
    /\ UNCHANGED <<draft, allegroVars, faults, causes>>

\* a run may order parcels from here to its end
Running(p) == /\ proc[p].op \in {"execute", "confirm"}
              /\ proc[p].pc \notin {"idle", "claim", "fail", "release", "reopen"}

Stale(p) == \/ proc[p].snap.ships # draft.ships
            \/ proc[p].snap.command # draft.command
            \/ proc[p].snap.pickupCommand # draft.pickupCommand
            \/ proc[p].op = "confirm" /\ draft.status # "pending_confirmation"

(***************************************************************************)
(* A command that has no checkpoint yet is found again only while the      *)
(* status is pending_confirmation (composition.py:522).                    *)
(***************************************************************************)
Hidden == IF draft.command # NoCmd /\ draft.ships[1].cmd = NoCmd
          THEN {"forgotten"} ELSE {}

SecondRun(p) == IF Stale(p) \/ \E q \in Process \ {p} : Running(q)
                THEN {"second_run"} ELSE {}

-----------------------------------------------------------------------------
(***************************************************************************)
(* execute_draft and confirm_shipping_draft both come to                   *)
(* _run_allegro_delivery: the one behind a claim, the other when a command *)
(* is still to be answered.                                                *)
(***************************************************************************)
Execute(p) == draft.status # "needs_review" /\ Begin(p, "execute", "claim")

Claim(p) ==
    /\ proc[p].pc = "claim"
    /\ IF draft.status \in EXECUTABLE_STATES
       THEN /\ draft' = [draft EXCEPT !.status = "executing"]
            /\ Goto(p, "proposal")
            /\ causes' = causes \cup SecondRun(p)
       ELSE End(p) /\ UNCHANGED <<draft, causes>>
    /\ UNCHANGED <<allegroVars, requests, faults>>

Unanswered(d) == \E k \in Parcel : d.ships[k].cmd # NoCmd /\ ~d.ships[k].id

Confirm(p) ==
    /\ draft.status = "pending_confirmation"
    /\ draft.command # NoCmd \/ Unanswered(draft)
    /\ Begin(p, "confirm", "proposal")

\* get_delivery_proposal, which leaves nothing behind at Allegro
Proposal(p) ==
    /\ proc[p].pc = "proposal"
    /\ Goto(p, "parcel")
    /\ causes' = causes \cup SecondRun(p)
    /\ UNCHANGED <<draft, allegroVars, requests, faults>>

Todo(p) == {k \in Parcel : ~proc[p].snap.ships[k].id}
Current(p) == CHOOSE k \in Todo(p) : \A j \in Todo(p) : k <= j

\* mutant: a command is resumed only where its parcel has a checkpoint
KnownCommandCheckpointed(p) == proc[p].snap.ships[Current(p)].cmd

\* the command of the parcel's checkpoint, or the draft's own for parcel one
KnownCommand(p) ==
    LET snap == proc[p].snap
        cmd == snap.ships[Current(p)].cmd IN
    IF cmd # NoCmd THEN cmd
    ELSE IF Current(p) = 1 /\ snap.status = "pending_confirmation"
    THEN snap.command ELSE NoCmd

Resume(p) ==
    /\ proc[p].pc = "parcel" /\ Todo(p) # {} /\ KnownCommand(p) # NoCmd
    /\ proc' = [proc EXCEPT ![p].pc = "checkpoint",
                            ![p].cmd = KnownCommand(p)]
    /\ UNCHANGED <<draft, allegroVars, requests, faults, causes>>

Ordered(p) ==
    /\ Len(commands) < MaxCmds
    /\ commands' = Append(commands, [parcel |-> Current(p), state |-> "pending"])

CreateShipment(p) ==
    /\ proc[p].pc = "parcel" /\ Todo(p) # {} /\ KnownCommand(p) = NoCmd
    /\ Ordered(p)
    /\ proc' = [proc EXCEPT ![p].pc = "persist", ![p].cmd = Len(commands')]
    /\ UNCHANGED <<draft, pickups, requests, faults, causes>>

\* the command may have been accepted all the same
CreateShipmentFault(p) ==
    /\ proc[p].pc = "parcel" /\ Todo(p) # {} /\ KnownCommand(p) = NoCmd
    /\ MayFault
    /\ \/ UNCHANGED <<commands, causes>>
       \/ Ordered(p) /\ causes' = causes \cup {"lost_answer"}
    /\ Goto(p, "fail")
    /\ UNCHANGED <<draft, pickups, requests>>

\* on_command_created, of both callers
PersistCommand(p) ==
    /\ proc[p].pc = "persist"
    /\ draft' = [draft EXCEPT !.command = proc[p].cmd,
                              !.status = "pending_confirmation"]
    /\ Goto(p, "checkpoint")
    /\ UNCHANGED <<allegroVars, requests, faults, causes>>

Checkpointed(p, id) ==
    [proc[p].snap.ships EXCEPT ![Current(p)] = [cmd |-> proc[p].cmd, id |-> id]]

\* on_shipment_checkpoint writes the whole list the run keeps
WriteCheckpoint(p, id, pc) ==
    /\ draft' = [draft EXCEPT !.ships = Checkpointed(p, id)]
    /\ proc' = [proc EXCEPT ![p].pc = pc, ![p].snap.ships = Checkpointed(p, id)]
    /\ UNCHANGED <<allegroVars, requests, faults, causes>>

Checkpoint(p) ==
    proc[p].pc = "checkpoint" /\ WriteCheckpoint(p, FALSE, "wait")

\* wait_for_ship_with_allegro_shipment, then the shipment itself
Wait(p) ==
    /\ proc[p].pc = "wait"
    /\ LET state == commands[proc[p].cmd].state IN
       proc' = [proc EXCEPT
           ![p].pc = CASE state = "pending" -> "pending"
                       [] state = "error" -> "fail"
                       [] OTHER -> "record",
           ![p].outcome = IF state = "error" THEN "over" ELSE @]
    /\ UNCHANGED <<draft, allegroVars, requests, faults, causes>>

Record(p) == proc[p].pc = "record" /\ WriteCheckpoint(p, TRUE, "parcel")

\* the command the run holds is one no later run would find
Unsaved(p) ==
    \/ proc[p].pc = "persist"
    \/ /\ proc[p].pc = "checkpoint"
       /\ draft.ships[Current(p)].cmd # proc[p].cmd
       /\ Current(p) # 1 \/ draft.command # proc[p].cmd

\* the pickup the run has ordered goes with its patch
Unbooked(p) == proc[p].pc = "finish" /\ proc[p].pcmd # NoCmd

WriteFault(p) ==
    /\ proc[p].pc \in {"persist", "checkpoint", "record", "pending", "finish"}
    /\ MayFault
    /\ causes' = IF Unsaved(p) \/ Unbooked(p)
                 THEN causes \cup {"lost_answer"} ELSE causes
    /\ Goto(p, "fail")
    /\ UNCHANGED <<draft, allegroVars, requests>>

ReadFault(p) ==
    /\ proc[p].pc \in {"proposal", "wait"} /\ MayFault
    /\ Goto(p, "fail")
    /\ UNCHANGED <<draft, allegroVars, requests, causes>>

\* Allegro says no: to the proposal or to a shipment
Refused(p) ==
    /\ \/ proc[p].pc = "proposal"
       \/ proc[p].pc = "parcel" /\ Todo(p) # {} /\ KnownCommand(p) = NoCmd
    /\ MayFault
    /\ proc' = [proc EXCEPT ![p].pc = "fail", ![p].outcome = "over"]
    /\ UNCHANGED <<draft, allegroVars, requests, causes>>

\* every parcel has its shipment: a pickup is ordered if execute gave a date
ParcelsDone(p) ==
    /\ proc[p].pc = "parcel" /\ Todo(p) = {}
    /\ LET resumed == IF proc[p].snap.pickup THEN NoCmd
                      ELSE proc[p].snap.pickupCommand IN
       \/ Goto(p, "finish")
       \/ /\ proc[p].op = "execute"
          /\ proc' = [proc EXCEPT
                 ![p].pc = IF resumed = NoCmd THEN "propose" ELSE "pickup_status",
                 ![p].pcmd = resumed]
    /\ UNCHANGED <<draft, allegroVars, requests, faults, causes>>

Cancelled(p) == IF draft.status = "cancelled" THEN {"cancel_raced"} ELSE {}

\* mutant: the status of a command, not one of a draft
FinishPendingInProgress(p) ==
    /\ proc[p].pc = "pending"
    /\ draft' = [draft EXCEPT !.status = "in_progress"]
    /\ End(p)
    /\ UNCHANGED <<allegroVars, requests, faults, causes>>

\* the patch of a run that waits for Allegro
FinishPending(p) ==
    /\ proc[p].pc = "pending"
    /\ draft' = [draft EXCEPT !.status = "pending_confirmation",
                    !.ships = proc[p].snap.ships, !.command = proc[p].cmd,
                    !.pickup = FALSE]
    /\ causes' = causes \cup Cancelled(p)
    /\ End(p)
    /\ UNCHANGED <<allegroVars, requests, faults>>

Finish(p) ==
    /\ proc[p].pc = "finish"
    /\ LET booked == proc[p].outcome = "success"
           kept == proc[p].outcome \in {"pending", "failed"} IN
       draft' = [draft EXCEPT !.status = "created",
                    !.ships = proc[p].snap.ships, !.command = proc[p].cmd,
                    !.pickup = booked,
                    !.dispatch = IF booked THEN proc[p].pcmd ELSE NoCmd,
                    !.pickupCommand = IF kept THEN proc[p].pcmd ELSE NoCmd]
    /\ causes' = causes \cup Cancelled(p)
    /\ End(p)
    /\ UNCHANGED <<allegroVars, requests, faults>>

\* a failed confirmation says so only when Allegro refused
Fail(p) ==
    /\ proc[p].pc = "fail"
    /\ IF proc[p].op # "confirm"
       THEN /\ proc' = [proc EXCEPT ![p] = [IdleProc EXCEPT !.pc = "release"]]
            /\ UNCHANGED <<draft, causes>>
       ELSE /\ End(p)
            /\ IF proc[p].outcome = "over"
               THEN /\ draft' = [draft EXCEPT !.status = "error"]
                    /\ causes' = causes \cup Cancelled(p) \cup Hidden
                         \cup (IF draft.status # "pending_confirmation"
                               THEN {"late_failure"} ELSE {})
               ELSE UNCHANGED <<draft, causes>>
    /\ UNCHANGED <<allegroVars, requests, faults>>

\* release_execution_claim reads the draft and reopens one still executing
Release(p) ==
    /\ proc[p].pc = "release"
    /\ IF draft.status = "executing" THEN Goto(p, "reopen") ELSE End(p)
    /\ UNCHANGED <<draft, allegroVars, requests, faults, causes>>

Reopen(p) ==
    /\ proc[p].pc = "reopen"
    /\ draft' = [draft EXCEPT !.status = "error"]
    /\ causes' = causes \cup Cancelled(p) \cup Hidden
         \cup (IF \/ draft.status # "executing"
                  \/ \E q \in Process \ {p} : Running(q)
               THEN {"foreign_release"} ELSE {})
    /\ End(p)
    /\ UNCHANGED <<allegroVars, requests, faults>>

-----------------------------------------------------------------------------
(***************************************************************************)
(* order_pickup, and the pickup of an execution: order_allegro_pickup      *)
(* creates or resumes one pickup command.                                  *)
(***************************************************************************)
Known(d) == {k \in Parcel : d.ships[k].id}

OrderPickup(p) ==
    /\ draft.status = "created" /\ ~draft.pickup /\ Known(draft) # {}
    /\ Begin(p, "pickup", "claim_pickup")

\* mutant: the flag is not looked at again
ClaimPickupUnchecked(p) ==
    /\ proc[p].pc = "claim_pickup"
    /\ draft' = [draft EXCEPT !.pickup = TRUE]
    /\ LET resumed == proc[p].snap.pickupCommand IN
       proc' = [proc EXCEPT
                  ![p].pc = IF resumed = NoCmd THEN "propose"
                                               ELSE "pickup_status",
                  ![p].pcmd = resumed]
    /\ UNCHANGED <<allegroVars, requests, faults, causes>>

\* try_claim_pickup
ClaimPickup(p) ==
    /\ proc[p].pc = "claim_pickup"
    /\ IF draft.pickup
       THEN End(p) /\ UNCHANGED <<draft, causes>>
       ELSE /\ draft' = [draft EXCEPT !.pickup = TRUE]
            /\ LET resumed == proc[p].snap.pickupCommand IN
               /\ proc' = [proc EXCEPT
                    ![p].pc = IF resumed = NoCmd THEN "propose"
                                                 ELSE "pickup_status",
                    ![p].pcmd = resumed]
               /\ causes' = causes
                    \cup (IF draft.pickupCommand # resumed
                          THEN {"stale_pickup"} ELSE {})
                    \cup (IF draft.status # "created"
                          THEN {"cancel_raced"} ELSE {})
    /\ UNCHANGED <<allegroVars, requests, faults>>

\* how a run and a request go on when they know about the pickup
Learnt(p, outcome) ==
    proc' = [proc EXCEPT
               ![p].pc = IF proc[p].op = "pickup" THEN "unpickup" ELSE "finish",
               ![p].outcome = outcome]

\* get_ship_with_allegro_pickup_proposals finds no slot
NoSlot(p) ==
    /\ proc[p].pc = "propose"
    /\ Learnt(p, "none")
    /\ UNCHANGED <<draft, allegroVars, requests, faults, causes>>

CreatePickup(p) ==
    /\ proc[p].pc = "propose" /\ Len(pickups) < MaxPickups
    /\ pickups' = Append(pickups, "pending")
    /\ proc' = [proc EXCEPT ![p].pc = "persist_pickup",
                            ![p].pcmd = Len(pickups')]
    /\ UNCHANGED <<draft, commands, requests, faults, causes>>

CreatePickupFault(p) ==
    /\ proc[p].pc = "propose" /\ MayFault
    /\ \/ UNCHANGED <<pickups, causes>>
       \/ /\ Len(pickups) < MaxPickups
          /\ pickups' = Append(pickups, "pending")
          /\ causes' = causes \cup {"lost_answer"}
    /\ Learnt(p, "failed")
    /\ UNCHANGED <<draft, commands, requests>>

\* persist_pickup_command of order_pickup also gives the claim back
PersistPickup(p) ==
    /\ proc[p].pc = "persist_pickup"
    /\ draft' = [draft EXCEPT !.pickupCommand = proc[p].pcmd,
                    !.dispatch = NoCmd,
                    !.pickup = IF proc[p].op = "pickup" THEN FALSE ELSE @]
    /\ Goto(p, "pickup_status")
    /\ UNCHANGED <<allegroVars, requests, faults, causes>>

\* a run takes no failure of the table for one of the pickup and fails
PersistPickupFault(p) ==
    /\ proc[p].pc = "persist_pickup" /\ MayFault
    /\ causes' = causes \cup {"lost_answer"}
    /\ IF proc[p].op = "pickup"
       THEN proc' = [proc EXCEPT ![p].pc = "unpickup", ![p].outcome = "failed",
                                 ![p].pcmd = NoCmd]
       ELSE Goto(p, "fail")
    /\ UNCHANGED <<draft, allegroVars, requests>>

PickupStatus(p) ==
    /\ proc[p].pc = "pickup_status"
    /\ Learnt(p, CASE pickups[proc[p].pcmd] = "pending" -> "pending"
                   [] pickups[proc[p].pcmd] = "error" -> "over"
                   [] OTHER -> "success")
    /\ UNCHANGED <<draft, allegroVars, requests, faults, causes>>

PickupStatusFault(p) ==
    /\ proc[p].pc = "pickup_status" /\ MayFault
    /\ Learnt(p, "failed")
    /\ UNCHANGED <<draft, allegroVars, requests, causes>>

\* another request has dealt with the pickup since this one looked
Overtaken(p) ==
    /\ draft.pickupCommand # proc[p].pcmd
    /\ proc[p].outcome # "success" \/ draft.dispatch # proc[p].pcmd

\* order_pickup writes what it has learnt
WritePickup(p) ==
    /\ proc[p].pc = "unpickup"
    /\ causes' = IF Overtaken(p) THEN causes \cup {"stale_pickup"} ELSE causes
    /\ draft' =
        CASE proc[p].outcome = "pending" ->
               [draft EXCEPT !.pickup = FALSE, !.dispatch = NoCmd,
                             !.pickupCommand = proc[p].pcmd]
          [] proc[p].outcome = "success" ->
               [draft EXCEPT !.pickup = TRUE, !.dispatch = proc[p].pcmd,
                             !.pickupCommand = NoCmd]
          [] proc[p].outcome = "over" ->
               [draft EXCEPT !.pickup = FALSE, !.pickupCommand = NoCmd]
          [] OTHER -> [draft EXCEPT !.pickup = FALSE]
    /\ End(p)
    /\ UNCHANGED <<allegroVars, requests, faults>>

\* it only gives the claim back when the answer cannot be stored
WritePickupFault(p) ==
    /\ proc[p].pc = "unpickup" /\ proc[p].outcome \in {"pending", "success"}
    /\ MayFault
    /\ proc' = [proc EXCEPT ![p].outcome = "failed"]
    /\ UNCHANGED <<draft, allegroVars, requests, causes>>

-----------------------------------------------------------------------------
(***************************************************************************)
(* cancel_shipment asks for every known shipment; cancel_dispatch for the  *)
(* pickup.  Neither looks at the status of the draft.                      *)
(***************************************************************************)
CancelShipment(p) ==
    Known(draft) # {} /\ Begin(p, "cancel_shipment", "cancel")

Raced(p) == IF \/ proc[p].snap.status # draft.status
               \/ \E q \in Process \ {p} : proc[q].pc # "idle"
            THEN {"cancel_raced"} ELSE {}

CancelOne(p, k) ==
    /\ proc[p].pc = "cancel" /\ proc[p].op = "cancel_shipment"
    /\ k \in Known(proc[p].snap)
    /\ LET cmd == proc[p].snap.ships[k].cmd IN
       commands' = [commands EXCEPT ![cmd].state = "cancelled"]
    /\ proc' = [proc EXCEPT
                  ![p].pc = IF Known(proc[p].snap) = {k} THEN "cancelled"
                                                         ELSE "cancel",
                  ![p].snap.ships[k].id = FALSE]
    /\ causes' = causes \cup Raced(p)
    /\ UNCHANGED <<draft, pickups, requests, faults>>

\* a request that fails half-way leaves the draft as it was
CancelFault(p) ==
    /\ proc[p].pc = "cancel" /\ MayFault
    /\ causes' = causes \cup {"lost_answer"}
    /\ End(p)
    /\ UNCHANGED <<draft, allegroVars, requests>>

WriteCancelled(p) ==
    /\ proc[p].pc = "cancelled"
    /\ draft' = IF proc[p].op = "cancel_shipment"
                THEN [draft EXCEPT !.status = "cancelled"]
                ELSE [draft EXCEPT !.pickup = FALSE, !.dispatch = NoCmd]
    /\ causes' = causes \cup Raced(p)
    /\ End(p)
    /\ UNCHANGED <<allegroVars, requests, faults>>

CancelDispatch(p) ==
    draft.dispatch # NoCmd /\ Begin(p, "cancel_dispatch", "cancel")

CancelPickup(p) ==
    /\ proc[p].pc = "cancel" /\ proc[p].op = "cancel_dispatch"
    /\ pickups' = [pickups EXCEPT ![proc[p].snap.dispatch] = "cancelled"]
    /\ Goto(p, "cancelled")
    /\ UNCHANGED <<draft, commands, requests, faults, causes>>

-----------------------------------------------------------------------------
(***************************************************************************)
(* update_draft: the plan of an unlocked draft, and the end of a review.   *)
(***************************************************************************)
\* mutant: only the status locks the plan
BreakdownLockedByStatus(d) == d.status \in BREAKDOWN_LOCKED_STATUSES

BreakdownLocked(d) ==
    \/ d.status \in BREAKDOWN_LOCKED_STATUSES
    \/ \E k \in Parcel : d.ships[k].cmd # NoCmd

Repack(p) == ~BreakdownLocked(draft) /\ Begin(p, "repack", "save")

Review(p) == draft.status = "needs_review" /\ Begin(p, "review", "save")

Save(p) ==
    /\ proc[p].pc = "save"
    /\ IF proc[p].op = "repack"
       THEN /\ draft' = [draft EXCEPT !.repacked = TRUE]
            /\ causes' = IF BreakdownLocked(draft)
                         THEN causes \cup {"stale_repack"} ELSE causes
       ELSE /\ draft' = [draft EXCEPT !.status = "pending"]
            /\ causes' = IF draft.status # "needs_review"
                         THEN causes \cup {"stale_review"} ELSE causes
    /\ End(p)
    /\ UNCHANGED <<allegroVars, requests, faults>>

-----------------------------------------------------------------------------
(***************************************************************************)
(* Allegro, external: it carries out commands in its own time.             *)
(***************************************************************************)
CommandDone(c, state) ==
    /\ c \in DOMAIN commands /\ commands[c].state = "pending"
    /\ commands' = [commands EXCEPT ![c].state = state]
    /\ UNCHANGED <<draft, pickups, proc, requests, faults, causes>>

PickupDone(c, state) ==
    /\ c \in DOMAIN pickups /\ pickups[c] = "pending"
    /\ pickups' = [pickups EXCEPT ![c] = state]
    /\ UNCHANGED <<draft, commands, proc, requests, faults, causes>>

\* the replica is killed: it matters if a command or a pickup is in its hands
Crash(p) ==
    /\ proc[p].pc # "idle" /\ MayFault
    /\ End(p)
    /\ causes' = IF \/ Unsaved(p)
                    \/ proc[p].pc \in {"propose", "persist_pickup",
                                       "pickup_status", "unpickup", "finish",
                                       "cancel", "cancelled"}
                 THEN causes \cup {"crash"} ELSE causes
    /\ UNCHANGED <<draft, allegroVars, requests>>

Request(p) ==
    \/ Execute(p) \/ Confirm(p) \/ OrderPickup(p) \/ CancelShipment(p) \/ CancelDispatch(p)
    \/ Repack(p) \/ Review(p)

Run(p) ==
    \/ Claim(p) \/ Proposal(p) \/ Resume(p) \/ CreateShipment(p)
    \/ PersistCommand(p) \/ Checkpoint(p) \/ Wait(p) \/ Record(p)
    \/ ParcelsDone(p) \/ FinishPending(p) \/ Finish(p) \/ Fail(p) \/ Release(p)
    \/ Reopen(p)

Pickup(p) ==
    \/ ClaimPickup(p) \/ NoSlot(p) \/ CreatePickup(p) \/ PersistPickup(p)
    \/ PickupStatus(p) \/ WritePickup(p)

Action(p) ==
    \/ \E k \in Parcel : CancelOne(p, k)
    \/ CancelPickup(p) \/ WriteCancelled(p) \/ Save(p)

Fault(p) ==
    \/ CreateShipmentFault(p) \/ WriteFault(p) \/ ReadFault(p) \/ Refused(p)
    \/ CreatePickupFault(p) \/ PersistPickupFault(p) \/ PickupStatusFault(p)
    \/ WritePickupFault(p) \/ CancelFault(p) \/ Crash(p)

Next ==
    \/ \E p \in Process : Request(p) \/ Run(p) \/ Pickup(p) \/ Action(p) \/ Fault(p)
    \/ \E c \in Cmd, state \in {"success", "error"} :
          CommandDone(c, state) \/ PickupDone(c, state)

Spec == Init /\ [][Next]_vars

-----------------------------------------------------------------------------
Excused(excuses) == causes \cap excuses # {}

Live(c) == commands[c].state \in {"pending", "success"}

(***************************************************************************)
(* A parcel is ordered once, however often the draft is executed and       *)
(* confirmed while Allegro has not answered (composition.py:557).          *)
(***************************************************************************)
OneLabelPerParcel ==
    \/ Excused({"second_run", "lost_answer", "crash", "stale_review",
                "forgotten"})
    \/ \A c, d \in DOMAIN commands :
          Live(c) /\ Live(d) /\ commands[c].parcel = commands[d].parcel => c = d

(***************************************************************************)
(* A draft that is created carries the shipment of each of its parcels, so *)
(* that all of them can be printed, collected and cancelled; a request that*)
(* is cancelling them one by one has not said so yet.                      *)
(***************************************************************************)
CreatedIsComplete ==
    \/ Excused({"second_run", "stale_review", "cancel_raced", "lost_answer",
                "crash"})
    \/ \E p \in Process : proc[p].op = "cancel_shipment"
    \/ draft.status = "created"
          => \A k \in Parcel :
                /\ draft.ships[k].id
                /\ commands[draft.ships[k].cmd].state = "success"

(***************************************************************************)
(* One pickup is ordered for a draft (shipping_store.py:454).              *)
(***************************************************************************)
OnePickup ==
    \/ Excused({"second_run", "lost_answer", "stale_pickup", "cancel_raced",
                "crash", "stale_review", "late_failure", "foreign_release"})
    \/ Cardinality({c \in DOMAIN pickups :
                       pickups[c] \in {"pending", "success"}}) <= 1

(***************************************************************************)
(* A draft that says its pickup is ordered can name the pickup, unless the *)
(* request that claimed it is still at work (fulfillment.py:66).           *)
(***************************************************************************)
PickupIsOrdered ==
    \/ Excused({"second_run", "cancel_raced", "crash", "stale_pickup",
                "stale_review", "late_failure", "foreign_release"})
    \/ draft.pickup
          => \/ draft.dispatch # NoCmd /\ pickups[draft.dispatch] = "success"
             \/ \E p \in Process :
                   proc[p].op \in {"pickup", "cancel_dispatch"}

(***************************************************************************)
(* A cancelled draft stays cancelled (fulfillment.py:224).                 *)
(***************************************************************************)
CancelledStays ==
    [][draft.status = "cancelled" /\ draft'.status # "cancelled"
          => Excused({"cancel_raced"})']_vars

(***************************************************************************)
(* The plan of a draft is not changed once a parcel of it was ordered      *)
(* (drafts.py:287).                                                        *)
(***************************************************************************)
PlanStands ==
    [][draft.repacked # draft'.repacked
          => commands = << >> \/ Excused({"stale_repack", "stale_review", "second_run",
                                           "foreign_release", "lost_answer",
                                           "crash", "forgotten",
                                           "late_failure"})']_vars

(***************************************************************************)
(* As its lifecycle is described, a claim keeps every other run out: two   *)
(* execute requests never both order a parcel (shipping_state.py:16).      *)
(***************************************************************************)
ClaimKeepsOut ==
    Cardinality({p \in Process :
        proc[p].op = "execute" /\ Running(p)}) <= 1

(***************************************************************************)
(* Each parcel of the draft is ordered once, and created means that all of *)
(* them are, whatever executions, confirmations and cancellations overlap, *)
(* unless for one of the causes each part names (composition.py:557).      *)
(***************************************************************************)
ParcelsAreOrderedOnce == OneLabelPerParcel /\ CreatedIsComplete

(***************************************************************************)
(* One pickup is ordered, and the draft can name it                        *)
(* (shipping_store.py:464, fulfillment.py:66).                             *)
(***************************************************************************)
PickupIsOne == OnePickup /\ PickupIsOrdered

(***************************************************************************)
(* What an operator decided stands against the runs and requests that had  *)
(* read the draft before: a cancellation, and the plan once a parcel of it *)
(* was ordered (fulfillment.py:224, drafts.py:287).                        *)
(***************************************************************************)
DecisionsStand == CancelledStays /\ PlanStands
=============================================================================
