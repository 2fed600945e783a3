-------------------------- MODULE DraftActionsProofs --------------------------
(***************************************************************************)
(* Theorems about DraftActions, for any number of requests, parcels,       *)
(* commands and pickups, with and without crashes, failing calls and lost  *)
(* answers.                                                                *)
(***************************************************************************)
EXTENDS DraftActionsInv, SequenceTheorems, WellFoundedInduction, TLAPS

USE ActionBounds

LEMMA Least ==
  ASSUME NEW S \in SUBSET Nat, S # {}
  PROVE  \E x \in S : \A y \in S : x <= y
<1> DEFINE Less == OpToRel(<, Nat)
<1>1. IsWellFoundedOn(Less, Nat)
  BY NatLessThanWellFounded
<1>2. \A x, y \in Nat : y < x => <<y, x>> \in Less
  BY DEF OpToRel
<1>3. PICK x \in S : \A y \in S : ~ (<<y, x>> \in Less)
  <2> HIDE DEF Less
  <2> QED  BY <1>1, WFMin
<1>4. ASSUME NEW y \in S PROVE x <= y
  <2>1. x \in Nat /\ y \in Nat
    OBVIOUS
  <2>2. ~(y < x)
    <3> HIDE DEF Less
    <3> QED  BY <1>2, <1>3, <2>1
  <2> QED  BY <2>1, <2>2
<1> QED  BY <1>4

LEMMA CurrentIsFirst ==
  ASSUME NEW p \in Process, Todo(p) # {}
  PROVE  /\ Current(p) \in Todo(p) /\ Current(p) \in Parcel
         /\ \A k \in Todo(p) : Current(p) <= k
<1>1. Todo(p) \in SUBSET Nat /\ Todo(p) \subseteq Parcel
  BY DEF Todo, Parcel
<1>2. \E k \in Todo(p) : \A j \in Todo(p) : k <= j
  BY <1>1, Least
<1> QED  BY <1>1, <1>2 DEF Current

-----------------------------------------------------------------------------
(***************************************************************************)
(* Types.                                                                  *)
(***************************************************************************)
LEMMA DraftFields ==
  ASSUME NEW d \in Draft
  PROVE  /\ d.status \in Status /\ d.ships \in Shipments
         /\ d.command \in Cmd \cup {NoCmd} /\ d.pickup \in BOOLEAN
         /\ d.pickupCommand \in Cmd \cup {NoCmd}
         /\ d.dispatch \in Cmd \cup {NoCmd} /\ d.repacked \in BOOLEAN
  BY DEF Draft

LEMMA ProcFields ==
  ASSUME TypeOK, NEW p \in Process
  PROVE  /\ proc[p] \in Proc
         /\ proc[p].op \in Op /\ proc[p].snap \in Draft
         /\ proc[p].cmd \in Cmd \cup {NoCmd}
         /\ proc[p].pcmd \in Cmd \cup {NoCmd}
         /\ proc[p].pc \in Pc /\ proc[p].outcome \in Outcome
  BY DEF TypeOK, Proc

LEMMA InitialType ==
  ASSUME NEW status \in Status PROVE InitialDraft(status) \in Draft
  BY DEF InitialDraft, Draft, NoShipments, Shipments

LEMMA IdleType == IdleProc \in Proc
  BY InitialType DEF IdleProc, Proc, Pc, Outcome, Op, Status

LEMMA ShipsType ==
  ASSUME NEW d \in Draft, NEW ships \in Shipments
  PROVE  /\ [d EXCEPT !.ships = ships] \in Draft
         /\ [d EXCEPT !.ships = ships].ships = ships
  BY DEF Draft

LEMMA CheckpointedType ==
  ASSUME TypeOK, NEW p \in Process, NEW id \in BOOLEAN
  PROVE  Checkpointed(p, id) \in Shipments
  BY ProcFields, DraftFields DEF Checkpointed, Shipments

LEMMA TypeInit == Init => TypeOK
  BY InitialType, IdleType DEF Init, TypeOK, Status, Cause

-----------------------------------------------------------------------------
(***************************************************************************)
(* A step of a request, by what it does to the request's own state: as the *)
(* code of the model has it, and field by field.                           *)
(***************************************************************************)
Becomes(p, pc, snap, cmd, pcmd, outcome) ==
    proc' = [proc EXCEPT ![p] =
               [pc |-> pc, op |-> proc[p].op, snap |-> snap, cmd |-> cmd,
                pcmd |-> pcmd, outcome |-> outcome]]

Others(p) == \A q \in Process \ {p} : proc'[q] = proc[q]

Goes(p, pc, cmd, pcmd, outcome) ==
    /\ proc'[p].pc = pc /\ proc'[p].op = proc[p].op
    /\ proc'[p].cmd = cmd /\ proc'[p].pcmd = pcmd /\ proc'[p].outcome = outcome

Moves(p, pc, cmd, pcmd, outcome) ==
    Goes(p, pc, cmd, pcmd, outcome) /\ proc'[p].snap = proc[p].snap

Turns(p, pc) == Moves(p, pc, proc[p].cmd, proc[p].pcmd, proc[p].outcome)

Reships(p, ships) ==
    /\ proc'[p].snap.ships = ships
    /\ proc'[p].snap.status = proc[p].snap.status
    /\ proc'[p].snap.command = proc[p].snap.command
    /\ proc'[p].snap.pickup = proc[p].snap.pickup
    /\ proc'[p].snap.pickupCommand = proc[p].snap.pickupCommand
    /\ proc'[p].snap.dispatch = proc[p].snap.dispatch

ProcTyped == proc' \in [Process -> Proc]

LEMMA BecomesFields ==
  ASSUME TypeOK, NEW p \in Process, NEW pc, NEW snap, NEW cmd, NEW pcmd,
         NEW outcome, Becomes(p, pc, snap, cmd, pcmd, outcome)
  PROVE  /\ Goes(p, pc, cmd, pcmd, outcome) /\ proc'[p].snap = snap
         /\ Others(p)
  BY DEF Becomes, TypeOK, Goes, Others

LEMMA BecomesType ==
  ASSUME TypeOK, NEW p \in Process, NEW pc \in Pc, NEW snap \in Draft,
         NEW cmd \in Cmd \cup {NoCmd}, NEW pcmd \in Cmd \cup {NoCmd},
         NEW outcome \in Outcome, Becomes(p, pc, snap, cmd, pcmd, outcome)
  PROVE  ProcTyped
<1> DEFINE new == [pc |-> pc, op |-> proc[p].op, snap |-> snap, cmd |-> cmd,
                   pcmd |-> pcmd, outcome |-> outcome]
<1>1. new \in Proc
  BY ProcFields DEF Proc
<1>2. proc' = [proc EXCEPT ![p] = new]
  BY DEF Becomes
<1> HIDE DEF new
<1> QED  BY <1>1, <1>2 DEF TypeOK, ProcTyped

LEMMA KeepsSnap ==
  ASSUME TypeOK, NEW p \in Process, NEW pc \in Pc, NEW cmd \in Cmd \cup {NoCmd},
         NEW pcmd \in Cmd \cup {NoCmd}, NEW outcome \in Outcome,
         Becomes(p, pc, proc[p].snap, cmd, pcmd, outcome)
  PROVE  Moves(p, pc, cmd, pcmd, outcome) /\ Others(p) /\ ProcTyped
<1>1. Moves(p, pc, cmd, pcmd, outcome) /\ Others(p)
  BY BecomesFields DEF Moves
<1>2. proc[p].snap \in Draft
  BY ProcFields
<1>3. ProcTyped
  BY <1>2, BecomesType
<1> QED  BY <1>1, <1>3

LEMMA TakesShips ==
  ASSUME TypeOK, NEW p \in Process, NEW pc \in Pc, NEW ships \in Shipments,
         Becomes(p, pc, [proc[p].snap EXCEPT !.ships = ships], proc[p].cmd,
                 proc[p].pcmd, proc[p].outcome)
  PROVE  /\ Goes(p, pc, proc[p].cmd, proc[p].pcmd, proc[p].outcome)
         /\ Reships(p, ships) /\ Others(p) /\ ProcTyped
<1> DEFINE snap == [proc[p].snap EXCEPT !.ships = ships]
<1>1. snap \in Draft
  BY ShipsType, ProcFields
<1>2. /\ proc[p].cmd \in Cmd \cup {NoCmd} /\ proc[p].pcmd \in Cmd \cup {NoCmd}
      /\ proc[p].outcome \in Outcome
  BY ProcFields DEF Proc
<1>3. /\ snap.ships = ships /\ snap.status = proc[p].snap.status
      /\ snap.command = proc[p].snap.command
      /\ snap.pickup = proc[p].snap.pickup
      /\ snap.pickupCommand = proc[p].snap.pickupCommand
      /\ snap.dispatch = proc[p].snap.dispatch
  BY ProcFields DEF Draft
<1> HIDE DEF snap
<1>4. /\ Goes(p, pc, proc[p].cmd, proc[p].pcmd, proc[p].outcome)
      /\ proc'[p].snap = snap /\ Others(p)
  BY BecomesFields DEF snap
<1>5. ProcTyped
  BY <1>1, <1>2, BecomesType DEF snap
<1> QED  BY <1>3, <1>4, <1>5 DEF Reships

LEMMA PcMove ==
  ASSUME TypeOK, NEW p \in Process, NEW pc \in Pc,
         proc' = [proc EXCEPT ![p].pc = pc]
  PROVE  /\ Moves(p, pc, proc[p].cmd, proc[p].pcmd, proc[p].outcome)
         /\ Others(p) /\ ProcTyped
<1>1. proc' = [proc EXCEPT ![p] = [proc[p] EXCEPT !.pc = pc]]
  BY DEF TypeOK
<1>2. Becomes(p, pc, proc[p].snap, proc[p].cmd, proc[p].pcmd, proc[p].outcome)
  BY <1>1, ProcFields DEF Becomes, Proc
<1> QED  BY <1>2, KeepsSnap, ProcFields

LEMMA CmdMove ==
  ASSUME TypeOK, NEW p \in Process, NEW pc \in Pc, NEW cmd \in Cmd \cup {NoCmd},
         proc' = [proc EXCEPT ![p].pc = pc, ![p].cmd = cmd]
  PROVE  /\ Moves(p, pc, cmd, proc[p].pcmd, proc[p].outcome)
         /\ Others(p) /\ ProcTyped
<1>1. proc' = [proc EXCEPT ![p] = [proc[p] EXCEPT !.pc = pc, !.cmd = cmd]]
  BY DEF TypeOK
<1>2. Becomes(p, pc, proc[p].snap, cmd, proc[p].pcmd, proc[p].outcome)
  BY <1>1, ProcFields DEF Becomes, Proc
<1> QED  BY <1>2, KeepsSnap, ProcFields

LEMMA PickupMove ==
  ASSUME TypeOK, NEW p \in Process, NEW pc \in Pc, NEW pcmd \in Cmd \cup {NoCmd},
         proc' = [proc EXCEPT ![p].pc = pc, ![p].pcmd = pcmd]
  PROVE  /\ Moves(p, pc, proc[p].cmd, pcmd, proc[p].outcome)
         /\ Others(p) /\ ProcTyped
<1>1. proc' = [proc EXCEPT ![p] = [proc[p] EXCEPT !.pc = pc, !.pcmd = pcmd]]
  BY DEF TypeOK
<1>2. Becomes(p, pc, proc[p].snap, proc[p].cmd, pcmd, proc[p].outcome)
  BY <1>1, ProcFields DEF Becomes, Proc
<1> QED  BY <1>2, KeepsSnap, ProcFields

LEMMA OutcomeMove ==
  ASSUME TypeOK, NEW p \in Process, NEW pc \in Pc, NEW outcome \in Outcome,
         proc' = [proc EXCEPT ![p].pc = pc, ![p].outcome = outcome]
  PROVE  /\ Moves(p, pc, proc[p].cmd, proc[p].pcmd, outcome)
         /\ Others(p) /\ ProcTyped
<1>1. proc' = [proc EXCEPT ![p] = [proc[p] EXCEPT !.pc = pc, !.outcome = outcome]]
  BY DEF TypeOK
<1>2. Becomes(p, pc, proc[p].snap, proc[p].cmd, proc[p].pcmd, outcome)
  BY <1>1, ProcFields DEF Becomes, Proc
<1> QED  BY <1>2, KeepsSnap, ProcFields

LEMMA OutcomeOnly ==
  ASSUME TypeOK, NEW p \in Process, NEW outcome \in Outcome,
         proc' = [proc EXCEPT ![p].outcome = outcome]
  PROVE  /\ Moves(p, proc[p].pc, proc[p].cmd, proc[p].pcmd, outcome)
         /\ Others(p) /\ ProcTyped
<1>1. proc' = [proc EXCEPT ![p] = [proc[p] EXCEPT !.outcome = outcome]]
  BY DEF TypeOK
<1>2. Becomes(p, proc[p].pc, proc[p].snap, proc[p].cmd, proc[p].pcmd, outcome)
  BY <1>1, ProcFields DEF Becomes, Proc
<1> QED  BY <1>2, KeepsSnap, ProcFields

LEMMA LostMove ==
  ASSUME TypeOK, NEW p \in Process, NEW pc \in Pc, NEW outcome \in Outcome,
         NEW pcmd \in Cmd \cup {NoCmd},
         proc' = [proc EXCEPT ![p].pc = pc, ![p].outcome = outcome,
                              ![p].pcmd = pcmd]
  PROVE  /\ Moves(p, pc, proc[p].cmd, pcmd, outcome)
         /\ Others(p) /\ ProcTyped
<1>1. proc' = [proc EXCEPT ![p] = [proc[p] EXCEPT !.pc = pc, !.outcome = outcome,
                                           !.pcmd = pcmd]]
  BY DEF TypeOK
<1>2. Becomes(p, pc, proc[p].snap, proc[p].cmd, pcmd, outcome)
  BY <1>1, ProcFields DEF Becomes, Proc
<1> QED  BY <1>2, KeepsSnap, ProcFields

LEMMA ShipsMove ==
  ASSUME TypeOK, NEW p \in Process, NEW pc \in Pc, NEW ships \in Shipments,
         proc' = [proc EXCEPT ![p].pc = pc, ![p].snap.ships = ships]
  PROVE  /\ Goes(p, pc, proc[p].cmd, proc[p].pcmd, proc[p].outcome)
         /\ Reships(p, ships) /\ Others(p) /\ ProcTyped
<1>1. proc' = [proc EXCEPT ![p] = [proc[p] EXCEPT !.pc = pc,
                                                  !.snap.ships = ships]]
  BY DEF TypeOK
<1>2. Becomes(p, pc, [proc[p].snap EXCEPT !.ships = ships], proc[p].cmd,
              proc[p].pcmd, proc[p].outcome)
  BY <1>1, ProcFields DEF Becomes, Proc
<1> QED  BY <1>2, TakesShips

LEMMA CancelMove ==
  ASSUME TypeOK, NEW p \in Process, NEW pc \in Pc, NEW k \in Parcel,
         proc' = [proc EXCEPT ![p].pc = pc, ![p].snap.ships[k].id = FALSE]
  PROVE  /\ Goes(p, pc, proc[p].cmd, proc[p].pcmd, proc[p].outcome)
         /\ Reships(p, [proc[p].snap.ships EXCEPT ![k].id = FALSE])
         /\ Others(p) /\ ProcTyped
<1> DEFINE ships == [proc[p].snap.ships EXCEPT ![k].id = FALSE]
<1>1. proc' = [proc EXCEPT ![p] = [proc[p] EXCEPT !.pc = pc,
                                                  !.snap.ships[k].id = FALSE]]
  BY DEF TypeOK
<1>2. Becomes(p, pc, [proc[p].snap EXCEPT !.ships = ships], proc[p].cmd,
              proc[p].pcmd, proc[p].outcome)
  BY <1>1, ProcFields DEF Becomes, Proc
<1>3. proc[p].snap.ships \in Shipments
  BY ProcFields, DraftFields
<1>4. ships \in Shipments
  BY <1>3 DEF Shipments
<1> QED  BY <1>2, <1>4, TakesShips

LEMMA EndMove ==
  ASSUME TypeOK, NEW p \in Process, NEW new \in Proc,
         proc' = [proc EXCEPT ![p] = new]
  PROVE  proc'[p] = new /\ Others(p) /\ ProcTyped
  BY DEF TypeOK, Others, ProcTyped

-----------------------------------------------------------------------------
(***************************************************************************)
(* The kinds of steps, by what they do to the request, to the row and to   *)
(* Allegro.  Every invariant below is kept by each kind.                   *)
(***************************************************************************)
Orders(status, ships, command) ==
    draft'.status = status /\ draft'.ships = ships /\ draft'.command = command

Collects(pickup, pickupCommand, dispatch) ==
    /\ draft'.pickup = pickup /\ draft'.pickupCommand = pickupCommand
    /\ draft'.dispatch = dispatch

SameOrder == Orders(draft.status, draft.ships, draft.command)
SamePickup == Collects(draft.pickup, draft.pickupCommand, draft.dispatch)
SameDraft == draft' = draft
SameAllegro == commands' = commands /\ pickups' = pickups

Caused(excuses) == causes' \cap excuses # {}

Asked(op, pc) ==
    \/ op = "execute" /\ pc = "claim"
    \/ op = "confirm" /\ pc = "proposal" /\ draft.status = "pending_confirmation"
    \/ op = "pickup" /\ pc = "claim_pickup" /\ draft.status = "created"
    \/ op = "cancel_shipment" /\ pc = "cancel"
    \/ op = "cancel_dispatch" /\ pc = "cancel" /\ draft.dispatch # NoCmd
    \/ op = "repack" /\ pc = "save" /\ ~BreakdownLocked(draft)
    \/ op = "review" /\ pc = "save" /\ draft.status = "needs_review"

Starts(p) ==
    /\ proc[p].pc = "idle" /\ SameDraft /\ SameAllegro
    /\ \E op \in Op, pc \in Pc :
          /\ Asked(op, pc)
          /\ proc'[p] = [pc |-> pc, op |-> op, snap |-> draft, cmd |-> NoCmd,
                         pcmd |-> NoCmd, outcome |-> "none"]

\* a request ends, or is killed, and leaves everything as it is
Stops(p) ==
    /\ proc'[p] = IdleProc /\ SameDraft /\ SameAllegro
    /\ \/ Unsaved(p)
       \/ proc[p].pc \in {"propose", "persist_pickup", "pickup_status",
                          "unpickup", "finish", "cancelled"}
       => Caused({"crash"})
    /\ proc[p].pc = "cancel" => Caused({"crash", "lost_answer"})

\* a run goes on to fail
Fails(p) ==
    /\ proc[p].pc \in {"proposal", "parcel", "persist", "checkpoint", "wait",
                       "record", "pending", "finish", "persist_pickup"}
    /\ proc[p].pc = "persist_pickup" => proc[p].op # "pickup"
    /\ \E outcome \in Outcome :
          Moves(p, "fail", proc[p].cmd, proc[p].pcmd, outcome)
    /\ SameDraft /\ pickups' = pickups
    /\ \/ commands' = commands
       \/ Ordered(p) /\ Todo(p) # {} /\ Caused({"lost_answer"})
    /\ Unsaved(p) \/ Unbooked(p) \/ proc[p].pc = "persist_pickup"
          => Caused({"lost_answer"})

\* a failed execution, on its way to release its claim
Releases(p) ==
    /\ SameDraft /\ SameAllegro
    /\ \/ /\ proc[p].pc = "fail" /\ proc[p].op # "confirm"
          /\ proc'[p] = [IdleProc EXCEPT !.pc = "release"]
       \/ proc[p].pc = "release" /\ Turns(p, "reopen")

\* a failed run says so
Errs(p) ==
    /\ proc'[p] = IdleProc /\ SameAllegro
    /\ Orders("error", draft.ships, draft.command) /\ SamePickup
    /\ Cancelled(p) \cup Hidden \subseteq causes'
    /\ \/ /\ proc[p].pc = "fail"
          /\ draft.status = "pending_confirmation" \/ Caused({"late_failure"})
       \/ /\ proc[p].pc = "reopen"
          /\ \/ /\ draft.status = "executing"
                /\ \A q \in Process \ {p} : ~Running(q)
             \/ Caused({"foreign_release"})

Claims(p) ==
    /\ proc[p].pc = "claim" /\ draft.status \in EXECUTABLE_STATES
    /\ Turns(p, "proposal") /\ SameAllegro
    /\ Orders("executing", draft.ships, draft.command) /\ SamePickup
    /\ SecondRun(p) \subseteq causes'

Proposes(p) ==
    /\ proc[p].pc = "proposal" /\ Turns(p, "parcel")
    /\ SameDraft /\ SameAllegro /\ SecondRun(p) \subseteq causes'

Resumes(p) ==
    /\ proc[p].pc = "parcel" /\ Todo(p) # {} /\ KnownCommand(p) # NoCmd
    /\ Moves(p, "checkpoint", KnownCommand(p), proc[p].pcmd, proc[p].outcome)
    /\ SameDraft /\ SameAllegro

Creates(p) ==
    /\ proc[p].pc = "parcel" /\ Todo(p) # {} /\ KnownCommand(p) = NoCmd
    /\ Ordered(p) /\ pickups' = pickups /\ SameDraft
    /\ Moves(p, "persist", Len(commands) + 1, proc[p].pcmd, proc[p].outcome)

Persists(p) ==
    /\ proc[p].pc = "persist" /\ Turns(p, "checkpoint") /\ SameAllegro
    /\ Orders("pending_confirmation", draft.ships, proc[p].cmd) /\ SamePickup

\* with the command only, or with the shipment
Checkpoints(p, id) ==
    /\ proc[p].pc = IF id THEN "record" ELSE "checkpoint"
    /\ Goes(p, IF id THEN "parcel" ELSE "wait", proc[p].cmd, proc[p].pcmd,
            proc[p].outcome)
    /\ Reships(p, Checkpointed(p, id)) /\ SameAllegro
    /\ Orders(draft.status, Checkpointed(p, id), draft.command) /\ SamePickup

Waits(p) ==
    /\ proc[p].pc = "wait" /\ SameDraft /\ SameAllegro
    /\ \/ Turns(p, "pending")
       \/ /\ commands[proc[p].cmd].state \notin {"pending", "error"}
          /\ Turns(p, "record")

Completes(p) ==
    /\ proc[p].pc = "parcel" /\ Todo(p) = {} /\ SameDraft /\ SameAllegro
    /\ LET resumed == IF proc[p].snap.pickup THEN NoCmd
                      ELSE proc[p].snap.pickupCommand IN
       \/ Turns(p, "finish")
       \/ /\ proc[p].op = "execute"
          /\ Moves(p, IF resumed = NoCmd THEN "propose" ELSE "pickup_status",
                   proc[p].cmd, resumed, proc[p].outcome)

Pends(p) ==
    /\ proc[p].pc = "pending" /\ proc'[p] = IdleProc /\ SameAllegro
    /\ Orders("pending_confirmation", proc[p].snap.ships, proc[p].cmd)
    /\ Collects(FALSE, draft.pickupCommand, draft.dispatch)
    /\ Cancelled(p) \subseteq causes'

Finishes(p) ==
    /\ proc[p].pc = "finish" /\ proc'[p] = IdleProc /\ SameAllegro
    /\ Orders("created", proc[p].snap.ships, proc[p].cmd)
    /\ Collects(proc[p].outcome = "success",
                IF proc[p].outcome \in {"pending", "failed"}
                THEN proc[p].pcmd ELSE NoCmd,
                IF proc[p].outcome = "success" THEN proc[p].pcmd ELSE NoCmd)
    /\ Cancelled(p) \subseteq causes'

ClaimsPickup(p) ==
    LET resumed == proc[p].snap.pickupCommand IN
    /\ proc[p].pc = "claim_pickup" /\ ~draft.pickup
    /\ Moves(p, IF resumed = NoCmd THEN "propose" ELSE "pickup_status",
             proc[p].cmd, resumed, proc[p].outcome)
    /\ SameOrder /\ Collects(TRUE, draft.pickupCommand, draft.dispatch)
    /\ SameAllegro
    /\ draft.pickupCommand # resumed => Caused({"stale_pickup"})
    /\ draft.status # "created" => Caused({"cancel_raced"})

\* what a request learns about its pickup, or does not
Learns(p) ==
    /\ SameDraft /\ commands' = commands
    /\ \E outcome \in Outcome :
          /\ Moves(p, IF proc[p].op = "pickup" THEN "unpickup" ELSE "finish",
                   proc[p].cmd, proc[p].pcmd, outcome)
          /\ \/ proc[p].pc = "propose" /\ outcome \in {"none", "failed"}
             \/ /\ proc[p].pc = "pickup_status" /\ outcome # "none"
                /\ outcome = "success" => pickups[proc[p].pcmd]
                                             \notin {"pending", "error"}
                /\ outcome = "over" => pickups[proc[p].pcmd] = "error"
    /\ \/ pickups' = pickups
       \/ /\ proc[p].pc = "propose" /\ Len(pickups) < MaxPickups
          /\ pickups' = Append(pickups, "pending") /\ Caused({"lost_answer"})

CreatesPickup(p) ==
    /\ proc[p].pc = "propose" /\ Len(pickups) < MaxPickups
    /\ pickups' = Append(pickups, "pending")
    /\ Moves(p, "persist_pickup", proc[p].cmd, Len(pickups) + 1, proc[p].outcome)
    /\ SameDraft /\ commands' = commands

PersistsPickup(p) ==
    /\ proc[p].pc = "persist_pickup" /\ Turns(p, "pickup_status")
    /\ SameOrder /\ SameAllegro
    /\ Collects(IF proc[p].op = "pickup" THEN FALSE ELSE draft.pickup,
                proc[p].pcmd, NoCmd)

LosesPickup(p) ==
    /\ proc[p].pc = "persist_pickup" /\ proc[p].op = "pickup"
    /\ Moves(p, "unpickup", proc[p].cmd, NoCmd, "failed")
    /\ SameDraft /\ SameAllegro /\ Caused({"lost_answer"})

GivesBack(p) ==
    /\ proc[p].pc = "unpickup" /\ proc[p].outcome \in {"pending", "success"}
    /\ Moves(p, "unpickup", proc[p].cmd, proc[p].pcmd, "failed")
    /\ SameDraft /\ SameAllegro

WritesPickup(p) ==
    /\ proc[p].pc = "unpickup" /\ proc'[p] = IdleProc
    /\ SameOrder /\ SameAllegro
    /\ Overtaken(p) => Caused({"stale_pickup"})
    /\ \/ proc[p].outcome = "pending" /\ Collects(FALSE, proc[p].pcmd, NoCmd)
       \/ proc[p].outcome = "success" /\ Collects(TRUE, NoCmd, proc[p].pcmd)
       \/ proc[p].outcome = "over" /\ Collects(FALSE, NoCmd, draft.dispatch)
       \/ /\ proc[p].outcome \in {"none", "failed"}
          /\ Collects(FALSE, draft.pickupCommand, draft.dispatch)

CancelsOne(p) ==
    /\ proc[p].pc = "cancel" /\ proc[p].op = "cancel_shipment"
    /\ \E k \in Known(proc[p].snap) :
          /\ commands' = [commands EXCEPT
                ![proc[p].snap.ships[k].cmd].state = "cancelled"]
          /\ Reships(p, [proc[p].snap.ships EXCEPT ![k].id = FALSE])
    /\ \E pc \in {"cancel", "cancelled"} :
          Goes(p, pc, proc[p].cmd, proc[p].pcmd, proc[p].outcome)
    /\ SameDraft /\ pickups' = pickups

CancelsCollection(p) ==
    /\ proc[p].pc = "cancel" /\ proc[p].op = "cancel_dispatch"
    /\ pickups' = [pickups EXCEPT ![proc[p].snap.dispatch] = "cancelled"]
    /\ Turns(p, "cancelled") /\ SameDraft /\ commands' = commands

SaysCancelled(p) ==
    /\ proc[p].pc = "cancelled" /\ proc'[p] = IdleProc /\ SameAllegro
    /\ Raced(p) \subseteq causes'
    /\ \/ /\ proc[p].op = "cancel_shipment"
          /\ Orders("cancelled", draft.ships, draft.command) /\ SamePickup
       \/ /\ proc[p].op # "cancel_shipment"
          /\ SameOrder /\ Collects(FALSE, draft.pickupCommand, NoCmd)

Saves(p) ==
    /\ proc[p].pc = "save" /\ proc'[p] = IdleProc /\ SameAllegro /\ SamePickup
    /\ \/ SameOrder
       \/ /\ Orders("pending", draft.ships, draft.command)
          /\ draft.status = "needs_review" \/ Caused({"stale_review"})

CommandAnswered ==
    /\ SameDraft /\ proc' = proc /\ pickups' = pickups
    /\ \E c \in DOMAIN commands, state \in {"success", "error"} :
          /\ commands[c].state = "pending"
          /\ commands' = [commands EXCEPT ![c].state = state]

PickupAnswered ==
    /\ SameDraft /\ proc' = proc /\ commands' = commands
    /\ \E c \in DOMAIN pickups, state \in {"success", "error"} :
          pickups[c] = "pending" /\ pickups' = [pickups EXCEPT ![c] = state]

RunStep(p) ==
    \/ Fails(p) \/ Releases(p) \/ Errs(p) \/ Claims(p) \/ Proposes(p)
    \/ Resumes(p) \/ Creates(p) \/ Persists(p)
    \/ (\E id \in BOOLEAN : Checkpoints(p, id))
    \/ Waits(p) \/ Completes(p) \/ Pends(p) \/ Finishes(p)

PickupStep(p) ==
    \/ ClaimsPickup(p) \/ Learns(p) \/ CreatesPickup(p) \/ PersistsPickup(p)
    \/ LosesPickup(p) \/ GivesBack(p) \/ WritesPickup(p)

OtherStep(p) ==
    \/ Starts(p) \/ Stops(p) \/ CancelsOne(p) \/ CancelsCollection(p)
    \/ SaysCancelled(p) \/ Saves(p)

Step(p) == Others(p) /\ (RunStep(p) \/ PickupStep(p) \/ OtherStep(p))

\* what every step has, besides
Sound == TypeOK' /\ causes \subseteq causes'

LEMMA CausesType ==
  ASSUME TypeOK, NEW X \in SUBSET Cause
  PROVE  causes \cup X \subseteq Cause
  BY DEF TypeOK

LEMMA BeginKind ==
  ASSUME TypeOK, NEW p \in Process, NEW op \in Op, NEW pc \in Pc,
         Begin(p, op, pc), Asked(op, pc)
  PROVE  Others(p) /\ Starts(p) /\ Sound
<1> DEFINE new == [pc |-> pc, op |-> op, snap |-> draft, cmd |-> NoCmd,
                   pcmd |-> NoCmd, outcome |-> "none"]
<1>1. proc' = [proc EXCEPT ![p] = new]
  BY DEF Begin
<1>2. new \in Proc
  BY DEF TypeOK, Proc, Outcome
<1>3. proc'[p] = new /\ Others(p) /\ ProcTyped
  <2> HIDE DEF new
  <2> QED  BY <1>1, <1>2, EndMove
<1>4. Starts(p)
  BY <1>3 DEF Begin, Starts, SameDraft, SameAllegro, allegroVars
<1>5. Sound
  BY <1>3 DEF Begin, Sound, TypeOK, ProcTyped, allegroVars
<1> QED  BY <1>3, <1>4, <1>5

LEMMA RequestKind ==
  ASSUME TypeOK, NEW p \in Process, Request(p)
  PROVE  Others(p) /\ Starts(p) /\ Sound
<1>1. CASE Execute(p)
  BY <1>1, BeginKind DEF Execute, Asked, Op, Pc
<1>2. CASE Confirm(p)
  BY <1>2, BeginKind DEF Confirm, Asked, Op, Pc
<1>3. CASE OrderPickup(p)
  BY <1>3, BeginKind DEF OrderPickup, Asked, Op, Pc
<1>4. CASE CancelShipment(p)
  BY <1>4, BeginKind DEF CancelShipment, Asked, Op, Pc
<1>5. CASE CancelDispatch(p)
  BY <1>5, BeginKind DEF CancelDispatch, Asked, Op, Pc
<1>6. CASE Repack(p)
  BY <1>6, BeginKind DEF Repack, Asked, Op, Pc
<1>7. CASE Review(p)
  BY <1>7, BeginKind DEF Review, Asked, Op, Pc
<1> QED  BY <1>1, <1>2, <1>3, <1>4, <1>5, <1>6, <1>7 DEF Request

\* what is left to show when only the request and the causes change
LEMMA SilentType ==
  ASSUME TypeOK, ProcTyped, SameDraft, SameAllegro, UNCHANGED requests,
         faults' \in 0..MaxFaults, NEW X \in SUBSET Cause,
         causes' = causes \cup X
  PROVE  Sound
  BY DEF TypeOK, ProcTyped, SameDraft, SameAllegro, Sound

LEMMA UncausedType ==
  ASSUME TypeOK, ProcTyped, SameDraft, SameAllegro, UNCHANGED requests,
         faults' \in 0..MaxFaults, causes' = causes
  PROVE  Sound
  BY DEF TypeOK, ProcTyped, SameDraft, SameAllegro, Sound

\* and when the row changes
LEMMA WriteType ==
  ASSUME TypeOK, ProcTyped, draft' \in Draft, SameAllegro, UNCHANGED requests,
         faults' \in 0..MaxFaults, NEW X \in SUBSET Cause,
         causes' = causes \cup X
  PROVE  Sound
  BY DEF TypeOK, ProcTyped, SameAllegro, Sound

LEMMA StatusWrite ==
  ASSUME TypeOK, NEW status \in Status, draft' = [draft EXCEPT !.status = status]
  PROVE  /\ draft' \in Draft /\ Orders(status, draft.ships, draft.command)
         /\ SamePickup
  BY DEF TypeOK, Draft, Orders, SamePickup, Collects

LEMMA FaultType ==
  ASSUME TypeOK, MayFault PROVE faults' \in 0..MaxFaults
  BY DEF TypeOK, MayFault

LEMMA CauseSets ==
  ASSUME NEW p \in Process
  PROVE  /\ SecondRun(p) \in SUBSET Cause /\ Cancelled(p) \in SUBSET Cause
         /\ Hidden \in SUBSET Cause /\ Raced(p) \in SUBSET Cause
  BY DEF SecondRun, Cancelled, Hidden, Raced, Cause

LEMMA ClaimKind ==
  ASSUME TypeOK, NEW p \in Process, Claim(p) \/ Proposal(p)
  PROVE  Others(p) /\ (Stops(p) \/ Claims(p) \/ Proposes(p)) /\ Sound
<1> USE CauseSets DEF Claim, Proposal, allegroVars
<1>1. CASE Claim(p) /\ draft.status \in EXECUTABLE_STATES
  <2>1. Turns(p, "proposal") /\ Others(p) /\ ProcTyped
    BY <1>1, PcMove DEF Goto, Turns, Pc
  <2>2. /\ draft' \in Draft /\ SamePickup
        /\ Orders("executing", draft.ships, draft.command)
    BY <1>1, StatusWrite DEF Status
  <2>3. SameAllegro /\ UNCHANGED requests /\ faults' \in 0..MaxFaults
    BY <1>1 DEF SameAllegro, TypeOK
  <2>4. Claims(p)
    BY <1>1, <2>1, <2>2, <2>3 DEF Claims
  <2>5. Sound
    BY <1>1, <2>1, <2>2, <2>3, WriteType
  <2> QED  BY <2>1, <2>4, <2>5
<1>2. CASE Claim(p) /\ draft.status \notin EXECUTABLE_STATES
  <2>1. proc'[p] = IdleProc /\ Others(p) /\ ProcTyped
    BY <1>2, EndMove, IdleType DEF End
  <2>2. /\ SameAllegro /\ UNCHANGED requests /\ faults' \in 0..MaxFaults
        /\ SameDraft /\ causes' = causes
    BY <1>2 DEF SameAllegro, TypeOK, SameDraft
  <2>3. Stops(p)
    BY <1>2, <2>1, <2>2 DEF Stops, Unsaved
  <2>4. Sound
    BY <2>1, <2>2, UncausedType
  <2> QED  BY <2>1, <2>3, <2>4
<1>3. CASE Proposal(p)
  <2>1. Turns(p, "parcel") /\ Others(p) /\ ProcTyped
    BY <1>3, PcMove DEF Goto, Turns, Pc
  <2>2. /\ SameAllegro /\ UNCHANGED requests /\ faults' \in 0..MaxFaults
        /\ SameDraft
    BY <1>3 DEF SameAllegro, TypeOK, SameDraft
  <2>3. Proposes(p)
    BY <1>3, <2>1, <2>2 DEF Proposes
  <2>4. Sound
    BY <1>3, <2>1, <2>2, SilentType
  <2> QED  BY <2>1, <2>3, <2>4
<1> QED  BY <1>1, <1>2, <1>3

\* a parcel to go has a number, and a new command one that fits
LEMMA OrderedType ==
  ASSUME TypeOK, NEW p \in Process, Todo(p) # {}, Ordered(p)
  PROVE  /\ commands' \in Seq([parcel : Parcel, state : CommandState])
         /\ Len(commands') = Len(commands) + 1
         /\ Len(commands) + 1 \in Cmd
<1>1. [parcel |-> Current(p), state |-> "pending"]
         \in [parcel : Parcel, state : CommandState]
  BY CurrentIsFirst DEF CommandState
<1> QED  BY <1>1 DEF Ordered, TypeOK, Cmd

LEMMA ResumeKind ==
  ASSUME TypeOK, NEW p \in Process, Resume(p)
  PROVE  Others(p) /\ Resumes(p) /\ Sound
<1> USE DEF Resume, allegroVars
<1>1. KnownCommand(p) \in Cmd \cup {NoCmd}
  <2>1. Current(p) \in Parcel
    BY CurrentIsFirst
  <2>2. proc[p].snap.ships[Current(p)].cmd \in Cmd \cup {NoCmd}
    BY <2>1, ProcFields, DraftFields DEF Shipments
  <2>3. proc[p].snap.command \in Cmd \cup {NoCmd}
    BY ProcFields, DraftFields
  <2> QED  BY <2>2, <2>3 DEF KnownCommand
<1>2. /\ Moves(p, "checkpoint", KnownCommand(p), proc[p].pcmd, proc[p].outcome)
      /\ Others(p) /\ ProcTyped
  BY <1>1, CmdMove DEF Pc
<1>3. /\ SameAllegro /\ UNCHANGED requests /\ faults' \in 0..MaxFaults
      /\ SameDraft /\ causes' = causes
  BY DEF SameAllegro, TypeOK, SameDraft
<1>4. Resumes(p)
  BY <1>2, <1>3 DEF Resumes
<1> QED  BY <1>2, <1>3, <1>4, UncausedType

LEMMA CreateKind ==
  ASSUME TypeOK, NEW p \in Process, CreateShipment(p)
  PROVE  Others(p) /\ Creates(p) /\ Sound
<1> USE DEF CreateShipment
<1>1. /\ commands' \in Seq([parcel : Parcel, state : CommandState])
      /\ Len(commands') = Len(commands) + 1 /\ Len(commands) + 1 \in Cmd
  BY OrderedType
<1>2. /\ Moves(p, "persist", Len(commands) + 1, proc[p].pcmd, proc[p].outcome)
      /\ Others(p) /\ ProcTyped
  BY <1>1, CmdMove DEF Pc
<1>3. Creates(p)
  BY <1>2 DEF Creates, SameDraft
<1>4. Sound
  BY <1>1, <1>2 DEF Sound, TypeOK, ProcTyped
<1> QED  BY <1>2, <1>3, <1>4

LEMMA PersistKind ==
  ASSUME TypeOK, NEW p \in Process, PersistCommand(p)
  PROVE  Others(p) /\ Persists(p) /\ Sound
<1> USE DEF PersistCommand, allegroVars
<1>1. Turns(p, "checkpoint") /\ Others(p) /\ ProcTyped
  BY PcMove DEF Goto, Turns, Pc
<1>2. /\ draft' \in Draft
      /\ Orders("pending_confirmation", draft.ships, proc[p].cmd) /\ SamePickup
  BY ProcFields DEF TypeOK, Draft, Orders, SamePickup, Collects, Status
<1>3. SameAllegro
  BY DEF SameAllegro
<1>4. Persists(p)
  BY <1>1, <1>2, <1>3 DEF Persists
<1>5. Sound
  BY <1>1, <1>2 DEF Sound, TypeOK, ProcTyped
<1> QED  BY <1>1, <1>4, <1>5

LEMMA CheckpointKind ==
  ASSUME TypeOK, NEW p \in Process, Checkpoint(p) \/ Record(p)
  PROVE  Others(p) /\ (\E id \in BOOLEAN : Checkpoints(p, id)) /\ Sound
<1>1. PICK id \in BOOLEAN :
        /\ proc[p].pc = IF id THEN "record" ELSE "checkpoint"
        /\ WriteCheckpoint(p, id, IF id THEN "parcel" ELSE "wait")
  <2>1. CASE Checkpoint(p)
    <3> WITNESS FALSE \in BOOLEAN
    <3> QED  BY <2>1 DEF Checkpoint
  <2>2. CASE Record(p)
    <3> WITNESS TRUE \in BOOLEAN
    <3> QED  BY <2>2 DEF Record
  <2> QED  BY <2>1, <2>2
<1> DEFINE pc == IF id THEN "parcel" ELSE "wait"
           ships == Checkpointed(p, id)
<1>2. ships \in Shipments
  BY CheckpointedType
<1>3. pc \in Pc
  BY DEF Pc
<1>4. /\ draft' = [draft EXCEPT !.ships = ships]
      /\ proc' = [proc EXCEPT ![p].pc = pc, ![p].snap.ships = ships]
      /\ UNCHANGED <<commands, pickups, requests, faults, causes>>
  BY <1>1 DEF WriteCheckpoint, allegroVars
<1> HIDE DEF pc, ships
<1>5. /\ Goes(p, pc, proc[p].cmd, proc[p].pcmd, proc[p].outcome)
      /\ Reships(p, ships) /\ Others(p) /\ ProcTyped
  BY <1>2, <1>3, <1>4, ShipsMove
<1>6. /\ draft' \in Draft
      /\ Orders(draft.status, ships, draft.command) /\ SamePickup
  BY <1>2, <1>4 DEF TypeOK, Draft, Orders, SamePickup, Collects
<1>7. SameAllegro
  BY <1>4 DEF SameAllegro
<1>8. Checkpoints(p, id)
  BY <1>1, <1>5, <1>6, <1>7 DEF Checkpoints, pc, ships
<1>9. Sound
  BY <1>4, <1>5, <1>6 DEF Sound, TypeOK, ProcTyped
<1> QED  BY <1>5, <1>8, <1>9

LEMMA WaitKind ==
  ASSUME TypeOK, NEW p \in Process, Wait(p)
  PROVE  Others(p) /\ (Waits(p) \/ Fails(p)) /\ Sound
<1> DEFINE state == commands[proc[p].cmd].state
           pc == CASE state = "pending" -> "pending"
                   [] state = "error" -> "fail"
                   [] OTHER -> "record"
           outcome == IF state = "error" THEN "over" ELSE proc[p].outcome
<1>1. pc \in Pc /\ outcome \in Outcome
  BY ProcFields DEF Pc, Outcome
<1>2. proc' = [proc EXCEPT ![p].pc = pc, ![p].outcome = outcome]
  BY DEF Wait, TypeOK
<1>3. /\ proc[p].pc = "wait" /\ SameAllegro /\ UNCHANGED requests
      /\ faults' \in 0..MaxFaults /\ SameDraft /\ causes' = causes
  BY DEF Wait, SameAllegro, TypeOK, SameDraft, allegroVars
<1> HIDE DEF pc, outcome
<1>4. /\ Moves(p, pc, proc[p].cmd, proc[p].pcmd, outcome)
      /\ Others(p) /\ ProcTyped
  BY <1>1, <1>2, OutcomeMove
<1>5. CASE state = "error"
  <2>1. pc = "fail"
    BY <1>5 DEF pc
  <2> QED
    BY <1>1, <1>3, <1>4, <2>1, UncausedType
    DEF Fails, Unsaved, Unbooked, SameAllegro
<1>6. CASE state # "error"
  <2>1. /\ outcome = proc[p].outcome
        /\ pc = IF state = "pending" THEN "pending" ELSE "record"
    BY <1>6 DEF pc, outcome
  <2> QED
    BY <1>3, <1>4, <1>6, <2>1, UncausedType DEF Waits, Turns
<1> QED  BY <1>5, <1>6

LEMMA FaultKind ==
  ASSUME TypeOK, NEW p \in Process,
         \/ CreateShipmentFault(p) \/ WriteFault(p) \/ ReadFault(p) \/ Refused(p)
  PROVE  Others(p) /\ Fails(p) /\ Sound
<1> USE DEF allegroVars
<1>1. faults' \in 0..MaxFaults /\ UNCHANGED requests /\ SameDraft
      /\ pickups' = pickups
  BY FaultType DEF CreateShipmentFault, WriteFault, ReadFault, Refused,
     SameDraft
<1>2. PICK outcome \in Outcome :
        Moves(p, "fail", proc[p].cmd, proc[p].pcmd, outcome)
        /\ Others(p) /\ ProcTyped
  <2>1. CASE Goto(p, "fail")
    BY <2>1, PcMove, ProcFields DEF Goto, Pc
  <2>2. CASE proc' = [proc EXCEPT ![p].pc = "fail", ![p].outcome = "over"]
    BY <2>2, OutcomeMove DEF Pc, Outcome
  <2> QED
    BY <2>1, <2>2 DEF CreateShipmentFault, WriteFault, ReadFault, Refused
<1>3. CASE CreateShipmentFault(p)
  <2>1. proc[p].pc = "parcel" /\ Todo(p) # {}
    BY <1>3 DEF CreateShipmentFault
  <2>2. CASE UNCHANGED <<commands, causes>>
    <3>1. Fails(p)
      BY <1>1, <1>2, <2>1, <2>2 DEF Fails, Unsaved, Unbooked
    <3> QED
      BY <1>1, <1>2, <2>2, <3>1, UncausedType DEF SameAllegro
  <2>3. CASE Ordered(p) /\ causes' = causes \cup {"lost_answer"}
    <3>1. Fails(p)
      BY <1>1, <1>2, <2>1, <2>3 DEF Fails, Unsaved, Unbooked, Caused
    <3>2. Sound
      BY <1>1, <1>2, <2>1, <2>3, OrderedType
      DEF Sound, TypeOK, ProcTyped, SameDraft, Cause
    <3> QED  BY <1>2, <3>1, <3>2
  <2> QED  BY <1>3, <2>2, <2>3 DEF CreateShipmentFault
<1>4. CASE WriteFault(p)
  <2>1. SameAllegro
    BY <1>4 DEF WriteFault, SameAllegro
  <2>2. Fails(p)
    BY <1>1, <1>2, <1>4, <2>1 DEF WriteFault, Fails, Caused, SameAllegro
  <2>3. causes' = causes \cup {"lost_answer"} \/ causes' = causes
    BY <1>4 DEF WriteFault
  <2> QED
    BY <1>1, <1>2, <2>1, <2>2, <2>3, SilentType, UncausedType DEF Cause
<1>5. CASE ReadFault(p) \/ Refused(p)
  <2>1. SameAllegro /\ causes' = causes
    BY <1>5 DEF ReadFault, Refused, SameAllegro
  <2>2. Fails(p)
    BY <1>1, <1>2, <1>5, <2>1
    DEF ReadFault, Refused, Fails, Unsaved, Unbooked, SameAllegro
  <2> QED  BY <1>1, <1>2, <2>1, <2>2, UncausedType
<1> QED  BY <1>3, <1>4, <1>5

LEMMA CompleteKind ==
  ASSUME TypeOK, NEW p \in Process, ParcelsDone(p)
  PROVE  Others(p) /\ Completes(p) /\ Sound
<1> DEFINE resumed == IF proc[p].snap.pickup THEN NoCmd
                      ELSE proc[p].snap.pickupCommand
           pc == IF resumed = NoCmd THEN "propose" ELSE "pickup_status"
<1>1. resumed \in Cmd \cup {NoCmd} /\ pc \in Pc
  BY ProcFields, DraftFields DEF Pc
<1>2. /\ proc[p].pc = "parcel" /\ Todo(p) = {} /\ SameAllegro
      /\ UNCHANGED requests
      /\ faults' \in 0..MaxFaults /\ SameDraft /\ causes' = causes
  BY DEF ParcelsDone, SameAllegro, TypeOK, SameDraft, allegroVars
<1>3. CASE Goto(p, "finish")
  <2>1. Turns(p, "finish") /\ Others(p) /\ ProcTyped
    BY <1>3, PcMove DEF Goto, Turns, Pc
  <2> QED  BY <1>2, <2>1, UncausedType DEF Completes
<1>4. CASE /\ proc[p].op = "execute"
           /\ proc' = [proc EXCEPT ![p].pc = pc, ![p].pcmd = resumed]
  <2>1. /\ Moves(p, pc, proc[p].cmd, resumed, proc[p].outcome)
        /\ Others(p) /\ ProcTyped
    <3> HIDE DEF pc, resumed
    <3> QED  BY <1>1, <1>4, PickupMove
  <2> QED  BY <1>2, <1>4, <2>1, UncausedType DEF Completes
<1> QED  BY <1>3, <1>4 DEF ParcelsDone

LEMMA FinishKind ==
  ASSUME TypeOK, NEW p \in Process, FinishPending(p) \/ Finish(p)
  PROVE  Others(p) /\ (Pends(p) \/ Finishes(p)) /\ Sound
<1> USE DEF FinishPending, Finish, allegroVars
<1>1. proc'[p] = IdleProc /\ Others(p) /\ ProcTyped
  BY EndMove, IdleType DEF End
<1>2. /\ SameAllegro /\ UNCHANGED requests /\ faults' \in 0..MaxFaults
      /\ causes' = causes \cup Cancelled(p)
  BY DEF SameAllegro, TypeOK
<1>3. /\ proc[p].snap.ships \in Shipments /\ proc[p].cmd \in Cmd \cup {NoCmd}
      /\ proc[p].pcmd \in Cmd \cup {NoCmd} /\ NoCmd \in Cmd \cup {NoCmd}
  BY ProcFields, DraftFields
<1>4. CASE FinishPending(p)
  <2>1. /\ draft' \in Draft
        /\ Orders("pending_confirmation", proc[p].snap.ships, proc[p].cmd)
        /\ Collects(FALSE, draft.pickupCommand, draft.dispatch)
    BY <1>3, <1>4 DEF TypeOK, Draft, Orders, Collects, Status
  <2> QED
    BY <1>1, <1>2, <1>4, <2>1, CauseSets, WriteType DEF Pends
<1>5. CASE Finish(p)
  <2> DEFINE pickup == proc[p].outcome = "success"
             pickupCommand == IF proc[p].outcome \in {"pending", "failed"}
                              THEN proc[p].pcmd ELSE NoCmd
             dispatch == IF pickup THEN proc[p].pcmd ELSE NoCmd
  <2>1. /\ pickup \in BOOLEAN /\ pickupCommand \in Cmd \cup {NoCmd}
        /\ dispatch \in Cmd \cup {NoCmd}
    BY <1>3
  <2>2. draft' = [draft EXCEPT !.status = "created",
                    !.ships = proc[p].snap.ships, !.command = proc[p].cmd,
                    !.pickup = pickup, !.dispatch = dispatch,
                    !.pickupCommand = pickupCommand]
    BY <1>5
  <2> HIDE DEF pickup, pickupCommand, dispatch
  <2>3. /\ draft' \in Draft
        /\ Orders("created", proc[p].snap.ships, proc[p].cmd)
        /\ Collects(pickup, pickupCommand, dispatch)
    BY <1>3, <2>1, <2>2 DEF TypeOK, Draft, Orders, Collects, Status
  <2>4. Finishes(p)
    BY <1>1, <1>2, <1>5, <2>3
    DEF Finishes, pickup, pickupCommand, dispatch
  <2> QED
    BY <1>1, <1>2, <2>3, <2>4, CauseSets, WriteType
<1> QED  BY <1>4, <1>5

LEMMA FailKind ==
  ASSUME TypeOK, NEW p \in Process, Fail(p) \/ Release(p) \/ Reopen(p)
  PROVE  Others(p) /\ (Errs(p) \/ Releases(p) \/ Stops(p)) /\ Sound
<1> USE DEF allegroVars
<1>1. SameAllegro /\ UNCHANGED requests /\ faults' \in 0..MaxFaults
  BY DEF SameAllegro, TypeOK, Fail, Release, Reopen
<1>2. ASSUME End(p) PROVE proc'[p] = IdleProc /\ Others(p) /\ ProcTyped
  BY <1>2, EndMove, IdleType DEF End
<1>3. ASSUME draft' = [draft EXCEPT !.status = "error"]
      PROVE  /\ draft' \in Draft /\ SamePickup
             /\ Orders("error", draft.ships, draft.command)
  BY <1>3, StatusWrite DEF Status
<1>4. CASE Fail(p) /\ proc[p].op # "confirm"
  <2>1. proc' = [proc EXCEPT ![p] = [IdleProc EXCEPT !.pc = "release"]]
    BY <1>4 DEF Fail
  <2>2. [IdleProc EXCEPT !.pc = "release"] \in Proc
    BY IdleType DEF Proc, Pc
  <2>3. /\ proc'[p] = [IdleProc EXCEPT !.pc = "release"]
        /\ Others(p) /\ ProcTyped
    BY <2>1, <2>2, EndMove
  <2>4. SameDraft /\ causes' = causes
    BY <1>4 DEF Fail, SameDraft
  <2>5. Releases(p)
    BY <1>1, <1>4, <2>3, <2>4 DEF Fail, Releases
  <2> QED  BY <1>1, <2>3, <2>4, <2>5, UncausedType
<1>5. CASE Fail(p) /\ proc[p].op = "confirm" /\ proc[p].outcome = "over"
  <2> DEFINE X == Cancelled(p) \cup Hidden
                    \cup (IF draft.status # "pending_confirmation"
                          THEN {"late_failure"} ELSE {})
  <2>1. /\ proc[p].pc = "fail" /\ End(p) /\ causes' = causes \cup X
        /\ draft' = [draft EXCEPT !.status = "error"]
    BY <1>5 DEF Fail
  <2>2. X \in SUBSET Cause
    BY CauseSets DEF Cause
  <2>3. Errs(p)
    BY <1>1, <1>2, <1>3, <2>1 DEF Errs, Caused
  <2> HIDE DEF X
  <2> QED  BY <1>1, <1>2, <1>3, <2>1, <2>2, <2>3, WriteType
<1>6. CASE Fail(p) /\ proc[p].op = "confirm" /\ proc[p].outcome # "over"
  <2>1. /\ proc[p].pc = "fail" /\ End(p) /\ causes' = causes /\ SameDraft
    BY <1>6 DEF Fail, SameDraft
  <2>2. Stops(p)
    BY <1>1, <1>2, <2>1 DEF Stops, Unsaved
  <2> QED  BY <1>1, <1>2, <2>1, <2>2, UncausedType
<1>7. CASE Release(p)
  <2>1. proc[p].pc = "release" /\ causes' = causes /\ SameDraft
    BY <1>7 DEF Release, SameDraft
  <2>2. CASE Goto(p, "reopen")
    <3>1. Turns(p, "reopen") /\ Others(p) /\ ProcTyped
      BY <2>2, PcMove DEF Goto, Turns, Pc
    <3> QED  BY <1>1, <2>1, <3>1, UncausedType DEF Releases
  <2>3. CASE End(p)
    <3>1. Stops(p)
      BY <1>1, <1>2, <2>1, <2>3 DEF Stops, Unsaved
    <3> QED  BY <1>1, <1>2, <2>1, <2>3, <3>1, UncausedType
  <2> QED  BY <1>7, <2>2, <2>3 DEF Release
<1>8. CASE Reopen(p)
  <2> DEFINE X == Cancelled(p) \cup Hidden
                    \cup (IF \/ draft.status # "executing"
                             \/ \E q \in Process \ {p} : Running(q)
                          THEN {"foreign_release"} ELSE {})
  <2>1. /\ proc[p].pc = "reopen" /\ End(p) /\ causes' = causes \cup X
        /\ draft' = [draft EXCEPT !.status = "error"]
    BY <1>8 DEF Reopen
  <2>2. X \in SUBSET Cause
    BY CauseSets DEF Cause
  <2>3. Errs(p)
    BY <1>1, <1>2, <1>3, <2>1 DEF Errs, Caused
  <2> HIDE DEF X
  <2> QED  BY <1>1, <1>2, <1>3, <2>1, <2>2, <2>3, WriteType
<1> QED  BY <1>4, <1>5, <1>6, <1>7, <1>8

LEMMA RunKind ==
  ASSUME TypeOK, NEW p \in Process, Run(p)
  PROVE  Step(p) /\ Sound
<1> USE DEF Step, RunStep, OtherStep
<1>1. CASE Claim(p) \/ Proposal(p)
  BY <1>1, ClaimKind
<1>2. CASE Resume(p)
  BY <1>2, ResumeKind
<1>3. CASE CreateShipment(p)
  BY <1>3, CreateKind
<1>4. CASE PersistCommand(p)
  BY <1>4, PersistKind
<1>5. CASE Checkpoint(p) \/ Record(p)
  BY <1>5, CheckpointKind
<1>6. CASE Wait(p)
  BY <1>6, WaitKind
<1>7. CASE ParcelsDone(p)
  BY <1>7, CompleteKind
<1>8. CASE FinishPending(p) \/ Finish(p)
  BY <1>8, FinishKind
<1>9. CASE Fail(p) \/ Release(p) \/ Reopen(p)
  BY <1>9, FailKind
<1> QED
  BY <1>1, <1>2, <1>3, <1>4, <1>5, <1>6, <1>7, <1>8, <1>9 DEF Run

LEMMA ClaimPickupKind ==
  ASSUME TypeOK, NEW p \in Process, ClaimPickup(p)
  PROVE  Others(p) /\ (ClaimsPickup(p) \/ Stops(p)) /\ Sound
<1> DEFINE resumed == proc[p].snap.pickupCommand
           pc == IF resumed = NoCmd THEN "propose" ELSE "pickup_status"
           X == (IF draft.pickupCommand # resumed
                 THEN {"stale_pickup"} ELSE {})
                \cup (IF draft.status # "created"
                      THEN {"cancel_raced"} ELSE {})
<1>1. /\ proc[p].pc = "claim_pickup" /\ SameAllegro /\ UNCHANGED requests
      /\ faults' \in 0..MaxFaults
  BY DEF ClaimPickup, SameAllegro, TypeOK, allegroVars
<1>2. CASE draft.pickup
  <2>1. End(p) /\ SameDraft /\ causes' = causes
    BY <1>2 DEF ClaimPickup, SameDraft
  <2>2. proc'[p] = IdleProc /\ Others(p) /\ ProcTyped
    BY <2>1, EndMove, IdleType DEF End
  <2>3. Stops(p)
    BY <1>1, <2>1, <2>2 DEF Stops, Unsaved
  <2> QED  BY <1>1, <2>1, <2>2, <2>3, UncausedType
<1>3. CASE ~draft.pickup
  <2>1. /\ draft' = [draft EXCEPT !.pickup = TRUE]
        /\ proc' = [proc EXCEPT ![p].pc = pc, ![p].pcmd = resumed]
        /\ causes' = causes \cup X
    BY <1>3 DEF ClaimPickup
  <2>2. resumed \in Cmd \cup {NoCmd} /\ pc \in Pc
    BY ProcFields, DraftFields DEF Pc
  <2>3. /\ Moves(p, pc, proc[p].cmd, resumed, proc[p].outcome)
        /\ Others(p) /\ ProcTyped
    <3> HIDE DEF pc, resumed
    <3> QED  BY <2>1, <2>2, PickupMove
  <2>4. /\ draft' \in Draft /\ SameOrder
        /\ Collects(TRUE, draft.pickupCommand, draft.dispatch)
    BY <2>1 DEF TypeOK, Draft, Orders, SameOrder, Collects
  <2>5. ClaimsPickup(p)
    BY <1>1, <1>3, <2>1, <2>3, <2>4 DEF ClaimsPickup, Caused
  <2>6. X \in SUBSET Cause
    BY DEF Cause
  <2> HIDE DEF X
  <2> QED  BY <1>1, <2>1, <2>3, <2>4, <2>5, <2>6, WriteType
<1> QED  BY <1>2, <1>3

LEMMA LearntMove ==
  ASSUME TypeOK, NEW p \in Process, NEW outcome \in Outcome, Learnt(p, outcome)
  PROVE  /\ Moves(p, IF proc[p].op = "pickup" THEN "unpickup" ELSE "finish",
                  proc[p].cmd, proc[p].pcmd, outcome)
         /\ Others(p) /\ ProcTyped
<1> DEFINE pc == IF proc[p].op = "pickup" THEN "unpickup" ELSE "finish"
<1>1. pc \in Pc
  BY DEF Pc
<1>2. proc' = [proc EXCEPT ![p].pc = pc, ![p].outcome = outcome]
  BY DEF Learnt
<1> HIDE DEF pc
<1>3. Moves(p, pc, proc[p].cmd, proc[p].pcmd, outcome) /\ Others(p) /\ ProcTyped
  BY <1>1, <1>2, OutcomeMove
<1> QED  BY <1>3 DEF pc

LEMMA LearnKind ==
  ASSUME TypeOK, NEW p \in Process,
         \/ NoSlot(p) \/ PickupStatus(p) \/ PickupStatusFault(p)
         \/ CreatePickupFault(p)
  PROVE  Others(p) /\ Learns(p) /\ Sound
<1> USE DEF allegroVars
<1>1. /\ UNCHANGED requests /\ faults' \in 0..MaxFaults /\ SameDraft
      /\ commands' = commands
  BY FaultType
  DEF NoSlot, PickupStatus, PickupStatusFault, CreatePickupFault, SameDraft,
      TypeOK
<1>2. CASE NoSlot(p)
  <2>1. /\ proc[p].pc = "propose" /\ Learnt(p, "none") /\ SameAllegro
        /\ causes' = causes /\ "none" \in Outcome
    BY <1>2 DEF NoSlot, SameAllegro, Outcome
  <2>2. Learns(p)
    BY <1>1, <2>1, LearntMove DEF Learns, SameAllegro
  <2> QED  BY <1>1, <2>1, <2>2, LearntMove, UncausedType
<1>3. CASE PickupStatus(p)
  <2> DEFINE state == pickups[proc[p].pcmd]
             outcome == CASE state = "pending" -> "pending"
                          [] state = "error" -> "over"
                          [] OTHER -> "success"
  <2>1. /\ proc[p].pc = "pickup_status" /\ Learnt(p, outcome) /\ SameAllegro
        /\ causes' = causes
    BY <1>3 DEF PickupStatus, SameAllegro
  <2>2. /\ outcome \in Outcome /\ outcome # "none"
        /\ outcome = "success" => state \notin {"pending", "error"}
        /\ outcome = "over" => state = "error"
    BY DEF Outcome
  <2> HIDE DEF outcome
  <2>3. Learns(p)
    BY <1>1, <2>1, <2>2, LearntMove DEF Learns, SameAllegro
  <2> QED  BY <1>1, <2>1, <2>2, <2>3, LearntMove, UncausedType
<1>4. CASE PickupStatusFault(p)
  <2>1. /\ proc[p].pc = "pickup_status" /\ Learnt(p, "failed") /\ SameAllegro
        /\ causes' = causes /\ "failed" \in Outcome
    BY <1>4 DEF PickupStatusFault, SameAllegro, Outcome
  <2>2. Learns(p)
    BY <1>1, <2>1, LearntMove DEF Learns, SameAllegro
  <2> QED  BY <1>1, <2>1, <2>2, LearntMove, UncausedType
<1>5. CASE CreatePickupFault(p)
  <2>1. /\ proc[p].pc = "propose" /\ Learnt(p, "failed")
        /\ "failed" \in Outcome
    BY <1>5 DEF CreatePickupFault, Outcome
  <2>2. CASE UNCHANGED <<pickups, causes>>
    <3>1. Learns(p)
      BY <1>1, <2>1, <2>2, LearntMove DEF Learns
    <3> QED
      BY <1>1, <2>1, <2>2, <3>1, LearntMove, UncausedType DEF SameAllegro
  <2>3. CASE /\ Len(pickups) < MaxPickups
             /\ pickups' = Append(pickups, "pending")
             /\ causes' = causes \cup {"lost_answer"}
    <3>1. Learns(p)
      BY <1>1, <2>1, <2>3, LearntMove DEF Learns, Caused
    <3>2. pickups' \in Seq(CommandState)
      BY <2>3 DEF TypeOK, CommandState
    <3>3. Sound
      BY <1>1, <2>1, <2>3, <3>2, LearntMove
      DEF Sound, TypeOK, ProcTyped, SameDraft, Cause
    <3> QED  BY <2>1, <3>1, <3>3, LearntMove
  <2> QED  BY <1>5, <2>2, <2>3 DEF CreatePickupFault
<1> QED  BY <1>2, <1>3, <1>4, <1>5

LEMMA CreatePickupKind ==
  ASSUME TypeOK, NEW p \in Process, CreatePickup(p)
  PROVE  Others(p) /\ CreatesPickup(p) /\ Sound
<1> USE DEF CreatePickup
<1>1. /\ pickups' \in Seq(CommandState) /\ Len(pickups') = Len(pickups) + 1
      /\ Len(pickups) + 1 \in Cmd
  BY DEF TypeOK, CommandState, Cmd
<1>2. /\ Moves(p, "persist_pickup", proc[p].cmd, Len(pickups) + 1,
               proc[p].outcome)
      /\ Others(p) /\ ProcTyped
  BY <1>1, PickupMove DEF Pc
<1>3. CreatesPickup(p)
  BY <1>2 DEF CreatesPickup, SameDraft
<1>4. Sound
  BY <1>1, <1>2 DEF Sound, TypeOK, ProcTyped
<1> QED  BY <1>2, <1>3, <1>4

LEMMA PersistPickupKind ==
  ASSUME TypeOK, NEW p \in Process, PersistPickup(p) \/ PersistPickupFault(p)
  PROVE  Others(p) /\ (PersistsPickup(p) \/ LosesPickup(p) \/ Fails(p)) /\ Sound
<1> USE DEF allegroVars
<1>1. SameAllegro /\ UNCHANGED requests /\ faults' \in 0..MaxFaults
  BY FaultType DEF PersistPickup, PersistPickupFault, SameAllegro, TypeOK
<1>2. CASE PersistPickup(p)
  <2>1. Turns(p, "pickup_status") /\ Others(p) /\ ProcTyped
    BY <1>2, PcMove DEF PersistPickup, Goto, Turns, Pc
  <2> DEFINE pickup == IF proc[p].op = "pickup" THEN FALSE ELSE draft.pickup
  <2>2. draft' = [draft EXCEPT !.pickupCommand = proc[p].pcmd,
                    !.dispatch = NoCmd, !.pickup = pickup]
    BY <1>2 DEF PersistPickup, TypeOK, Draft
  <2>3. pickup \in BOOLEAN /\ NoCmd \in Cmd \cup {NoCmd}
    BY DraftFields DEF TypeOK
  <2> HIDE DEF pickup
  <2>4. /\ draft' \in Draft /\ SameOrder
        /\ Collects(pickup, proc[p].pcmd, NoCmd)
    BY <2>2, <2>3, ProcFields DEF TypeOK, Draft, SameOrder, Orders, Collects
  <2>5. PersistsPickup(p)
    BY <1>1, <1>2, <2>1, <2>4 DEF PersistPickup, PersistsPickup, pickup
  <2>6. Sound
    BY <1>2, <2>1, <2>4 DEF PersistPickup, Sound, TypeOK, ProcTyped
  <2> QED  BY <2>1, <2>5, <2>6
<1>3. CASE PersistPickupFault(p)
  <2>1. /\ SameDraft /\ causes' = causes \cup {"lost_answer"}
        /\ proc[p].pc = "persist_pickup" /\ {"lost_answer"} \in SUBSET Cause
    BY <1>3 DEF PersistPickupFault, SameDraft, Cause
  <2>2. CASE proc[p].op = "pickup"
    <3>1. /\ Moves(p, "unpickup", proc[p].cmd, NoCmd, "failed")
          /\ Others(p) /\ ProcTyped
      BY <1>3, <2>2, LostMove DEF PersistPickupFault, Pc, Outcome
    <3>2. LosesPickup(p)
      BY <1>1, <2>1, <2>2, <3>1 DEF LosesPickup, Caused
    <3> QED  BY <1>1, <2>1, <3>1, <3>2, SilentType
  <2>3. CASE proc[p].op # "pickup"
    <3>1. /\ Moves(p, "fail", proc[p].cmd, proc[p].pcmd, proc[p].outcome)
          /\ Others(p) /\ ProcTyped
      BY <1>3, <2>3, PcMove DEF PersistPickupFault, Goto, Pc
    <3>2. Fails(p)
      BY <1>1, <2>1, <2>3, <3>1, ProcFields
      DEF Fails, Caused, SameAllegro
    <3> QED  BY <1>1, <2>1, <3>1, <3>2, SilentType
  <2> QED  BY <2>2, <2>3
<1> QED  BY <1>2, <1>3

LEMMA WritePickupKind ==
  ASSUME TypeOK, NEW p \in Process, WritePickup(p) \/ WritePickupFault(p)
  PROVE  Others(p) /\ (WritesPickup(p) \/ GivesBack(p)) /\ Sound
<1> USE DEF allegroVars
<1>1. SameAllegro /\ UNCHANGED requests /\ faults' \in 0..MaxFaults
  BY FaultType DEF WritePickup, WritePickupFault, SameAllegro, TypeOK
<1>2. CASE WritePickupFault(p)
  <2>1. /\ Moves(p, "unpickup", proc[p].cmd, proc[p].pcmd, "failed")
        /\ Others(p) /\ ProcTyped
    BY <1>2, OutcomeOnly DEF WritePickupFault, Outcome
  <2>2. SameDraft /\ causes' = causes
    BY <1>2 DEF WritePickupFault, SameDraft
  <2>3. GivesBack(p)
    BY <1>1, <1>2, <2>1, <2>2 DEF WritePickupFault, GivesBack
  <2> QED  BY <1>1, <2>1, <2>2, <2>3, UncausedType
<1>3. CASE WritePickup(p)
  <2>1. proc'[p] = IdleProc /\ Others(p) /\ ProcTyped
    BY <1>3, EndMove, IdleType DEF WritePickup, End
  <2>2. /\ draft' \in Draft /\ SameOrder
        /\ \/ proc[p].outcome = "pending" /\ Collects(FALSE, proc[p].pcmd, NoCmd)
           \/ proc[p].outcome = "success" /\ Collects(TRUE, NoCmd, proc[p].pcmd)
           \/ proc[p].outcome = "over" /\ Collects(FALSE, NoCmd, draft.dispatch)
           \/ /\ proc[p].outcome \in {"none", "failed"}
              /\ Collects(FALSE, draft.pickupCommand, draft.dispatch)
    <3> USE ProcFields DEF WritePickup, TypeOK, Draft, SameOrder, Orders, Collects
    <3>1. CASE proc[p].outcome = "pending"
      BY <1>3, <3>1
    <3>2. CASE proc[p].outcome = "success"
      BY <1>3, <3>2
    <3>3. CASE proc[p].outcome = "over"
      BY <1>3, <3>3
    <3>4. CASE proc[p].outcome \in {"none", "failed"}
      BY <1>3, <3>4
    <3> QED  BY <3>1, <3>2, <3>3, <3>4 DEF Outcome
  <2>3. /\ causes' = causes \cup {"stale_pickup"} \/ causes' = causes
        /\ Overtaken(p) => Caused({"stale_pickup"})
    BY <1>3 DEF WritePickup, Caused
  <2>4. WritesPickup(p)
    BY <1>1, <1>3, <2>1, <2>2, <2>3 DEF WritePickup, WritesPickup
  <2>5. /\ {"stale_pickup"} \in SUBSET Cause /\ {} \in SUBSET Cause
        /\ causes = causes \cup {}
    BY DEF Cause
  <2> QED  BY <1>1, <2>1, <2>2, <2>3, <2>4, <2>5, WriteType
<1> QED  BY <1>2, <1>3

\* an element of a sequence is replaced, if there is one
LEMMA ReplacedType ==
  ASSUME NEW S, NEW s \in Seq(S), NEW i, NEW e \in S
  PROVE  [s EXCEPT ![i] = e] \in Seq(S)
<1>1. s \in [1..Len(s) -> S]
  BY LenProperties
<1>2. CASE i \in 1..Len(s)
  BY <1>2, ExceptSeq
<1>3. CASE i \notin 1..Len(s)
  <2>1. [s EXCEPT ![i] = e] = s
    BY <1>1, <1>3
  <2> QED  BY <2>1
<1> QED  BY <1>2, <1>3

LEMMA CommandReplacedType ==
  ASSUME TypeOK, NEW c, NEW state \in CommandState
  PROVE  [commands EXCEPT ![c].state = state]
            \in Seq([parcel : Parcel, state : CommandState])
<1> DEFINE R == [parcel : Parcel, state : CommandState]
           e == [commands[c] EXCEPT !.state = state]
<1>1. commands \in Seq(R) /\ commands \in [1..Len(commands) -> R]
  BY LenProperties DEF TypeOK
<1>2. CASE c \in 1..Len(commands)
  <2>1. commands[c] \in R
    BY <1>1, <1>2, ElementOfSeq
  <2>2. e \in R
    BY <2>1
  <2>3. [commands EXCEPT ![c].state = state] = [commands EXCEPT ![c] = e]
    OBVIOUS
  <2> HIDE DEF R, e
  <2>4. [commands EXCEPT ![c] = e] \in Seq(R)
    BY <1>1, <2>2, ReplacedType
  <2> QED  BY <2>3, <2>4 DEF R
<1>3. CASE c \notin 1..Len(commands)
  <2>1. [commands EXCEPT ![c].state = state] = commands
    <3> HIDE DEF R
    <3> QED  BY <1>1, <1>3
  <2> QED  BY <1>1, <2>1
<1> QED  BY <1>2, <1>3

LEMMA CancelKind ==
  ASSUME TypeOK, NEW p \in Process,
         (\E k \in Parcel : CancelOne(p, k)) \/ CancelPickup(p)
  PROVE  Others(p) /\ (CancelsOne(p) \/ CancelsCollection(p)) /\ Sound
<1>1. ASSUME NEW k \in Parcel, CancelOne(p, k)
      PROVE  Others(p) /\ CancelsOne(p) /\ Sound
  <2> DEFINE pc == IF Known(proc[p].snap) = {k} THEN "cancelled" ELSE "cancel"
             cmd == proc[p].snap.ships[k].cmd
  <2>1. /\ k \in Known(proc[p].snap) /\ SameDraft /\ pickups' = pickups
        /\ proc[p].pc = "cancel" /\ proc[p].op = "cancel_shipment"
        /\ commands' = [commands EXCEPT ![cmd].state = "cancelled"]
        /\ proc' = [proc EXCEPT ![p].pc = pc, ![p].snap.ships[k].id = FALSE]
        /\ causes' = causes \cup Raced(p) /\ UNCHANGED <<requests, faults>>
    BY <1>1 DEF CancelOne, SameDraft
  <2>2. pc \in {"cancel", "cancelled"} /\ pc \in Pc
    BY DEF Pc
  <2> HIDE DEF pc
  <2>3. /\ Goes(p, pc, proc[p].cmd, proc[p].pcmd, proc[p].outcome)
        /\ Reships(p, [proc[p].snap.ships EXCEPT ![k].id = FALSE])
        /\ Others(p) /\ ProcTyped
    BY <2>1, <2>2, CancelMove
  <2>4. commands' \in Seq([parcel : Parcel, state : CommandState])
    BY <2>1, CommandReplacedType DEF CommandState
  <2>5. CancelsOne(p)
    BY <2>1, <2>2, <2>3 DEF CancelsOne
  <2>6. Sound
    BY <2>1, <2>3, <2>4, CauseSets DEF Sound, TypeOK, ProcTyped, SameDraft
  <2> QED  BY <2>3, <2>5, <2>6
<1>2. CASE CancelPickup(p)
  <2>1. Turns(p, "cancelled") /\ Others(p) /\ ProcTyped
    BY <1>2, PcMove DEF CancelPickup, Goto, Turns, Pc
  <2>2. pickups' \in Seq(CommandState)
    BY <1>2, ReplacedType DEF CancelPickup, TypeOK, CommandState
  <2>3. CancelsCollection(p)
    BY <1>2, <2>1 DEF CancelPickup, CancelsCollection, SameDraft
  <2>4. Sound
    BY <1>2, <2>1, <2>2 DEF CancelPickup, Sound, TypeOK, ProcTyped
  <2> QED  BY <2>1, <2>3, <2>4
<1> QED  BY <1>1, <1>2

LEMMA SaveKind ==
  ASSUME TypeOK, NEW p \in Process, WriteCancelled(p) \/ Save(p)
  PROVE  Others(p) /\ (SaysCancelled(p) \/ Saves(p)) /\ Sound
<1> USE DEF allegroVars
<1>1. proc'[p] = IdleProc /\ Others(p) /\ ProcTyped
  BY EndMove, IdleType DEF WriteCancelled, Save, End
<1>2. SameAllegro /\ UNCHANGED requests /\ faults' \in 0..MaxFaults
  BY DEF WriteCancelled, Save, SameAllegro, TypeOK
<1>3. CASE WriteCancelled(p) /\ proc[p].op = "cancel_shipment"
  <2>1. /\ draft' \in Draft /\ SamePickup
        /\ Orders("cancelled", draft.ships, draft.command)
    BY <1>3, StatusWrite DEF WriteCancelled, Status
  <2>2. causes' = causes \cup Raced(p)
    BY <1>3 DEF WriteCancelled
  <2>3. SaysCancelled(p)
    BY <1>1, <1>2, <1>3, <2>1, <2>2 DEF WriteCancelled, SaysCancelled
  <2> QED  BY <1>1, <1>2, <2>1, <2>2, <2>3, CauseSets, WriteType
<1>4. CASE WriteCancelled(p) /\ proc[p].op # "cancel_shipment"
  <2>1. /\ draft' \in Draft /\ SameOrder
        /\ Collects(FALSE, draft.pickupCommand, NoCmd)
    BY <1>4 DEF WriteCancelled, TypeOK, Draft, SameOrder, Orders, Collects
  <2>2. causes' = causes \cup Raced(p)
    BY <1>4 DEF WriteCancelled
  <2>3. SaysCancelled(p)
    BY <1>1, <1>2, <1>4, <2>1, <2>2 DEF WriteCancelled, SaysCancelled
  <2> QED  BY <1>1, <1>2, <2>1, <2>2, <2>3, CauseSets, WriteType
<1>5. CASE Save(p) /\ proc[p].op = "repack"
  <2>1. draft' \in Draft /\ SameOrder /\ SamePickup
    BY <1>5 DEF Save, TypeOK, Draft, SameOrder, Orders, SamePickup, Collects
  <2>2. \/ causes' = causes \cup {"stale_repack"} \/ causes' = causes \cup {}
    BY <1>5 DEF Save
  <2>3. {"stale_repack"} \in SUBSET Cause /\ {} \in SUBSET Cause
    BY DEF Cause
  <2>4. Saves(p)
    BY <1>1, <1>2, <1>5, <2>1 DEF Save, Saves
  <2> QED  BY <1>1, <1>2, <2>1, <2>2, <2>3, <2>4, WriteType
<1>6. CASE Save(p) /\ proc[p].op # "repack"
  <2>1. /\ draft' \in Draft /\ SamePickup
        /\ Orders("pending", draft.ships, draft.command)
    BY <1>6, StatusWrite DEF Save, Status
  <2>2. /\ causes' = causes \cup {"stale_review"} \/ causes' = causes \cup {}
        /\ draft.status = "needs_review" \/ Caused({"stale_review"})
    BY <1>6 DEF Save, Caused
  <2>3. {"stale_review"} \in SUBSET Cause /\ {} \in SUBSET Cause
    BY DEF Cause
  <2>4. Saves(p)
    BY <1>1, <1>2, <1>6, <2>1, <2>2 DEF Save, Saves
  <2> QED  BY <1>1, <1>2, <2>1, <2>2, <2>3, <2>4, WriteType
<1> QED  BY <1>3, <1>4, <1>5, <1>6

LEMMA CrashKind ==
  ASSUME TypeOK, NEW p \in Process, CancelFault(p) \/ Crash(p)
  PROVE  Others(p) /\ Stops(p) /\ Sound
<1> USE DEF allegroVars
<1>1. proc'[p] = IdleProc /\ Others(p) /\ ProcTyped
  BY EndMove, IdleType DEF CancelFault, Crash, End
<1>2. SameAllegro /\ SameDraft /\ UNCHANGED requests /\ faults' \in 0..MaxFaults
  BY FaultType DEF CancelFault, Crash, SameAllegro, SameDraft
<1>3. CASE CancelFault(p)
  <2>1. /\ proc[p].pc = "cancel" /\ causes' = causes \cup {"lost_answer"}
        /\ {"lost_answer"} \in SUBSET Cause
    BY <1>3 DEF CancelFault, Cause
  <2>2. Stops(p)
    BY <1>1, <1>2, <2>1 DEF Stops, Unsaved, Caused
  <2> QED  BY <1>1, <1>2, <2>1, <2>2, SilentType
<1>4. CASE Crash(p)
  <2>1. Stops(p)
    BY <1>1, <1>2, <1>4 DEF Crash, Stops, Caused
  <2>2. /\ causes' = causes \cup {"crash"} \/ causes' = causes \cup {}
        /\ {"crash"} \in SUBSET Cause /\ {} \in SUBSET Cause
    BY <1>4 DEF Crash, Cause
  <2> QED  BY <1>1, <1>2, <2>1, <2>2, SilentType
<1> QED  BY <1>3, <1>4

LEMMA AllegroKind ==
  ASSUME TypeOK, NEW c \in Cmd, NEW state \in {"success", "error"},
         CommandDone(c, state) \/ PickupDone(c, state)
  PROVE  (CommandAnswered \/ PickupAnswered) /\ Sound
<1>1. CASE CommandDone(c, state)
  <2>1. commands' \in Seq([parcel : Parcel, state : CommandState])
    BY <1>1, CommandReplacedType DEF CommandDone, CommandState
  <2>2. CommandAnswered
    BY <1>1 DEF CommandDone, CommandAnswered, SameDraft
  <2> QED  BY <1>1, <2>1, <2>2 DEF CommandDone, Sound, TypeOK
<1>2. CASE PickupDone(c, state)
  <2>1. pickups' \in Seq(CommandState)
    BY <1>2 DEF PickupDone, TypeOK, CommandState
  <2>2. PickupAnswered
    BY <1>2 DEF PickupDone, PickupAnswered, SameDraft
  <2> QED  BY <1>2, <2>1, <2>2 DEF PickupDone, Sound, TypeOK
<1> QED  BY <1>1, <1>2

(***************************************************************************)
(* Every step is of one of these kinds.                                    *)
(***************************************************************************)
LEMMA Kinds ==
  ASSUME TypeOK, Next
  PROVE  /\ (\E p \in Process : Step(p)) \/ CommandAnswered \/ PickupAnswered
         /\ Sound
<1>1. ASSUME NEW p \in Process,
             Request(p) \/ Run(p) \/ Pickup(p) \/ Action(p) \/ Fault(p)
      PROVE  Step(p) /\ Sound
  <2>1. CASE Request(p)
    BY <2>1, RequestKind DEF Step, OtherStep
  <2>2. CASE Run(p)
    BY <2>2, RunKind
  <2>3. CASE Pickup(p)
    BY <2>3, ClaimPickupKind, LearnKind, CreatePickupKind, PersistPickupKind,
       WritePickupKind
    DEF Pickup, Step, RunStep, PickupStep, OtherStep
  <2>4. CASE Action(p)
    BY <2>4, CancelKind, SaveKind DEF Action, Step, OtherStep
  <2>5. CASE Fault(p)
    BY <2>5, FaultKind, LearnKind, PersistPickupKind, WritePickupKind, CrashKind
    DEF Fault, Step, RunStep, PickupStep, OtherStep
  <2> QED  BY <1>1, <2>1, <2>2, <2>3, <2>4, <2>5
<1>2. ASSUME NEW c \in Cmd, NEW state \in {"success", "error"},
             CommandDone(c, state) \/ PickupDone(c, state)
      PROVE  (CommandAnswered \/ PickupAnswered) /\ Sound
  BY <1>2, AllegroKind
<1> QED  BY <1>1, <1>2 DEF Next

(***************************************************************************)
(* Every reachable state has the types of TypeOK (shipping_store.py,       *)
(* allegro_delivery.py).                                                   *)
(***************************************************************************)
THEOREM ActionsTypeCorrect == Spec => []TypeOK
<1>1. TypeOK /\ [Next]_vars => TypeOK'
  <2>1. ASSUME TypeOK, UNCHANGED vars PROVE TypeOK'
    BY <2>1 DEF TypeOK, vars
  <2> QED  BY <2>1, Kinds DEF Sound
<1> QED  BY <1>1, TypeInit, PTL DEF Spec

-----------------------------------------------------------------------------
(***************************************************************************)
(* LocalInv, the first of the inductive invariants of DraftActionsInv, is  *)
(* kept by every kind of step above: what the draft and the requests name  *)
(* exists at Allegro.                                                      *)
(*                                                                         *)
(* What Allegro knows only grows: a command keeps its parcel, one that was *)
(* carried out may at most be cancelled, and a cancelled pickup or a       *)
(* failed one stays so.                                                    *)
(***************************************************************************)
Carried == {"success", "cancelled"}

CommandsGrow ==
    /\ Len(commands) \in Nat /\ Len(commands') \in Nat
    /\ Len(commands) <= Len(commands') /\ Len(commands') <= MaxCmds
    /\ \A c \in 1..Len(commands) :
          /\ commands'[c].parcel = commands[c].parcel
          /\ commands[c].state \in Carried => commands'[c].state \in Carried

PickupsGrow ==
    /\ Len(pickups) \in Nat /\ Len(pickups') \in Nat
    /\ Len(pickups) <= Len(pickups') /\ Len(pickups') <= MaxPickups
    /\ \A c \in 1..Len(pickups) :
          /\ pickups[c] \in Carried => pickups'[c] \in Carried
          /\ pickups[c] \in {"error", "cancelled"} => pickups'[c] = pickups[c]

Grows == CommandsGrow /\ PickupsGrow

LEMMA Lengths ==
  ASSUME TypeOK
  PROVE  /\ Len(commands) \in Nat /\ DOMAIN commands = 1..Len(commands)
         /\ Len(pickups) \in Nat /\ DOMAIN pickups = 1..Len(pickups)
         /\ \A c \in 1..Len(commands) :
               commands[c] \in [parcel : Parcel, state : CommandState]
         /\ \A c \in 1..Len(pickups) : pickups[c] \in CommandState
  BY LenProperties DEF TypeOK

LEMMA SameCommandsGrow ==
  ASSUME TypeOK, LocalInv, commands' = commands PROVE CommandsGrow
  BY Lengths DEF CommandsGrow, LocalInv

LEMMA SamePickupsGrow ==
  ASSUME TypeOK, LocalInv, pickups' = pickups PROVE PickupsGrow
  BY Lengths DEF PickupsGrow, LocalInv

LEMMA OrderedGrows ==
  ASSUME TypeOK, LocalInv, NEW p \in Process, Ordered(p)
  PROVE  /\ CommandsGrow /\ Len(commands') = Len(commands) + 1
         /\ \A c \in 1..Len(commands) : commands'[c] = commands[c]
         /\ commands'[Len(commands) + 1]
               = [parcel |-> Current(p), state |-> "pending"]
<1>1. /\ Len(commands') = Len(commands) + 1 /\ Len(commands) < MaxCmds
      /\ \A c \in 1..Len(commands) : commands'[c] = commands[c]
      /\ commands'[Len(commands) + 1]
            = [parcel |-> Current(p), state |-> "pending"]
  BY DEF TypeOK, Ordered
<1> QED  BY <1>1, Lengths DEF CommandsGrow

LEMMA PickupOrderedGrows ==
  ASSUME TypeOK, LocalInv, Len(pickups) < MaxPickups,
         pickups' = Append(pickups, "pending")
  PROVE  /\ PickupsGrow /\ Len(pickups') = Len(pickups) + 1
         /\ \A c \in 1..Len(pickups) : pickups'[c] = pickups[c]
         /\ pickups'[Len(pickups) + 1] = "pending"
<1>1. /\ Len(pickups') = Len(pickups) + 1
      /\ \A c \in 1..Len(pickups) : pickups'[c] = pickups[c]
      /\ pickups'[Len(pickups) + 1] = "pending"
  BY DEF TypeOK
<1>2. Len(pickups) \in Nat /\ MaxPickups \in Nat
  BY Lengths
<1> QED  BY <1>1, <1>2, Lengths DEF PickupsGrow

\* a command's state changes, to one that a command carried out may have
LEMMA CommandStateGrows ==
  ASSUME TypeOK, LocalInv, NEW c \in 1..Len(commands), NEW state,
         commands[c].state \notin Carried \/ state \in Carried,
         commands' = [commands EXCEPT ![c].state = state]
  PROVE  /\ CommandsGrow /\ Len(commands') = Len(commands)
         /\ commands'[c].state = state
         /\ \A d \in 1..Len(commands) \ {c} : commands'[d] = commands[d]
<1>1. Len(commands') = Len(commands) /\ Len(commands) \in Nat
  BY Lengths DEF TypeOK
<1>2. \A d \in 1..Len(commands) \ {c} : commands'[d] = commands[d]
  BY Lengths
<1>3. commands'[c] = [commands[c] EXCEPT !.state = state]
  BY Lengths
<1>4. commands'[c].state = state /\ commands'[c].parcel = commands[c].parcel
  BY <1>3, Lengths
<1> QED  BY <1>1, <1>2, <1>4, Lengths DEF CommandsGrow, LocalInv

LEMMA PickupStateGrows ==
  ASSUME TypeOK, LocalInv, NEW c \in 1..Len(pickups), NEW state,
         \/ pickups[c] = "pending"
         \/ pickups[c] \in Carried /\ state = "cancelled",
         pickups' = [pickups EXCEPT ![c] = state]
  PROVE  /\ PickupsGrow /\ Len(pickups') = Len(pickups)
         /\ pickups'[c] = state
         /\ \A d \in 1..Len(pickups) \ {c} : pickups'[d] = pickups[d]
<1>1. Len(pickups') = Len(pickups) /\ Len(pickups) \in Nat
  BY Lengths DEF TypeOK
<1>2. /\ \A d \in 1..Len(pickups) \ {c} : pickups'[d] = pickups[d]
      /\ pickups'[c] = state
  BY Lengths
<1> QED  BY <1>1, <1>2, Lengths DEF PickupsGrow, LocalInv, Carried

-----------------------------------------------------------------------------
(***************************************************************************)
(* The requests' own state.                                                *)
(***************************************************************************)
LEMMA IdleLocal ==
  ASSUME TypeOK, TypeOK', NEW p \in Process, proc'[p] = IdleProc
  PROVE  Local(p)'
<1>1. Len(commands') >= 0 /\ Len(pickups') >= 0
  BY Lengths
<1>2. Exists(proc[p].snap)'
  BY <1>1 DEF IdleProc, InitialDraft, Exists, ShipsExist, NoShipments, NoCmd
<1> QED
  BY <1>1, <1>2
  DEF Local, IdleProc, Place, OrdersParcel, OrdersPickup, CancelsPickup,
      ParcelPc, PickupPc, NoCmd

LEMMA SameTodo ==
  ASSUME NEW p \in Process, proc'[p].snap.ships = proc[p].snap.ships
  PROVE  Todo(p)' = Todo(p) /\ Current(p)' = Current(p)
  BY DEF Todo, Current

\* what a draft names stays
LEMMA ExistsKept ==
  ASSUME TypeOK, Grows, NEW d \in Draft, Exists(d)
  PROVE  /\ \A k \in Parcel :
               /\ d.ships[k].cmd <= Len(commands')
               /\ d.ships[k].id => /\ d.ships[k].cmd # NoCmd
                                   /\ commands'[d.ships[k].cmd].state \in Carried
         /\ d.command <= Len(commands')
         /\ d.pickupCommand <= Len(pickups') /\ d.dispatch <= Len(pickups')
         /\ d.dispatch # NoCmd => pickups'[d.dispatch] \in Carried
<1> USE Lengths, DraftFields DEF Grows, Cmd, NoCmd
<1>1. ASSUME NEW k \in Parcel
      PROVE  /\ d.ships[k].cmd <= Len(commands')
             /\ d.ships[k].id => /\ d.ships[k].cmd # NoCmd
                                 /\ commands'[d.ships[k].cmd].state \in Carried
  <2>1. /\ d.ships[k].cmd \in Nat /\ d.ships[k].cmd <= Len(commands)
        /\ d.ships[k].id => /\ d.ships[k].cmd # NoCmd
                            /\ commands[d.ships[k].cmd].state \in Carried
    BY DEF Exists, ShipsExist, Shipments, Carried
  <2> QED  BY <2>1 DEF CommandsGrow
<1>2. d.command <= Len(commands')
  BY DEF Exists, CommandsGrow
<1>3. /\ d.pickupCommand <= Len(pickups') /\ d.dispatch <= Len(pickups')
      /\ d.dispatch # NoCmd => pickups'[d.dispatch] \in Carried
  BY DEF Exists, PickupsGrow, Carried
<1> QED  BY <1>1, <1>2, <1>3

LEMMA SnapExists ==
  ASSUME TypeOK, Grows, NEW p \in Process, Exists(proc[p].snap),
         proc'[p].snap = proc[p].snap
  PROVE  Exists(proc[p].snap)'
  BY ExistsKept, ProcFields DEF Exists, ShipsExist, Carried

LEMMA DraftExists ==
  ASSUME TypeOK, Grows, Exists(draft), SameDraft
  PROVE  Exists(draft)'
  BY ExistsKept DEF Exists, ShipsExist, Carried, TypeOK, SameDraft

LEMMA LocalKept ==
  ASSUME TypeOK, Grows, NEW p \in Process, Local(p), proc'[p] = proc[p]
  PROVE  Local(p)'
<1> USE Lengths, ProcFields DEF Cmd, NoCmd
<1>1. Exists(proc[p].snap)'
  BY SnapExists DEF Local
<1>2. Todo(p)' = Todo(p) /\ Current(p)' = Current(p)
  BY SameTodo
<1>3. OrdersParcel(p)'
  BY <1>2 DEF Local, OrdersParcel, Grows, CommandsGrow, Carried, ParcelPc,
     PickupPc
<1>4. OrdersPickup(p)'
  BY DEF Local, OrdersPickup, Grows, PickupsGrow, Carried, PickupPc
<1>5. CancelsPickup(p)'
  BY DraftFields DEF Local, CancelsPickup, Grows, PickupsGrow, Exists
<1> QED  BY <1>1, <1>3, <1>4, <1>5 DEF Local, Place

LocalDraft == /\ Exists(draft)
              /\ draft.dispatch = NoCmd \/ draft.pickupCommand = NoCmd

Owned(p) == Grows /\ LocalDraft' /\ Local(p)'

LEMMA StillGrows ==
  ASSUME TypeOK, LocalInv, SameAllegro PROVE Grows
  BY SameCommandsGrow, SamePickupsGrow DEF Grows, SameAllegro

LEMMA StillExists ==
  ASSUME TypeOK, LocalInv, Grows, SameDraft PROVE LocalDraft'
  BY DraftExists DEF LocalInv, LocalDraft, SameDraft

\* a row with new shipments or a new pickup still names what exists
LEMMA DraftKept ==
  ASSUME TypeOK, LocalInv, Grows, draft'.ships = draft.ships
  PROVE  ShipsExist(draft.ships)'
  BY ExistsKept DEF LocalInv, ShipsExist, Carried, TypeOK

LEMMA LocalStarts ==
  ASSUME TypeOK, TypeOK', LocalInv, NEW p \in Process, Starts(p)
  PROVE  Owned(p)
<1>1. Grows /\ LocalDraft'
  BY StillGrows, StillExists DEF Starts
<1>2. PICK op \in Op, pc \in Pc :
        /\ Asked(op, pc)
        /\ proc'[p] = [pc |-> pc, op |-> op, snap |-> draft, cmd |-> NoCmd,
                       pcmd |-> NoCmd, outcome |-> "none"]
  BY DEF Starts
<1>3. Exists(proc[p].snap)'
  BY <1>1, <1>2 DEF LocalDraft, Starts, SameDraft, Exists, ShipsExist
<1>4. Len(commands') >= 0 /\ Len(pickups') >= 0
  BY Lengths
<1>5. OrdersParcel(p)' /\ OrdersPickup(p)' /\ CancelsPickup(p)'
  BY <1>2, <1>4
  DEF Asked, OrdersParcel, OrdersPickup, CancelsPickup, ParcelPc, PickupPc, NoCmd
<1>6. Place(p)' /\ proc'[p].pc # "idle"
  BY <1>2 DEF Asked, Place, ParcelPc, PickupPc
<1> QED  BY <1>1, <1>3, <1>5, <1>6 DEF Owned, Local

LEMMA LocalStops ==
  ASSUME TypeOK, TypeOK', LocalInv, NEW p \in Process, Stops(p)
  PROVE  Owned(p)
  BY StillGrows, StillExists, IdleLocal DEF Stops, Owned

LEMMA LocalErrs ==
  ASSUME TypeOK, TypeOK', LocalInv, NEW p \in Process, Errs(p)
  PROVE  Owned(p)
<1>1. Grows
  BY StillGrows DEF Errs
<1>2. LocalDraft'
  BY <1>1, DraftKept, ExistsKept DEF Errs, Orders, SamePickup, Collects, LocalInv,
     LocalDraft, Exists, Carried, TypeOK
<1> QED  BY <1>1, <1>2, IdleLocal DEF Errs, Owned

\* a request moves on and keeps its snapshot
LEMMA MovedSnap ==
  ASSUME TypeOK, LocalInv, Grows, NEW p \in Process, NEW pc, NEW cmd, NEW pcmd,
         NEW outcome, Moves(p, pc, cmd, pcmd, outcome)
  PROVE  /\ Exists(proc[p].snap)'
         /\ Todo(p)' = Todo(p) /\ Current(p)' = Current(p)
         /\ proc'[p].pc = pc /\ proc'[p].op = proc[p].op
         /\ proc'[p].snap = proc[p].snap /\ proc'[p].cmd = cmd
         /\ proc'[p].pcmd = pcmd /\ proc'[p].outcome = outcome
  BY SnapExists, SameTodo DEF LocalInv, Local, Moves, Goes

LEMMA LocalFails ==
  ASSUME TypeOK, TypeOK', LocalInv, NEW p \in Process, Fails(p)
  PROVE  Owned(p)
<1>1. Grows
  BY SameCommandsGrow, SamePickupsGrow, OrderedGrows DEF Grows, Fails
<1>2. LocalDraft'
  BY <1>1, StillExists DEF Fails
<1>3. PICK outcome \in Outcome :
        Moves(p, "fail", proc[p].cmd, proc[p].pcmd, outcome)
  BY DEF Fails
<1>4. Local(p) /\ proc[p].op \in {"execute", "confirm"}
  BY DEF Fails, LocalInv, Local, Place, ParcelPc, PickupPc, TypeOK, Proc, Op
<1>5. OrdersParcel(p)' /\ OrdersPickup(p)' /\ CancelsPickup(p)'
  BY <1>1, <1>3, <1>4, MovedSnap, ProcFields, Lengths
  DEF Local, OrdersParcel, OrdersPickup, CancelsPickup, ParcelPc, PickupPc,
      Grows, CommandsGrow, PickupsGrow, Cmd, NoCmd
<1> QED
  BY <1>1, <1>2, <1>3, <1>4, <1>5, MovedSnap
  DEF Owned, Local, Place, ParcelPc, PickupPc

LEMMA LocalReleases ==
  ASSUME TypeOK, TypeOK', LocalInv, NEW p \in Process, Releases(p)
  PROVE  Owned(p)
<1>1. Grows /\ LocalDraft'
  BY StillGrows, StillExists DEF Releases
<1>2. CASE proc'[p] = [IdleProc EXCEPT !.pc = "release"]
  <2>1. Len(commands') >= 0 /\ Len(pickups') >= 0
    BY Lengths
  <2>2. /\ proc'[p].pc = "release" /\ proc'[p].op = "execute"
        /\ proc'[p].cmd = NoCmd /\ proc'[p].pcmd = NoCmd
        /\ proc'[p].snap = InitialDraft("pending") /\ proc'[p].outcome = "none"
    BY <1>2 DEF IdleProc
  <2>3. Exists(proc[p].snap)'
    BY <2>1, <2>2 DEF InitialDraft, Exists, ShipsExist, NoShipments, NoCmd
  <2>4. OrdersParcel(p)' /\ OrdersPickup(p)' /\ CancelsPickup(p)' /\ Place(p)'
    <3>1. OrdersParcel(p)'
      BY <2>1, <2>2
      DEF OrdersParcel, Place, ParcelPc, PickupPc, NoCmd
    <3>2. OrdersPickup(p)'
      BY <2>1, <2>2
      DEF OrdersPickup, Place, ParcelPc, PickupPc, NoCmd
    <3>3. CancelsPickup(p)'
      BY <2>1, <2>2
      DEF CancelsPickup, Place, ParcelPc, PickupPc, NoCmd
    <3>4. Place(p)'
      BY <2>1, <2>2
      DEF Place, ParcelPc, PickupPc, NoCmd
    <3> QED  BY <3>1, <3>2, <3>3, <3>4
  <2> QED  BY <1>1, <2>2, <2>3, <2>4 DEF Owned, Local
<1>3. CASE proc[p].pc = "release" /\ Turns(p, "reopen")
  <2>1. Local(p)
    BY DEF LocalInv
  <2>2. OrdersParcel(p)' /\ OrdersPickup(p)' /\ CancelsPickup(p)' /\ Place(p)'
    <3>1. OrdersParcel(p)'
      BY <1>1, <1>3, <2>1, MovedSnap, ProcFields, Lengths
      DEF OrdersParcel, Turns, Local, Place, ParcelPc, PickupPc, Grows,
          CommandsGrow, PickupsGrow, Cmd, NoCmd
    <3>2. OrdersPickup(p)'
      BY <1>1, <1>3, <2>1, MovedSnap, ProcFields, Lengths
      DEF OrdersPickup, Turns, Local, Place, ParcelPc, PickupPc, Grows,
          CommandsGrow, PickupsGrow, Cmd, NoCmd
    <3>3. CancelsPickup(p)'
      BY <1>1, <1>3, <2>1, MovedSnap, ProcFields, Lengths
      DEF CancelsPickup, Turns, Local, Place, ParcelPc, PickupPc, Grows,
          CommandsGrow, PickupsGrow, Cmd, NoCmd
    <3>4. Place(p)'
      BY <1>1, <1>3, <2>1, MovedSnap, ProcFields, Lengths
      DEF Turns, Local, Place, ParcelPc, PickupPc, Grows, CommandsGrow,
          PickupsGrow, Cmd, NoCmd
    <3> QED  BY <3>1, <3>2, <3>3, <3>4
  <2> QED  BY <1>1, <1>3, <2>2, MovedSnap DEF Turns, Owned, Local
<1> QED  BY <1>2, <1>3 DEF Releases

LEMMA LocalClaims ==
  ASSUME TypeOK, TypeOK', LocalInv, NEW p \in Process, Claims(p)
  PROVE  Owned(p)
<1> USE DEF Claims, Turns
<1>1. Grows
  BY StillGrows
<1>2. LocalDraft'
  BY <1>1, DraftKept, ExistsKept DEF Orders, SamePickup, Collects, LocalInv,
     LocalDraft, Exists, Carried, TypeOK
<1>3. Local(p)
  BY DEF LocalInv
<1>4. Place(p)'
  BY <1>1, <1>3, MovedSnap DEF Local, Place, ParcelPc, PickupPc
<1>5. OrdersParcel(p)'
  BY <1>1, <1>3, MovedSnap, ProcFields, Lengths
  DEF Local, Place, OrdersParcel, ParcelPc, PickupPc, Grows, CommandsGrow, Cmd, NoCmd
<1>6. OrdersPickup(p)'
  BY <1>1, <1>3, MovedSnap, ProcFields, Lengths
  DEF Local, Place, OrdersPickup, ParcelPc, PickupPc, Grows, PickupsGrow, Cmd, NoCmd
<1>7. CancelsPickup(p)'
  BY <1>1, <1>3, MovedSnap, ProcFields, Lengths
  DEF Local, Place, CancelsPickup, ParcelPc, PickupPc, Grows, PickupsGrow, Cmd, NoCmd
<1> QED  BY <1>1, <1>2, <1>4, <1>5, <1>6, <1>7, MovedSnap DEF Owned, Local

LEMMA LocalProposes ==
  ASSUME TypeOK, TypeOK', LocalInv, NEW p \in Process, Proposes(p)
  PROVE  Owned(p)
<1> USE DEF Proposes, Turns
<1>1. Grows
  BY StillGrows
<1>2. LocalDraft'
  BY <1>1, StillExists
<1>3. Local(p)
  BY DEF LocalInv
<1>4. Place(p)'
  BY <1>1, <1>3, MovedSnap DEF Local, Place, ParcelPc, PickupPc
<1>5. OrdersParcel(p)'
  BY <1>1, <1>3, MovedSnap, ProcFields, Lengths
  DEF Local, Place, OrdersParcel, ParcelPc, PickupPc, Grows, CommandsGrow, Cmd, NoCmd
<1>6. OrdersPickup(p)'
  BY <1>1, <1>3, MovedSnap, ProcFields, Lengths
  DEF Local, Place, OrdersPickup, ParcelPc, PickupPc, Grows, PickupsGrow, Cmd, NoCmd
<1>7. CancelsPickup(p)'
  BY <1>1, <1>3, MovedSnap, ProcFields, Lengths
  DEF Local, Place, CancelsPickup, ParcelPc, PickupPc, Grows, PickupsGrow, Cmd, NoCmd
<1> QED  BY <1>1, <1>2, <1>4, <1>5, <1>6, <1>7, MovedSnap DEF Owned, Local

LEMMA LocalResumes ==
  ASSUME TypeOK, TypeOK', LocalInv, NEW p \in Process, Resumes(p)
  PROVE  Owned(p)
<1> USE DEF Resumes, Turns
<1>1. Grows
  BY StillGrows
<1>2. LocalDraft'
  BY <1>1, StillExists
<1>3. Local(p)
  BY DEF LocalInv
<1>4. Current(p) \in Parcel /\ KnownCommand(p) \in Nat
  BY CurrentIsFirst, ProcFields, DraftFields DEF KnownCommand, Shipments, Cmd, NoCmd
<1>5. KnownCommand(p) <= Len(commands)
  BY <1>3, <1>4, Lengths DEF KnownCommand, Local, Exists, ShipsExist, NoCmd
<1>6. OrdersParcel(p)' /\ OrdersPickup(p)' /\ CancelsPickup(p)' /\ Place(p)'
  <2>1. OrdersParcel(p)'
    BY <1>1, <1>3, <1>4, <1>5, MovedSnap, ProcFields, Lengths
    DEF OrdersParcel, Local, Place, ParcelPc, PickupPc, Grows, CommandsGrow,
        PickupsGrow, Cmd, NoCmd
  <2>2. OrdersPickup(p)'
    BY <1>1, <1>3, <1>4, <1>5, MovedSnap, ProcFields, Lengths
    DEF OrdersPickup, Local, Place, ParcelPc, PickupPc, Grows, CommandsGrow,
        PickupsGrow, Cmd, NoCmd
  <2>3. CancelsPickup(p)'
    BY <1>1, <1>3, <1>4, <1>5, MovedSnap, ProcFields, Lengths
    DEF CancelsPickup, Local, Place, ParcelPc, PickupPc, Grows, CommandsGrow,
        PickupsGrow, Cmd, NoCmd
  <2>4. Place(p)'
    BY <1>1, <1>3, <1>4, <1>5, MovedSnap, ProcFields, Lengths
    DEF Local, Place, ParcelPc, PickupPc, Grows, CommandsGrow, PickupsGrow,
        Cmd, NoCmd
  <2> QED  BY <2>1, <2>2, <2>3, <2>4
<1> QED  BY <1>1, <1>2, <1>6, MovedSnap DEF Owned, Local

LEMMA LocalCreates ==
  ASSUME TypeOK, TypeOK', LocalInv, NEW p \in Process, Creates(p)
  PROVE  Owned(p)
<1> USE DEF Creates, Turns
<1>1. Grows
  BY OrderedGrows, SamePickupsGrow DEF Grows
<1>2. LocalDraft'
  BY <1>1, StillExists
<1>3. Local(p)
  BY DEF LocalInv
<1>4. Len(commands') = Len(commands) + 1
  BY OrderedGrows
<1>5. OrdersParcel(p)' /\ OrdersPickup(p)' /\ CancelsPickup(p)' /\ Place(p)'
  <2>1. OrdersParcel(p)'
    BY <1>1, <1>3, <1>4, MovedSnap, ProcFields, Lengths
    DEF OrdersParcel, Local, Place, ParcelPc, PickupPc, Grows, CommandsGrow,
        PickupsGrow, Cmd, NoCmd
  <2>2. OrdersPickup(p)'
    BY <1>1, <1>3, <1>4, MovedSnap, ProcFields, Lengths
    DEF OrdersPickup, Local, Place, ParcelPc, PickupPc, Grows, CommandsGrow,
        PickupsGrow, Cmd, NoCmd
  <2>3. CancelsPickup(p)'
    BY <1>1, <1>3, <1>4, MovedSnap, ProcFields, Lengths
    DEF CancelsPickup, Local, Place, ParcelPc, PickupPc, Grows, CommandsGrow,
        PickupsGrow, Cmd, NoCmd
  <2>4. Place(p)'
    BY <1>1, <1>3, <1>4, MovedSnap, ProcFields, Lengths
    DEF Local, Place, ParcelPc, PickupPc, Grows, CommandsGrow, PickupsGrow,
        Cmd, NoCmd
  <2> QED  BY <2>1, <2>2, <2>3, <2>4
<1> QED  BY <1>1, <1>2, <1>5, MovedSnap DEF Owned, Local

LEMMA LocalPersists ==
  ASSUME TypeOK, TypeOK', LocalInv, NEW p \in Process, Persists(p)
  PROVE  Owned(p)
<1> USE DEF Persists, Turns
<1>1. Grows
  BY StillGrows
<1>2. LocalDraft'
  BY <1>1, DraftKept, ExistsKept, Lengths
  DEF Orders, SamePickup, Collects, LocalInv, LocalDraft, Exists, Carried, TypeOK,
      SameAllegro, Local, OrdersParcel
<1>3. Local(p)
  BY DEF LocalInv
<1>4. OrdersParcel(p)' /\ Place(p)'
  BY <1>1, <1>3, MovedSnap
  DEF Local, Place, OrdersParcel, ParcelPc, PickupPc, SameAllegro
<1>5. OrdersPickup(p)' /\ CancelsPickup(p)'
  BY <1>1, <1>3, MovedSnap
  DEF Local, Place, OrdersPickup, CancelsPickup, ParcelPc, PickupPc, SameAllegro
<1> QED  BY <1>1, <1>2, <1>4, <1>5, MovedSnap DEF Owned, Local

LEMMA LocalWaits ==
  ASSUME TypeOK, TypeOK', LocalInv, NEW p \in Process, Waits(p)
  PROVE  Owned(p)
<1> USE DEF Waits, Turns
<1>1. Grows
  BY StillGrows
<1>2. LocalDraft'
  BY <1>1, StillExists
<1>3. Local(p)
  BY DEF LocalInv
<1>4. /\ proc[p].cmd \in 1..Len(commands)
      /\ commands[proc[p].cmd].state \in CommandState
  BY <1>3, ProcFields, Lengths DEF Local, OrdersParcel, ParcelPc, Cmd, NoCmd
<1>5. OrdersParcel(p)' /\ OrdersPickup(p)' /\ CancelsPickup(p)' /\ Place(p)'
  <2>1. OrdersParcel(p)'
    BY <1>1, <1>3, <1>4, MovedSnap, ProcFields, Lengths
    DEF OrdersParcel, Local, Place, ParcelPc, PickupPc, Grows, CommandsGrow,
        PickupsGrow, Cmd, NoCmd, SameAllegro, CommandState
  <2>2. OrdersPickup(p)'
    BY <1>1, <1>3, <1>4, MovedSnap, ProcFields, Lengths
    DEF OrdersPickup, Local, Place, ParcelPc, PickupPc, Grows, CommandsGrow,
        PickupsGrow, Cmd, NoCmd, SameAllegro, CommandState
  <2>3. CancelsPickup(p)'
    BY <1>1, <1>3, <1>4, MovedSnap, ProcFields, Lengths
    DEF CancelsPickup, Local, Place, ParcelPc, PickupPc, Grows, CommandsGrow,
        PickupsGrow, Cmd, NoCmd, SameAllegro, CommandState
  <2>4. Place(p)'
    BY <1>1, <1>3, <1>4, MovedSnap, ProcFields, Lengths
    DEF Local, Place, ParcelPc, PickupPc, Grows, CommandsGrow, PickupsGrow,
        Cmd, NoCmd, SameAllegro, CommandState
  <2> QED  BY <2>1, <2>2, <2>3, <2>4
<1> QED  BY <1>1, <1>2, <1>5, MovedSnap DEF Owned, Local

LEMMA LocalCompletes ==
  ASSUME TypeOK, TypeOK', LocalInv, NEW p \in Process, Completes(p)
  PROVE  Owned(p)
<1>1. Grows /\ LocalDraft'
  BY StillGrows, StillExists DEF Completes
<1>2. Local(p) /\ proc[p].pc = "parcel" /\ Todo(p) = {}
  BY DEF LocalInv, Completes
<1>3. /\ proc[p].snap.pickupCommand \in Nat
      /\ proc[p].snap.pickupCommand <= Len(pickups)
  BY <1>2, ProcFields, DraftFields DEF Local, Exists, Cmd, NoCmd
<1>4. proc[p].outcome = "none" /\ proc[p].pcmd = NoCmd
  BY <1>2 DEF Local, OrdersPickup, PickupPc
<1>5. PICK pc \in {"finish", "propose", "pickup_status"},
           pcmd \in {NoCmd, proc[p].snap.pickupCommand} :
        /\ Moves(p, pc, proc[p].cmd, pcmd, "none")
        /\ pc \in {"propose", "finish"} => pcmd = NoCmd
        /\ pc = "pickup_status" => pcmd # NoCmd
        /\ pc # "finish" => proc[p].op = "execute"
  BY <1>4 DEF Completes, Turns
<1>6. Place(p)' /\ CancelsPickup(p)'
  BY <1>2, <1>5, MovedSnap, <1>1 DEF Local, Place, CancelsPickup, ParcelPc, PickupPc
<1>7. OrdersParcel(p)'
  BY <1>1, <1>2, <1>5, MovedSnap DEF Local, OrdersParcel, ParcelPc, Completes, SameAllegro
<1>8. OrdersPickup(p)'
  BY <1>1, <1>2, <1>3, <1>5, MovedSnap, Lengths
  DEF Local, Place, OrdersPickup, ParcelPc, PickupPc, Completes, SameAllegro, NoCmd
<1> QED  BY <1>1, <1>5, <1>6, <1>7, <1>8, MovedSnap DEF Owned, Local

LEMMA LocalClaimsPickup ==
  ASSUME TypeOK, TypeOK', LocalInv, NEW p \in Process, ClaimsPickup(p)
  PROVE  Owned(p)
<1> USE DEF ClaimsPickup, Turns
<1>1. Grows
  BY StillGrows
<1>2. LocalDraft'
  BY <1>1, DraftKept, ExistsKept DEF SameOrder, Orders, Collects, LocalInv,
     LocalDraft, Exists, Carried, TypeOK
<1>3. Local(p)
  BY DEF LocalInv
<1>4. /\ proc[p].snap.pickupCommand \in Nat
      /\ proc[p].snap.pickupCommand <= Len(pickups)
  BY <1>3, ProcFields, DraftFields DEF Local, Exists, Cmd, NoCmd
<1>5. OrdersParcel(p)' /\ OrdersPickup(p)' /\ CancelsPickup(p)' /\ Place(p)'
  <2>1. OrdersParcel(p)'
    BY <1>1, <1>3, <1>4, MovedSnap, ProcFields, Lengths
    DEF OrdersParcel, Local, Place, ParcelPc, PickupPc, Grows, CommandsGrow,
        PickupsGrow, Cmd, NoCmd
  <2>2. OrdersPickup(p)'
    BY <1>1, <1>3, <1>4, MovedSnap, ProcFields, Lengths
    DEF OrdersPickup, Local, Place, ParcelPc, PickupPc, Grows, CommandsGrow,
        PickupsGrow, Cmd, NoCmd
  <2>3. CancelsPickup(p)'
    BY <1>1, <1>3, <1>4, MovedSnap, ProcFields, Lengths
    DEF CancelsPickup, Local, Place, ParcelPc, PickupPc, Grows, CommandsGrow,
        PickupsGrow, Cmd, NoCmd
  <2>4. Place(p)'
    BY <1>1, <1>3, <1>4, MovedSnap, ProcFields, Lengths
    DEF Local, Place, ParcelPc, PickupPc, Grows, CommandsGrow, PickupsGrow,
        Cmd, NoCmd
  <2> QED  BY <2>1, <2>2, <2>3, <2>4
<1> QED  BY <1>1, <1>2, <1>5, MovedSnap DEF Owned, Local

LEMMA LocalCreatesPickup ==
  ASSUME TypeOK, TypeOK', LocalInv, NEW p \in Process, CreatesPickup(p)
  PROVE  Owned(p)
<1> USE DEF CreatesPickup, Turns
<1>1. Grows
  BY PickupOrderedGrows, SameCommandsGrow DEF Grows
<1>2. LocalDraft'
  BY <1>1, StillExists
<1>3. Local(p)
  BY DEF LocalInv
<1>4. Len(pickups') = Len(pickups) + 1
  BY PickupOrderedGrows
<1>5. OrdersParcel(p)' /\ OrdersPickup(p)' /\ CancelsPickup(p)' /\ Place(p)'
  <2>1. OrdersParcel(p)'
    BY <1>1, <1>3, <1>4, MovedSnap, ProcFields, Lengths
    DEF OrdersParcel, Local, Place, ParcelPc, PickupPc, Grows, CommandsGrow,
        PickupsGrow, Cmd, NoCmd
  <2>2. OrdersPickup(p)'
    BY <1>1, <1>3, <1>4, MovedSnap, ProcFields, Lengths
    DEF OrdersPickup, Local, Place, ParcelPc, PickupPc, Grows, CommandsGrow,
        PickupsGrow, Cmd, NoCmd
  <2>3. CancelsPickup(p)'
    BY <1>1, <1>3, <1>4, MovedSnap, ProcFields, Lengths
    DEF CancelsPickup, Local, Place, ParcelPc, PickupPc, Grows, CommandsGrow,
        PickupsGrow, Cmd, NoCmd
  <2>4. Place(p)'
    BY <1>1, <1>3, <1>4, MovedSnap, ProcFields, Lengths
    DEF Local, Place, ParcelPc, PickupPc, Grows, CommandsGrow, PickupsGrow,
        Cmd, NoCmd
  <2> QED  BY <2>1, <2>2, <2>3, <2>4
<1> QED  BY <1>1, <1>2, <1>5, MovedSnap DEF Owned, Local

LEMMA LocalPersistsPickup ==
  ASSUME TypeOK, TypeOK', LocalInv, NEW p \in Process, PersistsPickup(p)
  PROVE  Owned(p)
<1> USE DEF PersistsPickup, Turns
<1>1. Grows
  BY StillGrows
<1>2. LocalDraft'
  BY <1>1, DraftKept, ExistsKept, Lengths
  DEF SameOrder, Orders, Collects, LocalInv, LocalDraft, Exists, Carried, TypeOK,
      SameAllegro, Local, OrdersPickup, NoCmd
<1>3. Local(p)
  BY DEF LocalInv
<1>4. Place(p)'
  BY <1>1, <1>3, MovedSnap DEF Local, Place, ParcelPc, PickupPc
<1>5. OrdersParcel(p)'
  BY <1>1, <1>3, MovedSnap, ProcFields, Lengths
  DEF Local, Place, OrdersParcel, ParcelPc, PickupPc, Grows, CommandsGrow, Cmd, NoCmd
<1>6. OrdersPickup(p)'
  BY <1>1, <1>3, MovedSnap, ProcFields, Lengths
  DEF Local, Place, OrdersPickup, ParcelPc, PickupPc, Grows, PickupsGrow, Cmd, NoCmd
<1>7. CancelsPickup(p)'
  BY <1>1, <1>3, MovedSnap, ProcFields, Lengths
  DEF Local, Place, CancelsPickup, ParcelPc, PickupPc, Grows, PickupsGrow, Cmd, NoCmd
<1> QED  BY <1>1, <1>2, <1>4, <1>5, <1>6, <1>7, MovedSnap DEF Owned, Local

LEMMA LocalLosesPickup ==
  ASSUME TypeOK, TypeOK', LocalInv, NEW p \in Process, LosesPickup(p)
  PROVE  Owned(p)
<1> USE DEF LosesPickup, Turns
<1>1. Grows
  BY StillGrows
<1>2. LocalDraft'
  BY <1>1, StillExists
<1>3. Local(p)
  BY DEF LocalInv
<1>4. Place(p)'
  BY <1>1, <1>3, MovedSnap DEF Local, Place, ParcelPc, PickupPc
<1>5. OrdersParcel(p)'
  BY <1>1, <1>3, MovedSnap, ProcFields, Lengths
  DEF Local, Place, OrdersParcel, ParcelPc, PickupPc, Grows, CommandsGrow, Cmd, NoCmd
<1>6. OrdersPickup(p)'
  BY <1>1, <1>3, MovedSnap, ProcFields, Lengths
  DEF Local, Place, OrdersPickup, ParcelPc, PickupPc, Grows, PickupsGrow, Cmd, NoCmd
<1>7. CancelsPickup(p)'
  BY <1>1, <1>3, MovedSnap, ProcFields, Lengths
  DEF Local, Place, CancelsPickup, ParcelPc, PickupPc, Grows, PickupsGrow, Cmd, NoCmd
<1> QED  BY <1>1, <1>2, <1>4, <1>5, <1>6, <1>7, MovedSnap DEF Owned, Local

LEMMA LocalGivesBack ==
  ASSUME TypeOK, TypeOK', LocalInv, NEW p \in Process, GivesBack(p)
  PROVE  Owned(p)
<1> USE DEF GivesBack, Turns
<1>1. Grows
  BY StillGrows
<1>2. LocalDraft'
  BY <1>1, StillExists
<1>3. Local(p)
  BY DEF LocalInv
<1>4. Place(p)'
  BY <1>1, <1>3, MovedSnap DEF Local, Place, ParcelPc, PickupPc
<1>5. OrdersParcel(p)'
  BY <1>1, <1>3, MovedSnap, ProcFields, Lengths
  DEF Local, Place, OrdersParcel, ParcelPc, PickupPc, Grows, CommandsGrow, Cmd, NoCmd
<1>6. OrdersPickup(p)'
  BY <1>1, <1>3, MovedSnap, ProcFields, Lengths
  DEF Local, Place, OrdersPickup, ParcelPc, PickupPc, Grows, PickupsGrow, Cmd, NoCmd
<1>7. CancelsPickup(p)'
  BY <1>1, <1>3, MovedSnap, ProcFields, Lengths
  DEF Local, Place, CancelsPickup, ParcelPc, PickupPc, Grows, PickupsGrow, Cmd, NoCmd
<1> QED  BY <1>1, <1>2, <1>4, <1>5, <1>6, <1>7, MovedSnap DEF Owned, Local

LEMMA LocalCheckpoints ==
  ASSUME TypeOK, TypeOK', LocalInv, NEW p \in Process, NEW id \in BOOLEAN,
         Checkpoints(p, id)
  PROVE  Owned(p)
<1> DEFINE ships == Checkpointed(p, id)
<1>1. Grows
  BY StillGrows DEF Checkpoints
<1>2. /\ Local(p) /\ proc[p].pc \in {"checkpoint", "record"}
      /\ id => proc[p].pc = "record"
  BY DEF LocalInv, Checkpoints
<1>3. /\ proc[p].op \in {"execute", "confirm"}
      /\ Todo(p) # {} /\ proc[p].cmd # NoCmd /\ proc[p].cmd <= Len(commands)
      /\ proc[p].pc = "record" => commands[proc[p].cmd].state \in Carried
  BY <1>2 DEF Local, Place, OrdersParcel, ParcelPc, Carried
<1>4. /\ \A k \in Parcel \ {Current(p)} : ships[k] = proc[p].snap.ships[k]
      /\ Current(p) \in Parcel /\ ships[Current(p)] = [cmd |-> proc[p].cmd, id |-> id]
  BY <1>3, CurrentIsFirst, ProcFields, DraftFields DEF Checkpointed, Shipments
<1>5. ASSUME NEW k \in Parcel
      PROVE  /\ ships[k].cmd <= Len(commands')
             /\ ships[k].id => /\ ships[k].cmd # NoCmd
                               /\ commands'[ships[k].cmd].state \in Carried
  <2>1. CASE k = Current(p)
    BY <2>1, <1>2, <1>3, <1>4 DEF Checkpoints, SameAllegro
  <2>2. CASE k # Current(p)
    BY <2>2, <1>1, <1>2, <1>4, ExistsKept, ProcFields DEF Local
  <2> QED  BY <2>1, <2>2
<1>6. /\ proc'[p].snap.ships = ships /\ draft'.ships = ships
      /\ proc'[p].snap.command = proc[p].snap.command
      /\ proc'[p].snap.pickupCommand = proc[p].snap.pickupCommand
      /\ proc'[p].snap.dispatch = proc[p].snap.dispatch
      /\ proc'[p].op = proc[p].op /\ proc'[p].cmd = proc[p].cmd
      /\ proc'[p].pcmd = proc[p].pcmd /\ proc'[p].outcome = proc[p].outcome
      /\ proc'[p].pc = IF id THEN "parcel" ELSE "wait"
  BY DEF Checkpoints, Reships, Orders, Goes
<1> HIDE DEF ships
<1>7. ShipsExist(proc[p].snap.ships)' /\ ShipsExist(draft.ships)'
  BY <1>5, <1>6 DEF ShipsExist, Carried
<1>8. LocalDraft'
  BY <1>1, <1>7, ExistsKept
  DEF Checkpoints, Orders, SamePickup, Collects, LocalInv, LocalDraft, Exists,
      Carried, TypeOK
<1>9. Exists(proc[p].snap)'
  BY <1>1, <1>2, <1>6, <1>7, ExistsKept, ProcFields DEF Local, Exists, Carried
<1>10. /\ commands' = commands /\ pickups' = pickups
       /\ ~id => Todo(p)' = Todo(p) /\ Current(p)' = Current(p)
  <2>1. ~id => Todo(p)' = Todo(p)
    BY <1>3, <1>4, <1>6, CurrentIsFirst DEF Todo
  <2> QED  BY <2>1 DEF Checkpoints, SameAllegro, Current
<1>11. OrdersParcel(p)' /\ OrdersPickup(p)' /\ CancelsPickup(p)' /\ Place(p)'
  <2>1. OrdersParcel(p)'
    BY <1>2, <1>3, <1>4, <1>6, <1>10
    DEF OrdersParcel, Local, Place, ParcelPc, PickupPc
  <2>2. OrdersPickup(p)'
    BY <1>2, <1>3, <1>4, <1>6, <1>10
    DEF OrdersPickup, Local, Place, ParcelPc, PickupPc
  <2>3. CancelsPickup(p)'
    BY <1>2, <1>3, <1>4, <1>6, <1>10
    DEF CancelsPickup, Local, Place, ParcelPc, PickupPc
  <2>4. Place(p)'
    BY <1>2, <1>3, <1>4, <1>6, <1>10
    DEF Local, Place, ParcelPc, PickupPc
  <2> QED  BY <2>1, <2>2, <2>3, <2>4
<1> QED  BY <1>1, <1>6, <1>8, <1>9, <1>11 DEF Owned, Local

LEMMA LocalPends ==
  ASSUME TypeOK, TypeOK', LocalInv, NEW p \in Process, Pends(p)
  PROVE  Owned(p)
<1>1. Grows
  BY StillGrows DEF Pends
<1>2. Local(p) /\ proc[p].cmd <= Len(commands)
  BY DEF LocalInv, Local, OrdersParcel
<1>3. ShipsExist(draft.ships)'
  BY <1>1, <1>2, ExistsKept, ProcFields DEF Pends, Orders, Local, ShipsExist, Carried
<1>4. LocalDraft'
  BY <1>1, <1>2, <1>3, ExistsKept
  DEF Pends, Orders, Collects, SameAllegro, LocalInv, LocalDraft, Exists, Carried,
      TypeOK
<1> QED  BY <1>1, <1>4, IdleLocal DEF Pends, Owned

LEMMA LocalFinishes ==
  ASSUME TypeOK, TypeOK', LocalInv, NEW p \in Process, Finishes(p)
  PROVE  Owned(p)
<1>1. Grows
  BY StillGrows DEF Finishes
<1>2. Local(p) /\ proc[p].cmd <= Len(commands)
  BY DEF LocalInv, Local, OrdersParcel
<1>3. ShipsExist(draft.ships)'
  BY <1>1, <1>2, ExistsKept, ProcFields DEF Finishes, Orders, Local, ShipsExist, Carried
<1>4. /\ proc[p].pcmd <= Len(pickups)
      /\ proc[p].outcome = "success" => pickups[proc[p].pcmd] \in Carried
  BY <1>2 DEF Finishes, Local, OrdersPickup, Carried
<1>5. LocalDraft'
  BY <1>2, <1>3, <1>4, Lengths
  DEF Finishes, Orders, Collects, SameAllegro, LocalDraft, Exists, Carried, NoCmd
<1> QED  BY <1>1, <1>5, IdleLocal DEF Finishes, Owned

LEMMA LocalLearns ==
  ASSUME TypeOK, TypeOK', LocalInv, NEW p \in Process, Learns(p)
  PROVE  Owned(p)
<1>1. Grows
  BY PickupOrderedGrows, SamePickupsGrow, SameCommandsGrow DEF Grows, Learns
<1>2. LocalDraft'
  BY <1>1, StillExists DEF Learns
<1>3. Local(p) /\ proc[p].pc \in {"propose", "pickup_status"}
  BY DEF LocalInv, Learns
<1>4. PICK outcome \in Outcome :
        /\ Moves(p, IF proc[p].op = "pickup" THEN "unpickup" ELSE "finish",
                 proc[p].cmd, proc[p].pcmd, outcome)
        /\ \/ proc[p].pc = "propose" /\ outcome \in {"none", "failed"}
           \/ /\ proc[p].pc = "pickup_status" /\ outcome # "none"
              /\ pickups' = pickups
              /\ outcome = "success" => pickups[proc[p].pcmd]
                                           \notin {"pending", "error"}
              /\ outcome = "over" => pickups[proc[p].pcmd] = "error"
  BY DEF Learns
<1>5. proc[p].pcmd # NoCmd => proc[p].pcmd \in 1..Len(pickups)
  BY <1>3, Lengths, ProcFields DEF Local, OrdersPickup, Cmd, NoCmd
<1>6. proc[p].op \in {"execute", "pickup"} /\ (proc[p].op = "execute" => Todo(p) = {})
  BY <1>3 DEF Local, Place, OrdersParcel, PickupPc
<1>7. Place(p)' /\ CancelsPickup(p)' /\ OrdersParcel(p)'
  BY <1>1, <1>3, <1>4, <1>6, MovedSnap
  DEF Local, Place, OrdersParcel, CancelsPickup, ParcelPc, PickupPc, Learns
<1>8. OrdersPickup(p)'
  <2>1. proc[p].pc = "pickup_status" =>
          /\ proc[p].pcmd # NoCmd
          /\ pickups[proc[p].pcmd] \in CommandState
    BY <1>3, <1>5, Lengths DEF Local, OrdersPickup
  <2>2. proc[p].pc = "propose" => proc[p].pcmd = NoCmd
    BY <1>3 DEF Local, OrdersPickup
  <2>3. proc'[p].pcmd <= Len(pickups')
    BY <1>1, <1>3, <1>4, Lengths, MovedSnap, ProcFields
    DEF Local, OrdersPickup, Grows, PickupsGrow, Cmd, NoCmd
  <2> QED  BY <1>1, <1>4, <1>6, <2>1, <2>2, <2>3, MovedSnap
           DEF OrdersPickup, CommandState, PickupPc
<1> QED  BY <1>1, <1>2, <1>4, <1>7, <1>8, MovedSnap DEF Owned, Local

LEMMA LocalWritesPickup ==
  ASSUME TypeOK, TypeOK', LocalInv, NEW p \in Process, WritesPickup(p)
  PROVE  Owned(p)
<1>1. Grows
  BY StillGrows DEF WritesPickup
<1>2. Local(p)
  BY DEF LocalInv
<1>3. ShipsExist(draft.ships)' /\ draft'.command <= Len(commands')
  BY <1>1, DraftKept, ExistsKept DEF WritesPickup, SameOrder, Orders, LocalInv,
     Exists, TypeOK
<1>4. /\ proc[p].pcmd <= Len(pickups)
      /\ proc[p].outcome = "success" => pickups[proc[p].pcmd] \in Carried
  BY <1>2 DEF WritesPickup, Local, OrdersPickup, Carried
<1>5. /\ draft'.pickupCommand \in {proc[p].pcmd, draft.pickupCommand, NoCmd}
      /\ \/ draft'.dispatch \in {NoCmd, draft.dispatch}
         \/ draft'.dispatch = proc[p].pcmd /\ proc[p].outcome = "success"
      /\ draft'.dispatch = NoCmd \/ draft'.pickupCommand = NoCmd
  BY DEF WritesPickup, Collects, LocalInv
<1>6. LocalDraft'
  BY <1>3, <1>4, <1>5, Lengths
  DEF WritesPickup, SameAllegro, LocalInv, LocalDraft, Exists, Carried, NoCmd
<1> QED  BY <1>1, <1>6, IdleLocal DEF WritesPickup, Owned

LEMMA CancelledExists ==
  ASSUME TypeOK, LocalInv, NEW p \in Process, NEW k \in Known(proc[p].snap)
  PROVE  /\ proc[p].snap.ships[k].cmd \in 1..Len(commands)
         /\ commands[proc[p].snap.ships[k].cmd].state \in Carried
  BY ProcFields, DraftFields, Lengths
  DEF Known, LocalInv, Local, Exists, ShipsExist, Shipments, Cmd, NoCmd, Carried

LEMMA LocalCancelsOne ==
  ASSUME TypeOK, TypeOK', LocalInv, NEW p \in Process, CancelsOne(p)
  PROVE  Owned(p)
<1>1. PICK k \in Known(proc[p].snap) :
        /\ commands' = [commands EXCEPT
              ![proc[p].snap.ships[k].cmd].state = "cancelled"]
        /\ Reships(p, [proc[p].snap.ships EXCEPT ![k].id = FALSE])
  BY DEF CancelsOne
<1>2. CommandsGrow
  BY <1>1, CancelledExists, CommandStateGrows DEF Carried
<1>3. Grows
  BY <1>2, SamePickupsGrow DEF Grows, CancelsOne
<1>4. LocalDraft'
  BY <1>3, StillExists DEF CancelsOne
<1>5. /\ Local(p) /\ proc[p].pc = "cancel" /\ proc[p].op = "cancel_shipment"
      /\ pickups' = pickups
  BY DEF CancelsOne, LocalInv
<1>6. PICK pc \in {"cancel", "cancelled"} :
        Goes(p, pc, proc[p].cmd, proc[p].pcmd, proc[p].outcome)
  BY DEF CancelsOne
<1>7. \A j \in Parcel : /\ proc'[p].snap.ships[j].cmd = proc[p].snap.ships[j].cmd
                        /\ proc'[p].snap.ships[j].id => proc[p].snap.ships[j].id
  BY <1>1, ProcFields, DraftFields DEF Reships, Shipments, Known
<1>8. Exists(proc[p].snap)'
  <2>1. Exists(proc[p].snap) /\ proc[p].snap \in Draft
    BY <1>5, ProcFields DEF Local
  <2>2. ShipsExist(proc[p].snap.ships)'
    BY <1>3, <1>7, <2>1, ExistsKept DEF ShipsExist, Carried
  <2> QED  BY <1>1, <1>3, <2>1, <2>2, ExistsKept DEF Reships, Exists, Carried
<1>9. OrdersParcel(p)' /\ OrdersPickup(p)' /\ CancelsPickup(p)' /\ Place(p)'
  <2>1. proc'[p].cmd <= Len(commands')
    BY <1>2, <1>5, <1>6, ProcFields
    DEF Local, OrdersParcel, Goes, CommandsGrow, Cmd, NoCmd
  <2> QED  BY <1>5, <1>6, <2>1
           DEF Local, Place, OrdersParcel, OrdersPickup, CancelsPickup, ParcelPc,
               PickupPc, Goes
<1> QED  BY <1>3, <1>4, <1>6, <1>8, <1>9 DEF Owned, Local, Goes

LEMMA LocalCancelsCollection ==
  ASSUME TypeOK, TypeOK', LocalInv, NEW p \in Process, CancelsCollection(p)
  PROVE  Owned(p)
<1>1. /\ Local(p) /\ proc[p].pc = "cancel" /\ proc[p].op = "cancel_dispatch"
      /\ Turns(p, "cancelled")
  BY DEF CancelsCollection, LocalInv
<1>2. /\ proc[p].snap.dispatch \in 1..Len(pickups)
      /\ pickups[proc[p].snap.dispatch] \in Carried
  BY <1>1, ProcFields, DraftFields, Lengths
  DEF Local, CancelsPickup, Exists, Cmd, NoCmd, Carried
<1>3. PickupsGrow /\ pickups'[proc[p].snap.dispatch] = "cancelled"
  BY <1>2, PickupStateGrows DEF CancelsCollection
<1>4. Grows
  BY <1>3, SameCommandsGrow DEF Grows, CancelsCollection
<1>5. LocalDraft'
  BY <1>4, StillExists DEF CancelsCollection
<1>6. OrdersParcel(p)' /\ OrdersPickup(p)' /\ CancelsPickup(p)' /\ Place(p)'
  <2>1. OrdersParcel(p)'
    BY <1>1, <1>3, <1>4, MovedSnap, ProcFields, Lengths
    DEF OrdersParcel, Turns, Local, Place, ParcelPc, PickupPc, Grows,
        CommandsGrow, PickupsGrow, Cmd, NoCmd
  <2>2. OrdersPickup(p)'
    BY <1>1, <1>3, <1>4, MovedSnap, ProcFields, Lengths
    DEF OrdersPickup, Turns, Local, Place, ParcelPc, PickupPc, Grows,
        CommandsGrow, PickupsGrow, Cmd, NoCmd
  <2>3. CancelsPickup(p)'
    BY <1>1, <1>3, <1>4, MovedSnap, ProcFields, Lengths
    DEF CancelsPickup, Turns, Local, Place, ParcelPc, PickupPc, Grows,
        CommandsGrow, PickupsGrow, Cmd, NoCmd
  <2>4. Place(p)'
    BY <1>1, <1>3, <1>4, MovedSnap, ProcFields, Lengths
    DEF Turns, Local, Place, ParcelPc, PickupPc, Grows, CommandsGrow,
        PickupsGrow, Cmd, NoCmd
  <2> QED  BY <2>1, <2>2, <2>3, <2>4
<1> QED  BY <1>1, <1>4, <1>5, <1>6, MovedSnap DEF Turns, Owned, Local

LEMMA LocalSaysCancelled ==
  ASSUME TypeOK, TypeOK', LocalInv, NEW p \in Process, SaysCancelled(p)
  PROVE  Owned(p)
<1>1. Grows
  BY StillGrows DEF SaysCancelled
<1>2. LocalDraft'
  BY <1>1, DraftKept, ExistsKept, Lengths
  DEF SaysCancelled, SameOrder, Orders, SamePickup, Collects, LocalInv, LocalDraft,
      Exists, Carried, TypeOK, NoCmd
<1> QED  BY <1>1, <1>2, IdleLocal DEF SaysCancelled, Owned

LEMMA LocalSaves ==
  ASSUME TypeOK, TypeOK', LocalInv, NEW p \in Process, Saves(p)
  PROVE  Owned(p)
<1>1. Grows
  BY StillGrows DEF Saves
<1>2. LocalDraft'
  BY <1>1, DraftKept, ExistsKept
  DEF Saves, SameOrder, Orders, SamePickup, Collects, LocalInv, LocalDraft,
      Exists, Carried, TypeOK
<1> QED  BY <1>1, <1>2, IdleLocal DEF Saves, Owned

LEMMA LocalStep ==
  ASSUME TypeOK, TypeOK', LocalInv, NEW p \in Process, Step(p)
  PROVE  Owned(p) /\ \A q \in Process : Local(q)'
<1>1. Owned(p)
  <2>1. CASE RunStep(p)
    BY <2>1, LocalFails, LocalReleases, LocalErrs, LocalClaims, LocalProposes,
       LocalResumes, LocalCreates, LocalPersists, LocalCheckpoints, LocalWaits,
       LocalCompletes, LocalPends, LocalFinishes DEF RunStep
  <2>2. CASE PickupStep(p)
    BY <2>2, LocalClaimsPickup, LocalLearns, LocalCreatesPickup,
       LocalPersistsPickup, LocalLosesPickup, LocalGivesBack, LocalWritesPickup
    DEF PickupStep
  <2>3. CASE OtherStep(p)
    BY <2>3, LocalStarts, LocalStops, LocalCancelsOne, LocalCancelsCollection,
       LocalSaysCancelled, LocalSaves DEF OtherStep
  <2> QED  BY <2>1, <2>2, <2>3 DEF Step
<1>2. \A q \in Process : Local(q)
  BY DEF LocalInv
<1>3. ASSUME NEW q \in Process \ {p} PROVE Local(q)'
  BY <1>1, <1>2, LocalKept DEF Owned, Step, Others
<1> QED  BY <1>1, <1>3 DEF Owned

LEMMA AnswersGrow ==
  ASSUME TypeOK, LocalInv, CommandAnswered \/ PickupAnswered
  PROVE  Grows /\ LocalDraft' /\ proc' = proc
<1>1. CASE CommandAnswered
  <2>1. PICK c \in DOMAIN commands, state \in {"success", "error"} :
          /\ commands[c].state = "pending"
          /\ commands' = [commands EXCEPT ![c].state = state]
    BY <1>1 DEF CommandAnswered
  <2>2. Grows
    BY <1>1, <2>1, CommandStateGrows, SamePickupsGrow, Lengths
    DEF Grows, CommandAnswered, Carried
  <2> QED  BY <1>1, <2>2, StillExists DEF CommandAnswered
<1>2. CASE PickupAnswered
  <2>1. PICK c \in DOMAIN pickups, state \in {"success", "error"} :
          pickups[c] = "pending" /\ pickups' = [pickups EXCEPT ![c] = state]
    BY <1>2 DEF PickupAnswered
  <2>2. Grows
    BY <1>2, <2>1, PickupStateGrows, SameCommandsGrow, Lengths
    DEF Grows, PickupAnswered
  <2> QED  BY <1>2, <2>2, StillExists DEF PickupAnswered
<1> QED  BY <1>1, <1>2

LEMMA LocalNext ==
  ASSUME TypeOK, LocalInv, Next PROVE LocalInv' /\ Grows
<1>1. TypeOK'
  BY Kinds DEF Sound
<1>2. ASSUME NEW p \in Process, Step(p) PROVE LocalInv' /\ Grows
  BY <1>1, <1>2, LocalStep DEF LocalInv, LocalDraft, Owned, Grows, CommandsGrow,
     PickupsGrow
<1>3. ASSUME CommandAnswered \/ PickupAnswered PROVE LocalInv' /\ Grows
  <2>1. Grows /\ LocalDraft' /\ \A p \in Process : Local(p)'
    BY <1>3, AnswersGrow, LocalKept DEF LocalInv
  <2> QED  BY <2>1 DEF LocalInv, LocalDraft, Grows, CommandsGrow, PickupsGrow
<1> QED  BY <1>2, <1>3, Kinds

LEMMA LocalInit == Init => LocalInv
<1> SUFFICES ASSUME Init PROVE LocalInv
  OBVIOUS
<1>1. Len(commands) = 0 /\ Len(pickups) = 0
  BY DEF Init
<1>2. Exists(draft) /\ draft.dispatch = NoCmd
  BY <1>1 DEF Init, InitialDraft, Exists, ShipsExist, NoShipments, NoCmd
<1>3. ASSUME NEW p \in Process PROVE Local(p)
  BY <1>1 DEF Init, IdleProc, InitialDraft, Local, Place, OrdersParcel,
     OrdersPickup, CancelsPickup, ParcelPc, PickupPc, Exists, ShipsExist,
     NoShipments, NoCmd
<1> QED  BY <1>1, <1>2, <1>3 DEF LocalInv

(***************************************************************************)
(* Every command and pickup that the draft or a request's snapshot names   *)
(* exists at Allegro, a shipment is known only of a command that was       *)
(* carried out, and a run past its parcels has no parcel left              *)
(* (composition.py:522, allegro_delivery.py).                              *)
(***************************************************************************)
THEOREM LocalInvariant == Spec => []LocalInv
<1>1. TypeOK /\ LocalInv /\ [Next]_vars => LocalInv'
  <2>1. ASSUME TypeOK, LocalInv, UNCHANGED vars PROVE LocalInv'
    <3>1. SameAllegro /\ SameDraft /\ proc' = proc
      BY <2>1 DEF vars, allegroVars, SameAllegro, SameDraft
    <3>2. Grows /\ LocalDraft' /\ \A p \in Process : Local(p)'
      BY <2>1, <3>1, StillGrows, StillExists, LocalKept DEF LocalInv
    <3> QED  BY <2>1, <3>2 DEF LocalInv, LocalDraft, vars
  <2> QED  BY <2>1, LocalNext
<1> QED  BY <1>1, LocalInit, ActionsTypeCorrect, PTL DEF Spec
=============================================================================
