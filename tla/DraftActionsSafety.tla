-------------------------- MODULE DraftActionsSafety --------------------------
(***************************************************************************)
(* The safety theorems of DraftActions: the inductive invariants of        *)
(* DraftActionsInv, kept by every kind of step of DraftActionsProofs, and  *)
(* the properties that follow from them.                                   *)
(***************************************************************************)
EXTENDS DraftActionsProofs, FiniteSetTheorems

USE ActionBounds

(***************************************************************************)
(* What is known of a step on both its sides.                              *)
(***************************************************************************)
Settles == /\ TypeOK /\ TypeOK' /\ LocalInv /\ LocalInv' /\ Grows
           /\ causes \subseteq causes'

StepOf(p) == Settles /\ Step(p)

LEMMA Excuses ==
  ASSUME causes \subseteq causes', NEW excuses, Excused(excuses)
  PROVE  Caused(excuses)
  BY DEF Excused, Caused

LEMMA NextSettles ==
  ASSUME TypeOK, LocalInv, Next
  PROVE  /\ Settles
         /\ (\E p \in Process : StepOf(p)) \/ CommandAnswered \/ PickupAnswered
  BY Kinds, LocalNext DEF Settles, StepOf, Sound

\* a step of one request leaves the others' state alone
LEMMA OtherOf ==
  ASSUME NEW p \in Process, Others(p), NEW q \in Process, q # p
  PROVE  proc'[q] = proc[q]
  BY DEF Others

LEMMA SnapshotKept ==
  ASSUME NEW p \in Process, NEW pc, NEW cmd, NEW pcmd, NEW outcome,
         Moves(p, pc, cmd, pcmd, outcome)
  PROVE  /\ proc'[p].pc = pc /\ proc'[p].op = proc[p].op
         /\ proc'[p].snap = proc[p].snap /\ proc'[p].cmd = cmd
         /\ proc'[p].pcmd = pcmd /\ proc'[p].outcome = outcome
  BY DEF Moves, Goes

\* the initial state of a request has it do nothing
LEMMA IdleFields ==
  ASSUME NEW p \in Process, proc'[p] = IdleProc
  PROVE  /\ proc'[p].pc = "idle" /\ proc'[p].op = "execute"
         /\ proc'[p].snap = InitialDraft("pending")
         /\ proc'[p].cmd = NoCmd /\ proc'[p].pcmd = NoCmd
         /\ proc'[p].outcome = "none"
  BY DEF IdleProc

-----------------------------------------------------------------------------
(***************************************************************************)
(* RunInv.                                                                 *)
(***************************************************************************)
LEMMA RunKept ==
  ASSUME OneRun, NEW p \in Process, Others(p),
         Ordering(p)' => Ordering(p) /\ proc'[p].snap.ships = draft'.ships,
         Claimed(p)' => Claimed(p),
         draft'.ships = draft.ships \/ Ordering(p),
         \/ draft'.status \notin {"created", "needs_review"}
         \/ draft'.status = draft.status
         \/ Ordering(p) /\ ~Ordering(p)' /\ ~Claimed(p)'
  PROVE  OneRun'
<1>1. \A q \in Process \ {p} : /\ Ordering(q)' = Ordering(q)
                               /\ Claimed(q)' = Claimed(q)
                               /\ proc'[q] = proc[q]
  BY DEF Others, Ordering, Running, Claimed
<1>2. \A q, r \in Process : Ordering(q)' /\ Ordering(r)' => q = r
  BY <1>1 DEF OneRun
<1>3. \A q, r \in Process : Claimed(q)' => ~Ordering(r)'
  BY <1>1 DEF OneRun
<1>4. \A q \in Process : Ordering(q)' => proc'[q].snap.ships = draft'.ships
  BY <1>1 DEF OneRun
<1>5. \A q \in Process : Ordering(q)' \/ Claimed(q)'
                         => draft'.status \notin {"created", "needs_review"}
  BY <1>1 DEF OneRun
<1> QED  BY <1>2, <1>3, <1>4, <1>5 DEF OneRun

\* the run that goes on alone
LEMMA FirstRun ==
  ASSUME NEW p \in Process, SecondRun(p) \subseteq causes', ~Caused({"second_run"})
  PROVE  ~Stale(p) /\ \A q \in Process \ {p} : ~Running(q)
  BY DEF SecondRun, Caused

LEMMA RunClaims ==
  ASSUME NEW p \in Process, StepOf(p), OneRun, Claims(p)
  PROVE  OneRun' \/ Caused({"second_run"})
<1> SUFFICES ASSUME ~Caused({"second_run"}) PROVE OneRun'
  OBVIOUS
<1>1. /\ \A q \in Process \ {p} : proc'[q] = proc[q] /\ ~Running(q)
      /\ proc'[p].pc = "proposal" /\ proc'[p].op = proc[p].op
      /\ draft'.status = "executing"
  BY FirstRun DEF Claims, Turns, Moves, Goes, Orders, StepOf, Step, Others
<1>2. \A q \in Process : ~Ordering(q)'
  BY <1>1 DEF Ordering, Running
<1> QED  BY <1>1, <1>2 DEF OneRun

LEMMA RunProposes ==
  ASSUME NEW p \in Process, StepOf(p), OneRun, Proposes(p)
  PROVE  OneRun' \/ Caused({"second_run"})
<1> SUFFICES ASSUME ~Caused({"second_run"}) PROVE OneRun'
  OBVIOUS
<1>1. /\ \A q \in Process \ {p} : proc'[q] = proc[q] /\ ~Running(q)
      /\ proc'[p].pc = "parcel" /\ proc'[p].op = proc[p].op
      /\ proc'[p].snap = proc[p].snap /\ draft' = draft /\ ~Stale(p)
  BY FirstRun DEF Proposes, Turns, Moves, Goes, SameDraft, StepOf, Step, Others
<1>2. \A q \in Process \ {p} : ~Ordering(q)' /\ ~Claimed(q)'
  BY <1>1 DEF Ordering, Running, Claimed
<1>3. ~Claimed(p)' /\ proc'[p].snap.ships = draft'.ships
  BY <1>1 DEF Claimed, Stale
<1>4. draft'.status \notin {"created", "needs_review"}
  <2>1. proc[p].pc = "proposal" /\ proc[p].op \in {"execute", "confirm"}
    BY DEF Proposes, StepOf, Settles, LocalInv, Local, Place
  <2> QED  BY <1>1, <2>1 DEF OneRun, Claimed, Stale
<1> QED  BY <1>2, <1>3, <1>4 DEF OneRun

LEMMA RunStepKept ==
  ASSUME NEW p \in Process, StepOf(p), OneRun, RunStep(p)
  PROVE  OneRun' \/ Caused({"second_run"})
<1>1. Others(p) /\ Place(p)
  BY DEF StepOf, Step, Settles, LocalInv, Local
<1>2. CASE Fails(p) \/ Releases(p) \/ Resumes(p) \/ Creates(p) \/ Waits(p)
             \/ Completes(p)
  <2>1. draft' = draft
    BY <1>2 DEF Fails, Releases, Resumes, Creates, Waits, Completes, SameDraft
  <2>2. Ordering(p)' => Ordering(p) /\ proc'[p].snap = proc[p].snap
    BY <1>2, <1>1, SnapshotKept
    DEF Fails, Releases, Resumes, Creates, Waits, Completes, Turns, Ordering,
        Running, Place, ParcelPc, IdleProc
  <2>3. ~Claimed(p)'
    BY <1>2, SnapshotKept DEF Fails, Releases, Resumes, Creates, Waits, Completes,
       Turns, Claimed, IdleProc
  <2> QED  BY <1>1, <2>1, <2>2, <2>3, RunKept DEF OneRun
<1>3. CASE Errs(p)
  BY <1>1, <1>3, IdleFields, RunKept DEF Errs, Orders, Ordering, Running, Claimed
<1>4. CASE Persists(p)
  <2>1. /\ proc'[p].pc = "checkpoint" /\ proc'[p].snap = proc[p].snap
        /\ draft'.ships = draft.ships /\ draft'.status = "pending_confirmation"
        /\ Ordering(p)
    BY <1>1, <1>4 DEF Persists, Turns, Moves, Goes, Orders, Ordering, Running, Place, ParcelPc
  <2> QED  BY <1>1, <2>1, RunKept DEF Claimed, OneRun
<1>5. ASSUME NEW id \in BOOLEAN, Checkpoints(p, id) PROVE OneRun'
  <2>1. /\ proc'[p].pc \in {"wait", "parcel"}
        /\ proc'[p].snap.ships = draft'.ships
        /\ draft'.status = draft.status /\ Ordering(p)
    BY <1>1, <1>5
    DEF Checkpoints, Goes, Reships, Orders, Ordering, Running, Place, ParcelPc
  <2> QED  BY <1>1, <2>1, RunKept DEF Claimed
<1>6. CASE Pends(p) \/ Finishes(p)
  <2>1. Ordering(p) /\ ~Ordering(p)' /\ ~Claimed(p)'
    BY <1>1, <1>6, IdleFields
    DEF Pends, Finishes, Ordering, Running, Claimed, Place, ParcelPc
  <2> QED  BY <1>1, <2>1, RunKept
<1> QED
  BY <1>2, <1>3, <1>4, <1>5, <1>6, RunClaims, RunProposes DEF RunStep

LEMMA RunOtherKept ==
  ASSUME NEW p \in Process, StepOf(p), OneRun, PickupStep(p) \/ OtherStep(p)
  PROVE  OneRun'
<1>1. Others(p) /\ Place(p)
  BY DEF StepOf, Step, Settles, LocalInv, Local
<1>2. CASE PickupStep(p)
  <2>1. draft'.ships = draft.ships /\ draft'.status = draft.status
    BY <1>2 DEF PickupStep, ClaimsPickup, Learns, CreatesPickup, PersistsPickup,
       LosesPickup, GivesBack, WritesPickup, SameOrder, Orders, SameDraft
  <2>2. Ordering(p)' => Ordering(p) /\ proc'[p].snap = proc[p].snap
    BY <1>1, <1>2, SnapshotKept, IdleFields
    DEF PickupStep, ClaimsPickup, Learns, CreatesPickup, PersistsPickup,
        LosesPickup, GivesBack, WritesPickup, Turns, Ordering, Running, Place, PickupPc
  <2>3. ~Claimed(p)'
    <3>1. proc'[p].pc # "proposal"
      BY <1>2, IdleFields
      DEF PickupStep, ClaimsPickup, Learns, CreatesPickup, PersistsPickup,
          LosesPickup, GivesBack, WritesPickup, Turns, Moves, Goes
    <3> QED  BY <3>1 DEF Claimed
  <2> QED  BY <1>1, <2>1, <2>2, <2>3, RunKept DEF OneRun
<1>3. CASE OtherStep(p)
  <2>1. draft'.ships = draft.ships
        /\ draft'.status \in {draft.status, "cancelled", "pending"}
    BY <1>3 DEF OtherStep, Starts, Stops, CancelsOne, CancelsCollection,
       SaysCancelled, Saves, SameOrder, Orders, SameDraft
  <2>2. CASE Starts(p)
    BY <1>1, <2>1, <2>2, RunKept DEF Starts, Asked, Ordering, Running, Claimed
  <2>3. CASE ~Starts(p)
    <3>1. proc'[p].pc = "idle" \/ proc'[p].op = "cancel_shipment"
          \/ proc'[p].op = "cancel_dispatch"
      BY <1>3, <2>3, IdleFields
      DEF OtherStep, Stops, CancelsOne, CancelsCollection, Turns, Moves, Goes,
          SaysCancelled, Saves
    <3> QED  BY <1>1, <2>1, <3>1, RunKept DEF Ordering, Running, Claimed
  <2> QED  BY <2>2, <2>3
<1> QED  BY <1>2, <1>3

\* the answers of Allegro concern no run
LEMMA RunNext ==
  ASSUME TypeOK, LocalInv, RunInv, Next PROVE RunInv'
<1>1. CASE Excused({"second_run"})
  BY <1>1, NextSettles, Excuses DEF RunInv, Caused, Excused, Settles
<1>2. CASE OneRun
  <2>1. ASSUME NEW p \in Process, StepOf(p)
        PROVE  OneRun' \/ Caused({"second_run"})
    BY <1>2, <2>1, RunStepKept, RunOtherKept DEF StepOf, Step
  <2>2. ASSUME CommandAnswered \/ PickupAnswered PROVE OneRun'
    BY <1>2, <2>2 DEF CommandAnswered, PickupAnswered, SameDraft, OneRun, Ordering,
       Running, Claimed
  <2> QED  BY <2>1, <2>2, NextSettles DEF RunInv, Caused, Excused
<1> QED  BY <1>1, <1>2 DEF RunInv

-----------------------------------------------------------------------------
(***************************************************************************)
(* CancelInv.                                                              *)
(***************************************************************************)
LEMMA QuietPlace ==
  ASSUME TypeOK, NEW p \in Process, Place(p), Quiet(p)
  PROVE  proc[p].pc \in {"idle", "claim", "cancel", "cancelled"}
  BY ProcFields DEF Place, Quiet, ParcelPc, PickupPc, Pc

\* a quiet request of a cancelled draft leaves it cancelled and stays quiet
LEMMA QuietStep ==
  ASSUME NEW p \in Process, StepOf(p), Quiet(p), draft.status = "cancelled"
  PROVE  draft'.status = "cancelled" /\ Quiet(p)'
<1>1. Place(p)
  BY DEF StepOf, Settles, LocalInv, Local
<1>2. proc[p].pc \in {"idle", "claim", "cancel", "cancelled"}
  BY <1>1, QuietPlace DEF StepOf, Settles
<1>3. Starts(p) \/ Stops(p) \/ CancelsOne(p) \/ CancelsCollection(p)
        \/ SaysCancelled(p)
  <2>1. ~RunStep(p)
    BY <1>2 DEF RunStep, Fails, Releases, Errs, Claims, Proposes, Resumes, Creates,
       Persists, Checkpoints, Waits, Completes, Pends, Finishes, EXECUTABLE_STATES
  <2>2. ~PickupStep(p) /\ ~Saves(p)
    BY <1>2 DEF PickupStep, ClaimsPickup, Learns, CreatesPickup, PersistsPickup,
       LosesPickup, GivesBack, WritesPickup, Saves
  <2> QED  BY <2>1, <2>2 DEF StepOf, Step, OtherStep
<1>4. CASE Starts(p)
  BY <1>4 DEF Starts, Asked, SameDraft, BreakdownLocked,
     BREAKDOWN_LOCKED_STATUSES, Quiet
<1>5. CASE Stops(p) \/ SaysCancelled(p)
  BY <1>5, IdleFields DEF Stops, SaysCancelled, SameDraft, SameOrder, Orders, Quiet
<1>6. CASE CancelsOne(p) \/ CancelsCollection(p)
  BY <1>6 DEF CancelsOne, CancelsCollection, Turns, Moves, Goes, SameDraft, Quiet
<1> QED  BY <1>3, <1>4, <1>5, <1>6

\* only cancel_shipment cancels a draft, and knows nobody else is at work
LEMMA CancelStep ==
  ASSUME NEW p \in Process, StepOf(p), draft'.status = "cancelled",
         draft.status # "cancelled"
  PROVE  AtRest' \/ Caused({"cancel_raced"})
<1>1. Place(p) /\ Others(p)
  BY DEF StepOf, Step, Settles, LocalInv, Local
<1>2. SaysCancelled(p)
  <2>1. ~RunStep(p)
    BY DEF RunStep, Fails, Releases, Errs, Claims, Proposes, Resumes, Creates,
       Persists, Checkpoints, Waits, Completes, Pends, Finishes, Orders, SameDraft
  <2>2. ~PickupStep(p)
    BY DEF PickupStep, ClaimsPickup, Learns, CreatesPickup, PersistsPickup,
       LosesPickup, GivesBack, WritesPickup, SameDraft, SameOrder, Orders
  <2> QED  BY <2>1, <2>2
           DEF StepOf, Step, OtherStep, Starts, Stops, CancelsOne,
               CancelsCollection, Saves, SameDraft, SameOrder, Orders
<1>3. SUFFICES ASSUME ~Caused({"cancel_raced"}) PROVE AtRest'
  OBVIOUS
<1>4. \A q \in Process \ {p} : proc[q].pc = "idle" /\ proc'[q] = proc[q]
  BY <1>1, <1>2, <1>3 DEF SaysCancelled, Raced, Caused, Others
<1> QED  BY <1>2, <1>4, IdleFields DEF SaysCancelled, AtRest, Quiet

LEMMA AnswersCancel ==
  ASSUME AtRest, CommandAnswered \/ PickupAnswered
  PROVE  AtRest' /\ draft' = draft
  BY DEF AtRest, CommandAnswered, PickupAnswered, SameDraft, Quiet

LEMMA CancelNext ==
  ASSUME TypeOK, LocalInv, CancelInv, Next
  PROVE  /\ CancelInv'
         /\ draft.status = "cancelled" /\ draft'.status # "cancelled"
               => Caused({"cancel_raced"})
<1>1. CASE Excused({"cancel_raced"})
  BY <1>1, NextSettles, Excuses DEF CancelInv, Caused, Excused, Settles
<1>2. CASE AtRest
  <2>1. ASSUME NEW p \in Process, StepOf(p)
        PROVE  /\ AtRest' \/ Caused({"cancel_raced"})
               /\ draft.status = "cancelled" => draft'.status = "cancelled"
    <3>1. CASE draft.status = "cancelled"
      <4>1. draft'.status = "cancelled" /\ Quiet(p)'
        BY <1>2, <2>1, <3>1, QuietStep DEF AtRest
      <4>2. \A q \in Process \ {p} : Quiet(q)'
        BY <1>2, <2>1, <3>1, OtherOf DEF AtRest, Quiet, StepOf, Step
      <4> QED  BY <4>1, <4>2 DEF AtRest
    <3>2. CASE draft.status # "cancelled"
      BY <2>1, <3>2, CancelStep DEF AtRest
    <3> QED  BY <3>1, <3>2
  <2>2. ASSUME CommandAnswered \/ PickupAnswered
        PROVE  AtRest' /\ draft' = draft
    BY <1>2, <2>2, AnswersCancel
  <2> QED  BY <2>1, <2>2, NextSettles DEF CancelInv, Caused, Excused
<1> QED  BY <1>1, <1>2 DEF CancelInv

-----------------------------------------------------------------------------
(***************************************************************************)
(* CompleteInv.                                                            *)
(***************************************************************************)
LEMMA NewCommands ==
  ASSUME NEW p \in Process, StepOf(p)
  PROVE  \/ commands' = commands
         \/ Ordered(p) /\ (Creates(p) \/ (Fails(p) /\ Caused({"lost_answer"})))
         \/ CancelsOne(p)
<1>1. CASE RunStep(p)
  <2>1. CASE Fails(p)
    <3>1. commands' = commands \/ (Ordered(p) /\ Caused({"lost_answer"}))
      BY <2>1 DEF Fails
    <3> QED  BY <2>1, <3>1
  <2>2. CASE Creates(p)
    <3>1. Ordered(p)
      BY <2>2 DEF Creates
    <3> QED  BY <2>2, <3>1
  <2>3. ASSUME NEW id \in BOOLEAN, Checkpoints(p, id) PROVE commands' = commands
    BY <2>3 DEF Checkpoints, SameAllegro
  <2>4. CASE Releases(p) \/ Errs(p) \/ Claims(p) \/ Proposes(p) \/ Resumes(p)
    BY <2>4 DEF Releases, Errs, Claims, Proposes, Resumes, SameAllegro
  <2>5. CASE Persists(p) \/ Waits(p) \/ Completes(p) \/ Pends(p) \/ Finishes(p)
    BY <2>5 DEF Persists, Waits, Completes, Pends, Finishes, SameAllegro
  <2> QED  BY <1>1, <2>1, <2>2, <2>3, <2>4, <2>5 DEF RunStep
<1>2. CASE PickupStep(p)
  BY <1>2 DEF PickupStep, ClaimsPickup, Learns, CreatesPickup, PersistsPickup,
     LosesPickup, GivesBack, WritesPickup, SameAllegro
<1>3. CASE OtherStep(p)
  BY <1>3 DEF OtherStep, Starts, Stops, CancelsCollection, SaysCancelled, Saves,
     SameAllegro
<1> QED  BY <1>1, <1>2, <1>3 DEF StepOf, Step

LEMMA OrderedCommands ==
  ASSUME TypeOK, TypeOK', LocalInv, NEW p \in Process, Ordered(p)
  PROVE  /\ Len(commands) \in Nat /\ DOMAIN commands = 1..Len(commands)
         /\ DOMAIN commands' = 1..(Len(commands) + 1)
         /\ \A c \in DOMAIN commands : commands'[c] = commands[c]
         /\ commands'[Len(commands) + 1].parcel = Current(p)
         /\ commands'[Len(commands) + 1].state = "pending"
<1>1. DOMAIN commands' = 1..Len(commands')
  BY LenProperties DEF TypeOK
<1>2. /\ Len(commands') = Len(commands) + 1
      /\ \A c \in 1..Len(commands) : commands'[c] = commands[c]
      /\ commands'[Len(commands) + 1] = [parcel |-> Current(p), state |-> "pending"]
  BY OrderedGrows
<1>3. /\ commands'[Len(commands) + 1].parcel = Current(p)
      /\ commands'[Len(commands) + 1].state = "pending"
  BY <1>2
<1>4. Len(commands) \in Nat /\ DOMAIN commands = 1..Len(commands)
  BY Lengths
<1> QED  BY <1>1, <1>2, <1>3, <1>4

LEMMA NoneCancelled ==
  ASSUME NEW p \in Process, StepOf(p), ~CancelsOne(p),
         \A c \in DOMAIN commands : commands[c].state # "cancelled"
  PROVE  \A c \in DOMAIN commands' : commands'[c].state # "cancelled"
<1>1. CASE commands' = commands
  BY <1>1
<1>2. CASE Ordered(p)
  <2>1. TypeOK /\ LocalInv /\ TypeOK'
    BY DEF StepOf, Settles
  <2>2. ASSUME NEW c \in DOMAIN commands' PROVE commands'[c].state # "cancelled"
    <3>1. c \in DOMAIN commands \/ c = Len(commands) + 1
      BY <2>1, <1>2, OrderedCommands
    <3> QED  BY <2>1, <1>2, <3>1, OrderedCommands
  <2> QED  BY <2>2
<1> QED  BY <1>1, <1>2, NewCommands

\* the request that cancels goes on, says so, or is excused
LEMMA CancellingKept ==
  ASSUME NEW p \in Process, StepOf(p), Cancelling
  PROVE  Cancelling' \/ draft'.status = "cancelled" \/ Caused(CompleteCause)
<1>1. PICK q \in Process : proc[q].op = "cancel_shipment"
  BY DEF Cancelling
<1>2. CASE q # p
  BY <1>1, <1>2, OtherOf DEF Cancelling, StepOf, Step
<1>3. CASE q = p
  <2>1. Local(p) /\ TypeOK
    BY DEF StepOf, Settles, LocalInv
  <2>2. proc[p].pc \in {"cancel", "cancelled"}
    BY <1>1, <1>3, <2>1, QuietPlace DEF Local, Place, Quiet, IdleProc
  <2>3. ~RunStep(p) /\ ~PickupStep(p)
    BY <2>2 DEF RunStep, Fails, Releases, Errs, Claims, Proposes, Resumes, Creates,
       Persists, Checkpoints, Waits, Completes, Pends, Finishes, PickupStep,
       ClaimsPickup, Learns, CreatesPickup, PersistsPickup, LosesPickup, GivesBack,
       WritesPickup
  <2>4. CASE Stops(p)
    BY <2>2, <2>4 DEF Stops, Caused, CompleteCause
  <2>5. CASE CancelsOne(p) \/ CancelsCollection(p)
    BY <1>1, <1>3, <2>5
    DEF CancelsOne, CancelsCollection, Turns, Moves, Goes, Cancelling
  <2>6. CASE SaysCancelled(p)
    BY <1>1, <1>3, <2>6 DEF SaysCancelled, Orders
  <2> QED  BY <2>2, <2>3, <2>4, <2>5, <2>6 DEF StepOf, Step, OtherStep, Starts, Saves
<1> QED  BY <1>2, <1>3

\* only a run that knows every shipment says that the draft is created
LEMMA CreatedStep ==
  ASSUME NEW p \in Process, StepOf(p), OneRun, draft'.status = "created"
  PROVE  \/ Finishes(p) /\ Todo(p) = {} /\ draft'.ships = proc[p].snap.ships
         \/ draft.status = "created" /\ draft'.ships = draft.ships
<1>1. Local(p)
  BY DEF StepOf, Settles, LocalInv
<1>2. CASE Finishes(p)
  BY <1>1, <1>2 DEF Finishes, Orders, Local, Place, OrdersParcel
<1>3. ASSUME NEW id \in BOOLEAN, Checkpoints(p, id) PROVE FALSE
  BY <1>1, <1>3 DEF Checkpoints, Orders, Local, Place, ParcelPc, OneRun, Ordering,
     Running
<1>4. CASE ~Finishes(p) /\ RunStep(p)
  BY <1>3, <1>4 DEF RunStep, Fails, Releases, Errs, Claims, Proposes, Resumes,
     Creates, Persists, Waits, Completes, Pends, Orders, SameDraft
<1>5. CASE PickupStep(p)
  BY <1>5 DEF PickupStep, ClaimsPickup, Learns, CreatesPickup, PersistsPickup,
     LosesPickup, GivesBack, WritesPickup, SameDraft, SameOrder, Orders
<1>6. CASE OtherStep(p)
  BY <1>6 DEF OtherStep, Starts, Stops, CancelsOne, CancelsCollection, SaysCancelled,
     Saves, SameDraft, SameOrder, Orders
<1> QED  BY <1>2, <1>4, <1>5, <1>6 DEF StepOf, Step

LEMMA CompleteStep ==
  ASSUME NEW p \in Process, StepOf(p), OneRun, AllRecorded,
         draft.status = "cancelled" => draft'.status = "cancelled",
         ~Caused(CompleteCause)
  PROVE  AllRecorded'
<1>1. \/ Cancelling' \/ draft'.status = "cancelled"
      \/ \A c \in DOMAIN commands' : commands'[c].state # "cancelled"
  <2>1. CASE CancelsOne(p)
    BY <2>1 DEF CancelsOne, Goes, Cancelling
  <2>2. CASE ~CancelsOne(p)
    BY <2>2, CancellingKept, NoneCancelled DEF AllRecorded
  <2> QED  BY <2>1, <2>2
<1>2. draft'.status = "created" => \A k \in Parcel : draft'.ships[k].id
  BY CreatedStep DEF AllRecorded, Todo
<1> QED  BY <1>1, <1>2 DEF AllRecorded

LEMMA AnswersComplete ==
  ASSUME TypeOK, AllRecorded, CommandAnswered \/ PickupAnswered
  PROVE  AllRecorded'
<1>1. draft' = draft /\ proc' = proc
  BY DEF CommandAnswered, PickupAnswered, SameDraft
<1>2. ASSUME \A c \in DOMAIN commands : commands[c].state # "cancelled"
      PROVE  \A c \in DOMAIN commands' : commands'[c].state # "cancelled"
  <2>1. CASE PickupAnswered
    BY <1>2, <2>1 DEF PickupAnswered
  <2>2. CASE CommandAnswered
    <3>1. PICK c \in DOMAIN commands, state \in {"success", "error"} :
            commands' = [commands EXCEPT ![c].state = state]
      BY <2>2 DEF CommandAnswered
    <3>2. commands'[c].state = state
      BY <3>1, Lengths
    <3>3. \A d \in DOMAIN commands \ {c} : commands'[d] = commands[d]
      BY <3>1
    <3>4. DOMAIN commands' = DOMAIN commands
      BY <3>1
    <3> QED  BY <1>2, <3>2, <3>3, <3>4
  <2> QED  BY <2>1, <2>2
<1> QED  BY <1>1, <1>2 DEF AllRecorded, Cancelling

LEMMA CompleteNext ==
  ASSUME TypeOK, LocalInv, RunInv, CancelInv, CompleteInv, Next
  PROVE  CompleteInv'
<1>1. Settles /\ ((\E p \in Process : StepOf(p)) \/ CommandAnswered \/ PickupAnswered)
  BY NextSettles
<1>2. SUFFICES ASSUME ~Caused(CompleteCause) PROVE AllRecorded'
  BY DEF CompleteInv, Caused, Excused
<1>3. ~Excused(CompleteCause) /\ ~Excused({"second_run"}) /\ ~Caused({"cancel_raced"})
  BY <1>1, <1>2 DEF Settles, Caused, Excused, CompleteCause
<1>4. OneRun /\ AllRecorded
  BY <1>3 DEF RunInv, CompleteInv
<1>5. draft.status = "cancelled" => draft'.status = "cancelled"
  BY <1>3, CancelNext
<1> QED  BY <1>1, <1>2, <1>4, <1>5, CompleteStep, AnswersComplete DEF Settles

-----------------------------------------------------------------------------
(***************************************************************************)
(* OrderInv.                                                               *)
(***************************************************************************)
OpenStatus == {"pending_confirmation", "executing", "cancelled"}

ByChart(c) == draft.ships[commands[c].parcel].cmd = c
ByField(c) == Uncharted /\ commands[c].parcel = 1 /\ draft.command = c

LEMMA KnownBy ==
  ASSUME NEW c
  PROVE  CommandKnown(c) <=> ByChart(c) \/ ByField(c) \/ \E p \in Process : HeldBy(p, c)
  BY DEF CommandKnown, ByChart, ByField

SameParcels ==
    /\ DOMAIN commands' = DOMAIN commands
    /\ \A c \in DOMAIN commands : commands'[c].parcel = commands[c].parcel

\* a step that leaves the checkpoints alone
LEMMA OrderKept ==
  ASSUME NEW p \in Process, StepOf(p), CommandsFound, SameParcels,
         draft'.ships = draft.ships, draft'.command = draft.command,
         \/ draft'.status = draft.status
         \/ /\ draft'.status # "pending_confirmation"
            /\ Uncharted => draft'.status \in OpenStatus,
         \A c \in DOMAIN commands :
            HeldBy(p, c) => HeldBy(p, c)' \/ ByChart(c) \/ ByField(c),
         proc'[p].snap.command \in {proc[p].snap.command, draft.command, NoCmd},
         Resumable(p)'
  PROVE  CommandsFound'
<1>1. \A q \in Process \ {p} : proc'[q] = proc[q]
  BY DEF StepOf, Step, Others
<1>2. Uncharted' = Uncharted
  BY DEF Uncharted
<1>3. ASSUME NEW c \in DOMAIN commands' PROVE CommandKnown(c)'
  <2>1. c \in DOMAIN commands /\ commands'[c].parcel = commands[c].parcel
    BY DEF SameParcels
  <2>2. CASE ByChart(c) \/ ByField(c)
    BY <1>2, <2>1, <2>2 DEF CommandKnown, ByChart, ByField
  <2>3. ASSUME NEW q \in Process, HeldBy(q, c)
        PROVE  (\E r \in Process : HeldBy(r, c)') \/ ByChart(c) \/ ByField(c)
    <3>1. CASE q = p
      BY <2>1, <2>3, <3>1
    <3>2. CASE q # p
      BY <1>1, <2>1, <2>3, <3>2 DEF HeldBy, Ordering, Running, Current, Todo
    <3> QED  BY <3>1, <3>2
  <2>4. CommandKnown(c)
    BY <2>1 DEF CommandsFound
  <2> QED  BY <2>2, <2>3, <2>4, KnownBy DEF CommandKnown
<1>4. Uncharted' => draft'.status \in OpenStatus
  BY <1>2 DEF CommandsFound, OpenStatus
<1>5. ASSUME NEW q \in Process, q # p PROVE Resumable(q)'
  <2>1. Resumable(q) /\ proc'[q] = proc[q]
    BY <1>1, <1>5 DEF CommandsFound
  <2>2. Current(q)' = Current(q) /\ Ordering(q)' = Ordering(q)
    BY <2>1 DEF Current, Todo, Ordering, Running
  <2>3. SameOrders(q)' = SameOrders(q)
    BY <2>1 DEF SameOrders
  <2>4. proc[q].pc = "persist" => proc[q].cmd # NoCmd
    BY DEF StepOf, Settles, LocalInv, Local, OrdersParcel, ParcelPc
  <2>5. proc[q].pc = "persist" =>
          \A r \in Process : proc'[r].snap.command # proc[q].cmd
    BY <1>1, <2>1, <2>4 DEF Resumable
  <2>6. draft'.status = "pending_confirmation" => draft.status = "pending_confirmation"
    OBVIOUS
  <2> QED  BY <1>2, <2>1, <2>2, <2>3, <2>5, <2>6 DEF Resumable
<1> QED  BY <1>3, <1>4, <1>5 DEF CommandsFound, OpenStatus

\* a request that orders no parcels needs nothing
LEMMA ElsewhereResumable ==
  ASSUME NEW p \in Process,
         proc'[p].pc \notin {"claim", "proposal", "parcel", "persist", "checkpoint"}
  PROVE  Resumable(p)'
  BY DEF Resumable

\* the first parcel has its checkpoint once a run is past ordering it
LEMMA FirstCharted ==
  ASSUME TypeOK, LocalInv, OneRun, NEW p \in Process, Ordering(p),
         proc[p].pc \in {"wait", "record", "pending", "finish"}
  PROVE  ~Uncharted /\ proc[p].snap.ships[1].cmd # NoCmd
<1>1. Local(p) /\ 1 \in Parcel
  BY DEF LocalInv, Parcel
<1>2. CASE 1 \notin Todo(p)
  BY <1>1, <1>2 DEF Todo, Local, Exists, ShipsExist, OneRun, Uncharted
<1>3. CASE 1 \in Todo(p)
  <2>1. Current(p) \in Parcel /\ Current(p) <= 1
    BY <1>3, CurrentIsFirst
  <2>2. Current(p) = 1
    BY <2>1 DEF Parcel
  <2>3. proc[p].snap.ships[1].cmd = proc[p].cmd /\ proc[p].cmd # NoCmd
    BY <1>1, <1>3, <2>2 DEF Local, OrdersParcel, ParcelPc, Ordering, Running, PickupPc
  <2> QED  BY <2>3 DEF OneRun, Uncharted
<1> QED  BY <1>2, <1>3

\* where the first parcel has none, a run works on that parcel
LEMMA UnchartedCurrent ==
  ASSUME TypeOK, LocalInv, OneRun, NEW p \in Process, Ordering(p), Uncharted
  PROVE  Todo(p) # {} /\ Current(p) = 1
<1>1. Local(p) /\ 1 \in Parcel
  BY DEF LocalInv, Parcel
<1>2. 1 \in Todo(p)
  BY <1>1 DEF Todo, Local, Exists, ShipsExist, OneRun, Uncharted
<1>3. Current(p) \in Parcel /\ Current(p) <= 1
  BY <1>2, CurrentIsFirst
<1> QED  BY <1>2, <1>3 DEF Parcel

\* a command that is not unsaved is found without the run that holds it
LEMMA SavedIsKnown ==
  ASSUME NEW p \in Process, TypeOK, LocalInv, CommandsFound, NEW c \in DOMAIN commands,
         HeldBy(p, c), ~Unsaved(p)
  PROVE  ByChart(c) \/ ByField(c)
<1>1. /\ proc[p].pc = "checkpoint" /\ proc[p].cmd = c /\ Current(p) = commands[c].parcel
      /\ Resumable(p) /\ Ordering(p)
  BY DEF HeldBy, Unsaved, CommandsFound
<1>2. c # NoCmd
  BY <1>1 DEF LocalInv, Local, OrdersParcel, ParcelPc
<1> QED  BY <1>1, <1>2 DEF Unsaved, Resumable, ByChart, ByField, Uncharted

LEMMA NoneHeld ==
  ASSUME NEW p \in Process, proc[p].pc \notin {"persist", "checkpoint"}
  PROVE  \A c \in DOMAIN commands : ~HeldBy(p, c)
  BY DEF HeldBy

\* no command is out of sight where these steps begin
OrderContext(p) == StepOf(p) /\ OneRun /\ CommandsFound /\ ~Caused(OrderCause)

LEMMA OrderFacts ==
  ASSUME NEW p \in Process, OrderContext(p)
  PROVE  /\ TypeOK /\ TypeOK' /\ LocalInv /\ OneRun /\ CommandsFound /\ StepOf(p)
         /\ Local(p) /\ Resumable(p) /\ Others(p)
         /\ ~Caused({"crash"}) /\ ~Caused({"lost_answer"}) /\ ~Caused({"forgotten"})
         /\ ~Caused({"stale_review"}) /\ ~Caused({"second_run"})
         /\ ~Caused({"crash", "lost_answer"})
  BY DEF OrderContext, StepOf, Settles, Step, CommandsFound, LocalInv, Caused,
     OrderCause

LEMMA OrderStops ==
  ASSUME NEW p \in Process, OrderContext(p), Stops(p)
  PROVE  CommandsFound'
<1>1. /\ draft' = draft /\ SameParcels /\ ~Unsaved(p)
      /\ proc'[p].pc = "idle" /\ proc'[p].snap.command = NoCmd
  BY OrderFacts, IdleFields
  DEF Stops, SameDraft, SameAllegro, SameParcels, InitialDraft
<1> QED  BY <1>1, OrderFacts, SavedIsKnown, ElsewhereResumable, OrderKept

LEMMA OrderFails ==
  ASSUME NEW p \in Process, OrderContext(p), Fails(p)
  PROVE  CommandsFound'
<1>1. /\ draft' = draft /\ SameParcels /\ ~Unsaved(p)
      /\ proc'[p].pc = "fail" /\ proc'[p].snap = proc[p].snap
  BY OrderFacts DEF Fails, Moves, Goes, SameDraft, SameParcels
<1> QED  BY <1>1, OrderFacts, SavedIsKnown, ElsewhereResumable, OrderKept

LEMMA OrderErrs ==
  ASSUME NEW p \in Process, OrderContext(p), Errs(p)
  PROVE  CommandsFound'
<1>1. ~Uncharted
  BY OrderFacts DEF Errs, Hidden, Uncharted, Caused
<1>2. /\ draft'.ships = draft.ships /\ draft'.command = draft.command
      /\ draft'.status = "error" /\ SameParcels
      /\ proc'[p].pc = "idle" /\ proc'[p].snap.command = NoCmd
  BY IdleFields DEF Errs, Orders, SameAllegro, SameParcels, InitialDraft
<1>3. proc[p].pc \in {"fail", "reopen"}
  BY DEF Errs
<1> QED  BY <1>1, <1>2, <1>3, OrderFacts, NoneHeld, ElsewhereResumable, OrderKept

LEMMA OrderClaims ==
  ASSUME NEW p \in Process, OrderContext(p), Claims(p)
  PROVE  CommandsFound'
<1>1. /\ draft'.ships = draft.ships /\ draft'.command = draft.command
      /\ draft'.status = "executing" /\ SameParcels
      /\ proc[p].pc = "claim" /\ proc'[p].pc = "proposal"
      /\ proc'[p].snap = proc[p].snap /\ proc'[p].op = proc[p].op
      /\ draft.status \in EXECUTABLE_STATES
  BY DEF Claims, Turns, Moves, Goes, Orders, SameAllegro, SameParcels
<1>2. Uncharted => draft.status = "pending_confirmation"
  BY <1>1, OrderFacts DEF CommandsFound, EXECUTABLE_STATES
<1>3. Resumable(p)'
  BY <1>1, <1>2, OrderFacts DEF Resumable, SameOrders, Uncharted
<1> QED  BY <1>1, <1>3, OrderFacts, NoneHeld, OrderKept DEF OpenStatus

LEMMA OrderProposes ==
  ASSUME NEW p \in Process, OrderContext(p), Proposes(p)
  PROVE  CommandsFound'
<1>1. /\ draft' = draft /\ SameParcels
      /\ proc[p].pc = "proposal" /\ proc'[p].pc = "parcel"
      /\ proc'[p].snap = proc[p].snap /\ proc'[p].op = proc[p].op
      /\ ~Stale(p)
  BY FirstRun, OrderFacts
  DEF Proposes, Turns, Moves, Goes, SameDraft, SameAllegro, SameParcels
<1>2. SameOrders(p) /\ proc[p].op \in {"execute", "confirm"}
  BY <1>1, OrderFacts DEF Stale, SameOrders, Local, Place
<1>3. Uncharted => proc[p].snap.status = "pending_confirmation"
  BY <1>1, <1>2, OrderFacts DEF Resumable, Local, OrdersParcel
<1>4. Resumable(p)'
  BY <1>1, <1>2, <1>3 DEF Resumable, SameOrders, Uncharted
<1> QED  BY <1>1, <1>4, OrderFacts, NoneHeld, OrderKept

LEMMA OrderResumes ==
  ASSUME NEW p \in Process, OrderContext(p), Resumes(p)
  PROVE  CommandsFound'
<1>1. /\ draft' = draft /\ SameParcels
      /\ proc[p].pc = "parcel" /\ proc'[p].pc = "checkpoint"
      /\ proc'[p].snap = proc[p].snap /\ proc'[p].op = proc[p].op
      /\ proc'[p].cmd = KnownCommand(p) /\ KnownCommand(p) # NoCmd
      /\ Current(p)' = Current(p)
  BY DEF Resumes, Moves, Goes, SameDraft, SameAllegro, SameParcels, Current, Todo
<1>2. Ordering(p) /\ proc[p].snap.ships = draft.ships
  BY <1>1, OrderFacts DEF Ordering, Running, Local, Place, OneRun
<1>3. draft.ships[Current(p)].cmd \in {NoCmd, KnownCommand(p)}
  BY <1>2 DEF KnownCommand
<1>4. Uncharted => draft.command = KnownCommand(p)
  <2> SUFFICES ASSUME Uncharted PROVE draft.command = KnownCommand(p)
    OBVIOUS
  <2>1. Current(p) = 1
    BY <1>2, OrderFacts, UnchartedCurrent
  <2>2. /\ proc[p].snap.status = "pending_confirmation"
        /\ proc[p].snap.command = draft.command
    BY <1>1, <1>2, OrderFacts DEF Resumable
  <2> QED  BY <1>2, <2>1, <2>2 DEF KnownCommand, Uncharted
<1>5. Resumable(p)'
  BY <1>1, <1>3, <1>4 DEF Resumable, Uncharted
<1> QED  BY <1>1, <1>5, OrderFacts, NoneHeld, OrderKept

\* a command just created is in the hands of its run, and nobody knows it
LEMMA OrderCreates ==
  ASSUME NEW p \in Process, OrderContext(p), Creates(p)
  PROVE  CommandsFound'
<1> DEFINE new == Len(commands) + 1
<1>1. /\ draft' = draft /\ Ordered(p) /\ KnownCommand(p) = NoCmd
      /\ proc[p].pc = "parcel" /\ proc'[p].pc = "persist"
      /\ proc'[p].snap = proc[p].snap /\ proc'[p].op = proc[p].op
      /\ proc'[p].cmd = new /\ Current(p)' = Current(p) /\ Todo(p) # {}
  BY DEF Creates, Moves, Goes, SameDraft, Current, Todo
<1>2. Ordering(p) /\ Ordering(p)' /\ proc[p].snap.ships = draft.ships
  BY <1>1, OrderFacts DEF Ordering, Running, Local, Place, OneRun
<1>3. ~Uncharted /\ draft.ships[Current(p)].cmd = NoCmd
  <2>1. ASSUME Uncharted PROVE FALSE
    <3>1. Current(p) = 1
      BY <1>2, <2>1, OrderFacts, UnchartedCurrent
    <3>2. /\ proc[p].snap.status = "pending_confirmation"
          /\ proc[p].snap.command = draft.command
      BY <1>1, <1>2, <2>1, OrderFacts DEF Resumable
    <3> QED  BY <1>1, <1>2, <2>1, <3>1, <3>2 DEF KnownCommand, Uncharted
  <2>2. draft.ships[Current(p)].cmd = NoCmd
    BY <1>1, <1>2 DEF KnownCommand
  <2> QED  BY <2>1, <2>2
<1>4. /\ \A c \in DOMAIN commands : commands'[c] = commands[c]
      /\ DOMAIN commands' = DOMAIN commands \cup {new}
      /\ commands'[new].parcel = Current(p) /\ new \in Nat
      /\ \A c \in Nat : c <= Len(commands) => c # new
  <2>1. Len(commands) \in Nat /\ DOMAIN commands = 1..Len(commands)
        /\ DOMAIN commands' = 1..new
    BY <1>1, OrderFacts, OrderedCommands
  <2>2. 1..new = (1..Len(commands)) \cup {new}
    BY <2>1
  <2> QED  BY <1>1, <2>1, <2>2, OrderFacts, OrderedCommands
<1>5. /\ draft.command # new
      /\ \A q \in Process : proc'[q].snap.command # new
  <2>1. draft.command \in Nat /\ draft.command <= Len(commands)
    BY OrderFacts, DraftFields DEF LocalInv, Exists, Cmd, NoCmd, TypeOK
  <2>2. ASSUME NEW q \in Process
        PROVE  proc[q].snap.command \in Nat /\ proc[q].snap.command <= Len(commands)
    BY OrderFacts, ProcFields, DraftFields DEF LocalInv, Local, Exists, Cmd, NoCmd
  <2>3. \A q \in Process : proc'[q].snap = proc[q].snap
    BY <1>1, OrderFacts DEF Others
  <2> QED  BY <1>4, <2>1, <2>2, <2>3
<1> HIDE DEF new
<1>6. ASSUME NEW c \in DOMAIN commands' PROVE CommandKnown(c)'
  <2>1. CASE c = new
    BY <1>1, <1>2, <1>4, <2>1 DEF CommandKnown, HeldBy
  <2>2. CASE c \in DOMAIN commands
    <3>1. commands'[c] = commands[c] /\ CommandKnown(c)
      BY <1>4, <2>2, OrderFacts DEF CommandsFound
    <3>2. ASSUME NEW q \in Process, HeldBy(q, c) PROVE HeldBy(q, c)'
      BY <1>1, <3>1, <3>2, OrderFacts
      DEF HeldBy, Others, Ordering, Running, Current, Todo
    <3> QED  BY <1>1, <3>1, <3>2 DEF CommandKnown, Uncharted
  <2> QED  BY <1>4, <2>1, <2>2
<1>7. ~Uncharted'
  BY <1>1, <1>3 DEF Uncharted
<1>8. Resumable(p)'
  BY <1>1, <1>3, <1>5, <1>7 DEF Resumable
<1>9. ASSUME NEW q \in Process, q # p PROVE Resumable(q)'
  <2>1. ~Ordering(q) /\ proc'[q] = proc[q]
    BY <1>2, <1>9, OrderFacts DEF OneRun, Others
  <2>2. proc[q].pc # "persist"
    BY <2>1, OrderFacts DEF LocalInv, Local, Place, ParcelPc, Ordering, Running
  <2> QED  BY <1>7, <2>1, <2>2 DEF Resumable, Ordering, Running
<1> QED  BY <1>6, <1>7, <1>8, <1>9 DEF CommandsFound

\* beside a run that orders nobody holds a command
LEMMA AloneOrders ==
  ASSUME NEW p \in Process, OrderContext(p), Ordering(p), NEW q \in Process, q # p
  PROVE  ~Ordering(q) /\ proc[q].pc \notin {"persist", "checkpoint"}
<1>1. ~Ordering(q)
  BY OrderFacts DEF OneRun
<1> QED  BY <1>1, OrderFacts DEF LocalInv, Local, Place, ParcelPc, Ordering, Running

LEMMA OrderPersists ==
  ASSUME NEW p \in Process, OrderContext(p), Persists(p)
  PROVE  CommandsFound'
<1>1. /\ draft'.ships = draft.ships /\ draft'.command = proc[p].cmd
      /\ draft'.status = "pending_confirmation" /\ SameParcels
      /\ proc[p].pc = "persist" /\ proc'[p].pc = "checkpoint"
      /\ proc'[p].snap = proc[p].snap /\ proc'[p].op = proc[p].op
      /\ proc'[p].cmd = proc[p].cmd /\ Current(p)' = Current(p)
  BY DEF Persists, Turns, Moves, Goes, Orders, SameAllegro, SameParcels, Current, Todo
<1>2. Ordering(p) /\ Ordering(p)'
  BY <1>1, OrderFacts DEF Ordering, Running, Local, Place, ParcelPc
<1>3. ~Uncharted
  BY <1>1, <1>2, OrderFacts DEF Resumable
<1>4. \A q \in Process \ {p} : /\ ~Ordering(q) /\ proc'[q] = proc[q]
                               /\ proc[q].pc \notin {"persist", "checkpoint"}
  BY <1>2, AloneOrders, OrderFacts DEF Others
<1>5. ASSUME NEW c \in DOMAIN commands' PROVE CommandKnown(c)'
  <2>1. /\ commands'[c].parcel = commands[c].parcel
        /\ CommandKnown(c)
    BY <1>1, OrderFacts DEF SameParcels, CommandsFound
  <2>2. ByChart(c) \/ HeldBy(p, c)
    BY <1>3, <1>4, <2>1 DEF CommandKnown, ByChart, HeldBy
  <2> QED  BY <1>1, <1>2, <2>1, <2>2 DEF CommandKnown, ByChart, HeldBy
<1>6. Resumable(p)'
  BY <1>1, <1>2, OrderFacts DEF Resumable
<1>7. ASSUME NEW q \in Process, q # p PROVE Resumable(q)'
  <2>1. proc'[q].snap.command # draft'.command
    BY <1>1, <1>4, <1>7, OrderFacts DEF Resumable
  <2> QED  BY <1>4, <1>7, <2>1 DEF Resumable, SameOrders, Ordering, Running
<1> QED  BY <1>1, <1>5, <1>6, <1>7 DEF CommandsFound

\* a run that leaves every command to the checkpoints
LEMMA OrderCharted ==
  ASSUME NEW p \in Process, OrderContext(p), Ordering(p), SameParcels,
         ~Uncharted', \A c \in DOMAIN commands : ByChart(c)',
         proc'[p].pc \notin {"persist", "checkpoint"}
  PROVE  CommandsFound'
<1>1. \A q \in Process \ {p} : /\ ~Ordering(q) /\ proc'[q] = proc[q]
                               /\ proc[q].pc \notin {"persist", "checkpoint"}
  BY AloneOrders, OrderFacts DEF Others
<1>2. ASSUME NEW q \in Process PROVE Resumable(q)'
  BY <1>1 DEF Resumable
<1>3. \A c \in DOMAIN commands' : CommandKnown(c)'
  BY DEF CommandKnown, ByChart, SameParcels
<1> QED  BY <1>2, <1>3 DEF CommandsFound

LEMMA OrderCheckpoints ==
  ASSUME NEW p \in Process, OrderContext(p), NEW id \in BOOLEAN, Checkpoints(p, id)
  PROVE  CommandsFound'
<1>1. /\ commands' = commands /\ draft'.command = draft.command
      /\ draft'.ships = Checkpointed(p, id)
      /\ proc[p].pc \in {"checkpoint", "record"} /\ proc'[p].pc \in {"wait", "parcel"}
  BY DEF Checkpoints, Goes, Orders, SameAllegro
<1>2. /\ Ordering(p) /\ proc[p].snap.ships = draft.ships
      /\ Todo(p) # {} /\ proc[p].cmd # NoCmd
  BY <1>1, OrderFacts DEF Ordering, Running, Local, Place, OrdersParcel, ParcelPc, OneRun
<1>3. /\ Current(p) \in Parcel
      /\ draft'.ships[Current(p)].cmd = proc[p].cmd
      /\ \A k \in Parcel \ {Current(p)} : draft'.ships[k] = draft.ships[k]
  BY <1>1, <1>2, CurrentIsFirst, OrderFacts, ProcFields, DraftFields
  DEF Checkpointed, Shipments
<1>4. draft.ships[Current(p)].cmd \in {NoCmd, proc[p].cmd}
  BY <1>1, <1>2, OrderFacts DEF Resumable, Local, OrdersParcel
<1>5. Uncharted => draft.command = proc[p].cmd /\ Current(p) = 1
  BY <1>1, <1>2, OrderFacts, FirstCharted, UnchartedCurrent DEF Resumable
<1>6. ~Uncharted'
  <2>1. 1 \in Parcel
    BY DEF Parcel
  <2>2. Uncharted => Current(p) = 1
    BY <1>5
  <2> QED  BY <1>1, <1>2, <1>3, <2>1, <2>2 DEF Uncharted
<1>7. ASSUME NEW c \in DOMAIN commands PROVE ByChart(c)'
  <2>1. c # NoCmd /\ commands[c].parcel \in Parcel /\ CommandKnown(c)
    BY OrderFacts, Lengths DEF CommandsFound, NoCmd
  <2>2. CASE ByChart(c)
    BY <1>1, <1>3, <1>4, <2>1, <2>2 DEF ByChart
  <2>3. CASE ByField(c)
    BY <1>1, <1>3, <1>5, <2>3 DEF ByChart, ByField
  <2>4. ASSUME NEW q \in Process, HeldBy(q, c) PROVE ByChart(c)'
    <3>1. q = p
      BY <1>2, <2>4, AloneOrders DEF HeldBy
    <3> QED  BY <1>1, <1>3, <2>4, <3>1 DEF HeldBy, ByChart
  <2> QED  BY <2>1, <2>2, <2>3, <2>4, KnownBy
<1> QED  BY <1>1, <1>2, <1>6, <1>7, OrderCharted DEF SameParcels

LEMMA OrderEnds ==
  ASSUME NEW p \in Process, OrderContext(p), Pends(p) \/ Finishes(p)
  PROVE  CommandsFound'
<1>1. /\ commands' = commands /\ draft'.ships = proc[p].snap.ships
      /\ proc[p].pc \in {"pending", "finish"} /\ proc'[p].pc = "idle"
  BY IdleFields DEF Pends, Finishes, Orders, SameAllegro
<1>2. Ordering(p) /\ proc[p].snap.ships = draft.ships
  BY <1>1, OrderFacts DEF Ordering, Running, Local, Place, ParcelPc, OneRun
<1>3. ~Uncharted /\ ~Uncharted'
  BY <1>1, <1>2, OrderFacts, FirstCharted DEF Uncharted
<1>4. ASSUME NEW c \in DOMAIN commands PROVE ByChart(c)'
  <2>1. CommandKnown(c)
    BY OrderFacts DEF CommandsFound
  <2>2. \A q \in Process : ~HeldBy(q, c)
    BY <1>1, <1>2, AloneOrders DEF HeldBy
  <2> QED  BY <1>1, <1>2, <1>3, <2>1, <2>2, KnownBy DEF ByChart, ByField
<1> QED  BY <1>1, <1>2, <1>3, <1>4, OrderCharted DEF SameParcels

LEMMA OrderMoves ==
  ASSUME NEW p \in Process, OrderContext(p),
         Releases(p) \/ Waits(p) \/ Completes(p) \/ CancelsCollection(p)
  PROVE  CommandsFound'
<1>1. draft' = draft /\ SameParcels /\ proc[p].pc \notin {"persist", "checkpoint"}
  BY DEF Releases, Waits, Completes, CancelsCollection, SameDraft, SameAllegro,
     SameParcels
<1>2. /\ proc'[p].snap.command \in {proc[p].snap.command, NoCmd}
      /\ proc'[p].pc \in {"release", "reopen", "pending", "record", "finish",
                          "propose", "pickup_status", "cancelled"}
  <2>1. CASE Releases(p)
    BY <2>1 DEF Releases, Turns, Moves, Goes, IdleProc, InitialDraft
  <2>2. CASE Waits(p) \/ CancelsCollection(p)
    BY <2>2 DEF Waits, CancelsCollection, Turns, Moves, Goes
  <2>3. CASE Completes(p)
    BY <2>3 DEF Completes, Turns, Moves, Goes
  <2> QED  BY <2>1, <2>2, <2>3
<1> QED  BY <1>1, <1>2, OrderFacts, NoneHeld, ElsewhereResumable, OrderKept

LEMMA OrderPickups ==
  ASSUME NEW p \in Process, OrderContext(p), PickupStep(p)
  PROVE  CommandsFound'
<1>1. /\ draft'.ships = draft.ships /\ draft'.command = draft.command
      /\ draft'.status = draft.status /\ SameParcels
      /\ proc[p].pc \notin {"persist", "checkpoint"}
  BY DEF PickupStep, ClaimsPickup, Learns, CreatesPickup, PersistsPickup, LosesPickup,
     GivesBack, WritesPickup, SameOrder, Orders, SameDraft, SameAllegro, SameParcels
<1>2. /\ proc'[p].snap.command \in {proc[p].snap.command, NoCmd}
      /\ proc'[p].pc \in {"propose", "pickup_status", "unpickup", "finish",
                          "persist_pickup", "idle"}
  <2>1. CASE WritesPickup(p)
    BY <2>1, IdleFields DEF WritesPickup, InitialDraft
  <2>2. CASE ~WritesPickup(p)
    BY <2>2 DEF PickupStep, ClaimsPickup, Learns, CreatesPickup, PersistsPickup,
       LosesPickup, GivesBack, Turns, Moves, Goes
  <2> QED  BY <2>1, <2>2
<1> QED  BY <1>1, <1>2, OrderFacts, NoneHeld, ElsewhereResumable, OrderKept

LEMMA OrderStarts ==
  ASSUME NEW p \in Process, OrderContext(p), Starts(p)
  PROVE  CommandsFound'
<1>1. /\ draft' = draft /\ SameParcels /\ proc[p].pc = "idle"
      /\ proc'[p].snap = draft
      /\ proc'[p].pc \notin {"parcel", "persist", "checkpoint"}
      /\ proc'[p].pc = "proposal" => proc'[p].op = "confirm"
  BY DEF Starts, Asked, SameDraft, SameAllegro, SameParcels
<1>2. Resumable(p)'
  BY <1>1 DEF Resumable
<1> QED  BY <1>1, <1>2, OrderFacts, NoneHeld, OrderKept

LEMMA OrderCancels ==
  ASSUME NEW p \in Process, OrderContext(p), CancelsOne(p)
  PROVE  CommandsFound'
<1>1. PICK k \in Known(proc[p].snap) :
        /\ commands' = [commands EXCEPT
              ![proc[p].snap.ships[k].cmd].state = "cancelled"]
        /\ Reships(p, [proc[p].snap.ships EXCEPT ![k].id = FALSE])
  BY DEF CancelsOne
<1>2. SameParcels
  <2>1. /\ CommandsGrow /\ Len(commands') = Len(commands)
    BY <1>1, OrderFacts, CancelledExists, CommandStateGrows DEF Carried
  <2>2. DOMAIN commands' = DOMAIN commands
    BY <1>1
  <2> QED  BY <2>1, <2>2, OrderFacts, Lengths DEF CommandsGrow, SameParcels
<1>3. /\ draft' = draft /\ proc[p].pc = "cancel"
      /\ proc'[p].pc \in {"cancel", "cancelled"}
      /\ proc'[p].snap.command = proc[p].snap.command
  BY <1>1 DEF CancelsOne, Goes, SameDraft, Reships
<1> QED  BY <1>2, <1>3, OrderFacts, NoneHeld, ElsewhereResumable, OrderKept

LEMMA OrderWrites ==
  ASSUME NEW p \in Process, OrderContext(p), SaysCancelled(p) \/ Saves(p)
  PROVE  CommandsFound'
<1>1. /\ draft'.ships = draft.ships /\ draft'.command = draft.command
      /\ SameParcels /\ proc[p].pc \in {"cancelled", "save"}
      /\ proc'[p].pc = "idle" /\ proc'[p].snap.command = NoCmd
  <2>1. draft'.ships = draft.ships /\ draft'.command = draft.command /\ SameParcels
    BY DEF SaysCancelled, Saves, SameOrder, Orders, SameAllegro, SameParcels
  <2>2. proc[p].pc \in {"cancelled", "save"} /\ proc'[p] = IdleProc
    BY DEF SaysCancelled, Saves
  <2> QED  BY <2>1, <2>2, IdleFields DEF InitialDraft
<1>2. \/ draft'.status = draft.status
      \/ /\ draft'.status # "pending_confirmation"
         /\ Uncharted => draft'.status \in OpenStatus
  BY OrderFacts DEF SaysCancelled, Saves, SameOrder, Orders, CommandsFound, OpenStatus
<1> QED  BY <1>1, <1>2, OrderFacts, NoneHeld, ElsewhereResumable, OrderKept

LEMMA OrderStep ==
  ASSUME NEW p \in Process, OrderContext(p)
  PROVE  CommandsFound'
<1>1. CASE RunStep(p)
  BY <1>1, OrderFails, OrderMoves, OrderErrs, OrderClaims, OrderProposes,
     OrderResumes, OrderCreates, OrderPersists, OrderCheckpoints, OrderEnds
  DEF RunStep
<1>2. CASE OtherStep(p)
  BY <1>2, OrderStarts, OrderStops, OrderCancels, OrderMoves, OrderWrites
  DEF OtherStep
<1> QED  BY <1>1, <1>2, OrderPickups DEF OrderContext, StepOf, Step

LEMMA OrderAnswers ==
  ASSUME TypeOK, CommandsFound, CommandAnswered \/ PickupAnswered
  PROVE  CommandsFound'
<1>1. draft' = draft /\ proc' = proc
  BY DEF CommandAnswered, PickupAnswered, SameDraft
<1>2. SameParcels
  <2>1. CASE PickupAnswered
    BY <2>1 DEF PickupAnswered, SameParcels
  <2>2. CASE CommandAnswered
    <3>1. PICK c \in DOMAIN commands, state \in {"success", "error"} :
            commands' = [commands EXCEPT ![c].state = state]
      BY <2>2 DEF CommandAnswered
    <3>2. commands'[c].parcel = commands[c].parcel
      BY <3>1, Lengths
    <3>3. \A d \in DOMAIN commands \ {c} : commands'[d] = commands[d]
      BY <3>1
    <3>4. DOMAIN commands' = DOMAIN commands
      BY <3>1
    <3> QED  BY <3>2, <3>3, <3>4 DEF SameParcels
  <2> QED  BY <2>1, <2>2
<1>3. \A p \in Process : /\ Current(p)' = Current(p) /\ Ordering(p)' = Ordering(p)
                         /\ SameOrders(p)' = SameOrders(p)
  BY <1>1 DEF Current, Todo, Ordering, Running, SameOrders
<1>4. Uncharted' = Uncharted
  BY <1>1 DEF Uncharted
<1>5. \A c \in DOMAIN commands' : CommandKnown(c)'
  BY <1>1, <1>2, <1>3, <1>4 DEF CommandsFound, CommandKnown, HeldBy, SameParcels
<1>6. \A p \in Process : Resumable(p)'
  BY <1>1, <1>3, <1>4 DEF CommandsFound, Resumable
<1> QED  BY <1>1, <1>4, <1>5, <1>6 DEF CommandsFound

LEMMA OrderNext ==
  ASSUME TypeOK, LocalInv, RunInv, OrderInv, Next
  PROVE  OrderInv'
<1>1. Settles /\ ((\E p \in Process : StepOf(p)) \/ CommandAnswered \/ PickupAnswered)
  BY NextSettles
<1>2. SUFFICES ASSUME ~Caused(OrderCause) PROVE CommandsFound'
  BY DEF OrderInv, Caused, Excused
<1>3. ~Excused(OrderCause) /\ ~Excused({"second_run"})
  BY <1>1, <1>2 DEF Settles, Caused, Excused, OrderCause
<1>4. OneRun /\ CommandsFound
  BY <1>3 DEF RunInv, OrderInv
<1> QED  BY <1>1, <1>2, <1>4, OrderStep, OrderAnswers DEF OrderContext

(***************************************************************************)
(* Two commands of one parcel are one command.                             *)
(***************************************************************************)
LEMMA OrderedOnce ==
  ASSUME TypeOK, LocalInv, OneRun, CommandsFound,
         NEW c \in DOMAIN commands, NEW d \in DOMAIN commands,
         commands[c].parcel = commands[d].parcel
  PROVE  c = d
<1>1. c # NoCmd /\ d # NoCmd
  BY Lengths DEF NoCmd
<1>2. ASSUME NEW e \in DOMAIN commands, NEW f \in DOMAIN commands, e # NoCmd,
             commands[e].parcel = commands[f].parcel,
             ByChart(e), ~ByChart(f) PROVE FALSE
  <2>1. ~ByField(f)
    BY <1>2 DEF ByChart, ByField, Uncharted
  <2>2. PICK p \in Process : HeldBy(p, f)
    BY <1>2, <2>1, KnownBy DEF CommandsFound
  <2>3. draft.ships[commands[f].parcel].cmd \in {NoCmd, f}
    BY <2>2 DEF HeldBy, CommandsFound, Resumable
  <2> QED  BY <1>2, <2>3 DEF ByChart
<1>3. CASE ByChart(c) \/ ByChart(d)
  BY <1>1, <1>2, <1>3 DEF ByChart
<1>4. CASE ~ByChart(c) /\ ~ByChart(d)
  <2>1. /\ ByField(c) \/ \E p \in Process : HeldBy(p, c)
        /\ ByField(d) \/ \E p \in Process : HeldBy(p, d)
    BY <1>4, KnownBy DEF CommandsFound
  <2>2. ASSUME NEW p \in Process, NEW e \in DOMAIN commands, HeldBy(p, e), Uncharted
        PROVE  draft.command = e
    BY <2>2 DEF HeldBy, CommandsFound, Resumable
  <2> QED  BY <2>1, <2>2 DEF ByField, HeldBy, OneRun
<1> QED  BY <1>3, <1>4

LEMMA OrdersHold ==
  ASSUME TypeOK, LocalInv, RunInv, OrderInv, CompleteInv
  PROVE  ParcelsAreOrderedOnce
<1>1. OneLabelPerParcel
  <2>1. CASE Excused(OrderCause)
    BY <2>1 DEF OrderCause, OneLabelPerParcel
  <2>2. CASE ~Excused(OrderCause)
    <3>1. OneRun /\ CommandsFound
      BY <2>2 DEF OrderCause, Excused, RunInv, OrderInv
    <3> QED  BY <3>1, OrderedOnce DEF OneLabelPerParcel
  <2> QED  BY <2>1, <2>2
<1>2. CreatedIsComplete
  <2>1. CASE Excused(CompleteCause)
    BY <2>1 DEF CompleteCause, CreatedIsComplete
  <2>2. ASSUME AllRecorded, draft.status = "created", ~Cancelling, NEW k \in Parcel
        PROVE  /\ draft.ships[k].id
               /\ commands[draft.ships[k].cmd].state = "success"
    <3>1. /\ draft.ships[k].id /\ draft.ships[k].cmd # NoCmd
          /\ commands[draft.ships[k].cmd].state \in {"success", "cancelled"}
          /\ draft.ships[k].cmd <= Len(commands)
      BY <2>2 DEF AllRecorded, LocalInv, Exists, ShipsExist
    <3>2. draft.ships[k].cmd \in DOMAIN commands
      BY <3>1, Lengths, DraftFields DEF TypeOK, Shipments, Cmd, NoCmd
    <3> QED  BY <2>2, <3>1, <3>2 DEF AllRecorded
  <2> QED  BY <2>1, <2>2 DEF CompleteInv, CreatedIsComplete, Cancelling
<1> QED  BY <1>1, <1>2 DEF ParcelsAreOrderedOnce

-----------------------------------------------------------------------------
(***************************************************************************)
(* PlanInv, and what a new plan finds.                                     *)
(***************************************************************************)
\* checkpoints are not taken back
LEMMA ChartedKept ==
  ASSUME NEW p \in Process, OrderContext(p), Charted
  PROVE  Charted'
<1>1. PICK k \in Parcel : draft.ships[k].cmd # NoCmd
  BY DEF Charted
<1>2. CASE draft'.ships = draft.ships
  BY <1>1, <1>2 DEF Charted
<1>3. ASSUME NEW id \in BOOLEAN, Checkpoints(p, id) PROVE Charted'
  <2>1. draft'.ships = Checkpointed(p, id) /\ Todo(p) # {} /\ proc[p].cmd # NoCmd
    BY <1>3, OrderFacts DEF Checkpoints, Orders, Local, OrdersParcel, ParcelPc
  <2>2. Current(p) \in Parcel /\ draft'.ships[Current(p)].cmd = proc[p].cmd
    BY <2>1, CurrentIsFirst, OrderFacts, ProcFields, DraftFields
    DEF Checkpointed, Shipments
  <2> QED  BY <2>1, <2>2 DEF Charted
<1>4. CASE Pends(p) \/ Finishes(p)
  <2>1. Ordering(p)
    BY <1>4, OrderFacts DEF Pends, Finishes, Ordering, Running, Local, Place, ParcelPc
  <2> QED  BY <1>2, <1>4, <2>1, OrderFacts DEF Pends, Finishes, Orders, OneRun
<1>5. CASE RunStep(p)
  BY <1>2, <1>3, <1>4, <1>5 DEF RunStep, Fails, Releases, Errs, Claims, Proposes,
     Resumes, Creates, Persists, Waits, Completes, Orders, SameDraft
<1>6. CASE PickupStep(p)
  BY <1>2, <1>6 DEF PickupStep, ClaimsPickup, Learns, CreatesPickup, PersistsPickup,
     LosesPickup, GivesBack, WritesPickup, SameOrder, Orders, SameDraft
<1>7. CASE OtherStep(p)
  BY <1>2, <1>7 DEF OtherStep, Starts, Stops, CancelsOne, CancelsCollection,
     SaysCancelled, Saves, SameOrder, Orders, SameDraft
<1> QED  BY <1>5, <1>6, <1>7, OrderFacts DEF StepOf, Step

AtWork(p) == Ordering(p) \/ Claimed(p)

\* a step that leaves the status open, or as it was
LEMMA PlanKept ==
  ASSUME NEW p \in Process, OrderContext(p), PlanLocked,
         draft'.status \in OpenStatus \/ draft'.status = draft.status,
         AtWork(p)' => AtWork(p) \/ draft'.status \in OpenStatus,
         draft'.status = "pending_confirmation" =>
            \/ Charted' \/ Uncharted'
            \/ draft.status = draft'.status /\ (Uncharted => Uncharted')
  PROVE  PlanLocked'
<1>1. \A q \in Process \ {p} : AtWork(q)' = AtWork(q)
  BY OrderFacts DEF AtWork, Others, Ordering, Running, Claimed
<1>2. \A q \in Process : AtWork(q)' => Charted' \/ draft'.status \in OpenStatus
  BY <1>1, ChartedKept DEF PlanLocked, AtWork, OpenStatus
<1>3. draft'.status = "pending_confirmation" => Charted' \/ Uncharted'
  BY ChartedKept DEF PlanLocked
<1> QED  BY <1>2, <1>3 DEF PlanLocked, AtWork, OpenStatus

\* a step that ends the last request at work
LEMMA PlanEnds ==
  ASSUME NEW p \in Process, OrderContext(p), proc'[p].pc = "idle",
         draft'.status # "pending_confirmation",
         \A q \in Process \ {p} : ~AtWork(q)
  PROVE  PlanLocked'
<1>1. \A q \in Process : ~AtWork(q)'
  BY OrderFacts DEF AtWork, Others, Ordering, Running, Claimed
<1> QED  BY <1>1 DEF PlanLocked, AtWork

LEMMA PlanErrs ==
  ASSUME NEW p \in Process, OrderContext(p), PlanLocked, Errs(p), ~Caused(PlanCause)
  PROVE  PlanLocked'
<1>1. draft'.status = "error" /\ proc'[p].pc = "idle"
  BY IdleFields DEF Errs, Orders
<1>2. CASE draft.status = "pending_confirmation"
  <2>1. ~Uncharted
    BY OrderFacts DEF Errs, Hidden, Uncharted, Caused
  <2>2. Charted'
    BY <1>2, <2>1, ChartedKept DEF PlanLocked
  <2> QED  BY <1>1, <2>2 DEF PlanLocked
<1>3. CASE \A q \in Process \ {p} : ~Running(q)
  BY <1>1, <1>3, PlanEnds DEF AtWork, Ordering, Claimed, Running
<1>4. ~Caused({"late_failure"}) /\ ~Caused({"foreign_release"})
  BY DEF Caused, PlanCause
<1> QED  BY <1>2, <1>3, <1>4 DEF Errs

LEMMA PlanEnded ==
  ASSUME NEW p \in Process, OrderContext(p), PlanLocked, Pends(p) \/ Finishes(p)
  PROVE  PlanLocked'
<1>1. draft'.ships = proc[p].snap.ships /\ proc[p].pc \in {"pending", "finish"}
  BY DEF Pends, Finishes, Orders
<1>2. Ordering(p)
  BY <1>1, OrderFacts DEF Ordering, Running, Local, Place, ParcelPc
<1>3. 1 \in Parcel
  BY DEF Parcel
<1>4. Charted'
  BY <1>1, <1>2, <1>3, OrderFacts, FirstCharted DEF Charted
<1> QED  BY <1>4 DEF PlanLocked

LEMMA PlanSaves ==
  ASSUME NEW p \in Process, OrderContext(p), PlanLocked, Saves(p)
  PROVE  PlanLocked'
<1>1. proc[p].pc = "save" /\ proc'[p].pc = "idle"
  BY IdleFields DEF Saves
<1>2. CASE SameOrder
  <2>1. ~AtWork(p)' /\ draft'.status = draft.status /\ Uncharted' = Uncharted
    BY <1>1, <1>2 DEF AtWork, Ordering, Running, Claimed, SameOrder, Orders, Uncharted
  <2> QED  BY <2>1, PlanKept
<1>3. CASE Orders("pending", draft.ships, draft.command)
  <2>1. \/ draft.status = "needs_review" /\ draft'.status = "pending"
        \/ SameOrder
    BY <1>3, OrderFacts DEF Saves, Orders
  <2>2. draft.status = "needs_review" => \A q \in Process : ~AtWork(q)
    BY OrderFacts DEF OneRun, AtWork
  <2> QED  BY <1>1, <1>2, <2>1, <2>2, PlanEnds
<1> QED  BY <1>2, <1>3 DEF Saves

LEMMA PlanRuns ==
  ASSUME NEW p \in Process, OrderContext(p), PlanLocked, RunStep(p),
         ~Errs(p), ~Pends(p), ~Finishes(p)
  PROVE  PlanLocked'
<1>1. CASE Claims(p)
  BY <1>1, PlanKept DEF Claims, Orders, OpenStatus
<1>2. CASE Proposes(p)
  <2>1. ~Stale(p) /\ draft' = draft
    BY <1>2, FirstRun, OrderFacts DEF Proposes, SameDraft
  <2>2. Claimed(p) \/ draft.status = "pending_confirmation"
    BY <1>2, <2>1, OrderFacts DEF Proposes, Claimed, Local, Place, Stale
  <2> QED  BY <2>1, <2>2, PlanKept DEF AtWork, OpenStatus, Uncharted
<1>3. CASE Persists(p)
  <2>1. /\ draft'.ships = draft.ships /\ draft'.command = proc[p].cmd
        /\ draft'.status = "pending_confirmation" /\ proc[p].cmd # NoCmd
    BY <1>3, OrderFacts DEF Persists, Orders, Local, OrdersParcel, ParcelPc
  <2>2. Charted' \/ Uncharted'
    BY <2>1 DEF Charted, Uncharted, Parcel
  <2> QED  BY <2>1, <2>2, PlanKept DEF OpenStatus
<1>4. ASSUME NEW id \in BOOLEAN, Checkpoints(p, id) PROVE PlanLocked'
  <2>1. draft'.ships = Checkpointed(p, id) /\ Todo(p) # {} /\ proc[p].cmd # NoCmd
    BY <1>4, OrderFacts DEF Checkpoints, Orders, Local, OrdersParcel, ParcelPc
  <2>2. Current(p) \in Parcel /\ draft'.ships[Current(p)].cmd = proc[p].cmd
    BY <2>1, CurrentIsFirst, OrderFacts, ProcFields, DraftFields
    DEF Checkpointed, Shipments
  <2> QED  BY <2>1, <2>2 DEF PlanLocked, Charted
<1>5. CASE Fails(p) \/ Releases(p) \/ Resumes(p) \/ Creates(p) \/ Waits(p)
             \/ Completes(p)
  <2>1. draft' = draft
    BY <1>5 DEF Fails, Releases, Resumes, Creates, Waits, Completes, SameDraft
  <2>2. AtWork(p)' => AtWork(p)
    <3>1. proc'[p].pc \in {"fail", "release", "reopen"} \/ proc'[p].op = proc[p].op
      BY <1>5 DEF Fails, Releases, Resumes, Creates, Waits, Completes, Turns, Moves,
         Goes, IdleProc
    <3>2. proc'[p].pc # "proposal"
      BY <1>5 DEF Fails, Releases, Resumes, Creates, Waits, Completes, Turns, Moves,
         Goes, IdleProc
    <3>3. proc[p].pc \in {"parcel", "wait"} \/ Fails(p) \/ Releases(p)
      BY <1>5 DEF Resumes, Creates, Waits, Completes
    <3>4. Fails(p) \/ Releases(p) => ~AtWork(p)'
      BY DEF Fails, Releases, Turns, Moves, Goes, IdleProc, AtWork, Ordering, Running,
         Claimed
    <3> QED  BY <3>1, <3>2, <3>3, <3>4 DEF AtWork, Ordering, Running, Claimed
  <2> QED  BY <2>1, <2>2, PlanKept DEF Uncharted
<1> QED  BY <1>1, <1>2, <1>3, <1>4, <1>5 DEF RunStep

LEMMA PlanOthers ==
  ASSUME NEW p \in Process, OrderContext(p), PlanLocked, PickupStep(p) \/ OtherStep(p)
  PROVE  PlanLocked'
<1>1. CASE PickupStep(p)
  <2>1. draft'.status = draft.status /\ Uncharted' = Uncharted
    BY <1>1 DEF PickupStep, ClaimsPickup, Learns, CreatesPickup, PersistsPickup,
       LosesPickup, GivesBack, WritesPickup, SameOrder, Orders, SameDraft, Uncharted
  <2>2. AtWork(p)' => AtWork(p)
    <3>1. /\ proc'[p].pc = "idle" \/ proc'[p].op = proc[p].op
          /\ proc'[p].pc # "proposal"
      BY <1>1, IdleFields DEF PickupStep, ClaimsPickup, Learns, CreatesPickup,
         PersistsPickup, LosesPickup, GivesBack, WritesPickup, Turns, Moves, Goes
    <3>2. proc[p].pc \in {"propose", "persist_pickup", "pickup_status"}
            \/ proc[p].op = "pickup"
      BY <1>1, OrderFacts DEF PickupStep, ClaimsPickup, Learns, CreatesPickup,
         PersistsPickup, LosesPickup, GivesBack, WritesPickup, Local, Place
    <3> QED  BY <3>1, <3>2 DEF AtWork, Ordering, Running, Claimed
  <2> QED  BY <2>1, <2>2, PlanKept
<1>2. CASE OtherStep(p) /\ ~Saves(p)
  <2>1. \/ draft'.status = draft.status /\ Uncharted' = Uncharted
        \/ draft'.status = "cancelled"
    BY <1>2 DEF OtherStep, Starts, Stops, CancelsOne, CancelsCollection,
       SaysCancelled, SameOrder, Orders, SameDraft, Uncharted
  <2>2. ~AtWork(p)'
    <3>1. CASE Starts(p)
      BY <3>1 DEF Starts, Asked, AtWork, Ordering, Running, Claimed
    <3>2. CASE ~Starts(p)
      BY <1>2, <3>2, IdleFields DEF OtherStep, Stops, CancelsOne, CancelsCollection,
         SaysCancelled, Turns, Moves, Goes, AtWork, Ordering, Running, Claimed
    <3> QED  BY <3>1, <3>2
  <2> QED  BY <2>1, <2>2, PlanKept DEF OpenStatus
<1> QED  BY <1>1, <1>2, PlanSaves

LEMMA PlanNext ==
  ASSUME TypeOK, LocalInv, RunInv, OrderInv, PlanInv, Next
  PROVE  PlanInv'
<1>1. Settles /\ ((\E p \in Process : StepOf(p)) \/ CommandAnswered \/ PickupAnswered)
  BY NextSettles
<1>2. SUFFICES ASSUME ~Caused(PlanCause) PROVE PlanLocked'
  BY DEF PlanInv, Caused, Excused
<1>3. /\ ~Excused(PlanCause) /\ ~Excused({"second_run"}) /\ ~Excused(OrderCause)
      /\ ~Caused(OrderCause)
  BY <1>1, <1>2 DEF Settles, Caused, Excused, PlanCause, OrderCause
<1>4. OneRun /\ CommandsFound /\ PlanLocked
  BY <1>3 DEF RunInv, OrderInv, PlanInv
<1>5. ASSUME NEW p \in Process, StepOf(p) PROVE PlanLocked'
  <2>1. OrderContext(p)
    BY <1>3, <1>4, <1>5 DEF OrderContext
  <2> QED  BY <1>2, <1>4, <1>5, <2>1, PlanErrs, PlanEnded, PlanRuns, PlanOthers
           DEF StepOf, Step
<1>6. ASSUME CommandAnswered \/ PickupAnswered PROVE PlanLocked'
  BY <1>4, <1>6 DEF CommandAnswered, PickupAnswered, SameDraft, PlanLocked, Charted,
     Uncharted, Ordering, Running, Claimed
<1> QED  BY <1>1, <1>5, <1>6

(***************************************************************************)
(* update_draft alone changes the plan, and of a locked one only when it   *)
(* had read an older draft.                                                *)
(***************************************************************************)
SamePlan == draft'.repacked = draft.repacked

LEMMA RunsKeepPlan ==
  ASSUME TypeOK, NEW p \in Process, Run(p) PROVE SamePlan
<1> USE DEF TypeOK, Draft, SamePlan
<1>1. CASE Claim(p) \/ Proposal(p) \/ Resume(p) \/ CreateShipment(p)
             \/ PersistCommand(p)
  BY <1>1 DEF Claim, Proposal, Resume, CreateShipment, PersistCommand
<1>2. CASE Checkpoint(p) \/ Wait(p) \/ Record(p) \/ ParcelsDone(p)
  BY <1>2 DEF Checkpoint, WriteCheckpoint, Wait, Record, ParcelsDone
<1>3. CASE FinishPending(p) \/ Finish(p)
  BY <1>3 DEF FinishPending, Finish
<1>4. CASE Fail(p) \/ Release(p) \/ Reopen(p)
  BY <1>4 DEF Fail, Release, Reopen
<1> QED  BY <1>1, <1>2, <1>3, <1>4 DEF Run

LEMMA OthersKeepPlan ==
  ASSUME TypeOK, NEW p \in Process, Request(p) \/ Pickup(p) \/ Fault(p)
  PROVE  SamePlan
<1> USE DEF TypeOK, Draft, SamePlan
<1>1. CASE Request(p)
  BY <1>1 DEF Request, Execute, Confirm, OrderPickup, CancelShipment, CancelDispatch,
     Repack, Review, Begin
<1>2. CASE ClaimPickup(p) \/ PersistPickup(p)
  BY <1>2 DEF ClaimPickup, PersistPickup
<1>3. CASE WritePickup(p)
  BY <1>3 DEF WritePickup
<1>4. CASE NoSlot(p) \/ CreatePickup(p) \/ PickupStatus(p)
  BY <1>4 DEF NoSlot, CreatePickup, PickupStatus
<1>5. CASE Fault(p)
  BY <1>5 DEF Fault, CreateShipmentFault, WriteFault, ReadFault, Refused,
     CreatePickupFault, PersistPickupFault, PickupStatusFault, WritePickupFault,
     CancelFault, Crash
<1> QED  BY <1>1, <1>2, <1>3, <1>4, <1>5 DEF Pickup

LEMMA RepackStep ==
  ASSUME TypeOK, Next, ~SamePlan
  PROVE  ~BreakdownLocked(draft) \/ Caused({"stale_repack"})
<1>1. PICK p \in Process :
        Request(p) \/ Run(p) \/ Pickup(p) \/ Action(p) \/ Fault(p)
  BY DEF Next, CommandDone, PickupDone, SamePlan
<1>2. Save(p)
  BY <1>1, RunsKeepPlan, OthersKeepPlan
  DEF Action, CancelOne, CancelPickup, WriteCancelled, SamePlan, TypeOK, Draft
<1> QED  BY <1>2 DEF Save, SamePlan, TypeOK, Draft, Caused

\* a draft that is open to a new plan has ordered nothing
LEMMA UnlockedHasNone ==
  ASSUME TypeOK, LocalInv, CommandsFound, PlanLocked, ~BreakdownLocked(draft)
  PROVE  commands = << >>
<1>1. /\ draft.status \notin OpenStatus /\ ~Charted /\ ~Uncharted
  BY DEF BreakdownLocked, BREAKDOWN_LOCKED_STATUSES, OpenStatus, Charted,
     CommandsFound
<1>2. ASSUME NEW c \in DOMAIN commands PROVE FALSE
  <2>1. c # NoCmd /\ commands[c].parcel \in Parcel /\ CommandKnown(c)
    BY Lengths DEF CommandsFound, NoCmd
  <2>2. ~ByChart(c) /\ ~ByField(c)
    BY <1>1, <2>1 DEF ByChart, ByField, Charted
  <2>3. PICK p \in Process : HeldBy(p, c)
    BY <2>1, <2>2, KnownBy
  <2> QED  BY <1>1, <2>3 DEF HeldBy, PlanLocked, OpenStatus
<1>3. Len(commands) = 0
  BY <1>2, Lengths
<1> QED  BY <1>3, EmptySeq DEF TypeOK

LEMMA PlanOrderedStands ==
  ASSUME TypeOK, LocalInv, OrderInv, PlanInv, Next,
         draft.repacked # draft'.repacked
  PROVE  commands = << >> \/ Caused(PlanCause)
<1>1. causes \subseteq causes'
  BY NextSettles DEF Settles
<1>2. CASE Excused(PlanCause) \/ Excused(OrderCause)
  BY <1>1, <1>2 DEF Excused, Caused, PlanCause, OrderCause
<1>3. CASE CommandsFound /\ PlanLocked
  <2>1. ~BreakdownLocked(draft) \/ Caused({"stale_repack"})
    BY RepackStep DEF SamePlan
  <2>2. CASE Caused({"stale_repack"})
    BY <2>2 DEF Caused, PlanCause
  <2> QED  BY <1>3, <2>1, <2>2, UnlockedHasNone
<1> QED  BY <1>2, <1>3 DEF OrderInv, PlanInv

-----------------------------------------------------------------------------
(***************************************************************************)
(* The pickup: FlagInv and PickupInv, and the theorems that all the parts  *)
(* add up to.                                                              *)
(***************************************************************************)
(***************************************************************************)
(* FlagInv.                                                                *)
(***************************************************************************)
FlagContext(p) == /\ StepOf(p) /\ OneRun /\ AtRest /\ FlagTold
                  /\ ~Caused(FlagCause)

LEMMA FlagFacts ==
  ASSUME NEW p \in Process, FlagContext(p)
  PROVE  /\ TypeOK /\ TypeOK' /\ LocalInv /\ Grows /\ OneRun /\ AtRest /\ FlagTold
         /\ Local(p) /\ Others(p) /\ StepOf(p)
         /\ ~Caused({"crash"}) /\ ~Caused({"stale_pickup"})
         /\ ~Caused({"cancel_raced"}) /\ ~Caused({"second_run"})
         /\ ~Caused({"stale_review"}) /\ ~Caused({"late_failure"})
         /\ ~Caused({"foreign_release"})
  BY DEF FlagContext, StepOf, Settles, Step, LocalInv, Caused, FlagCause

LEMMA PickupLengths ==
  ASSUME TypeOK
  PROVE  Len(pickups) \in Nat /\ DOMAIN pickups = 1..Len(pickups)
  BY Lengths

\* before the draft is created nobody is at the pickup but its run
LEMMA OrderingAlone ==
  ASSUME TypeOK, LocalInv, OneRun, AtRest, FlagTold, NEW p \in Process, Ordering(p)
  PROVE  /\ ~Settled /\ ~draft.pickup /\ draft.dispatch = NoCmd
         /\ \A q \in Process : /\ ~Collecting(q) /\ ~Alone(q)
                               /\ proc[q].op # "cancel_dispatch"
<1>1. ~Settled
  BY DEF OneRun, AtRest, Quiet, Ordering, Running, Settled
<1>2. ~draft.pickup /\ draft.dispatch = NoCmd
  BY <1>1 DEF FlagTold
<1>3. ASSUME NEW q \in Process
      PROVE  ~Collecting(q) /\ ~Alone(q) /\ proc[q].op # "cancel_dispatch"
  <2>1. ~Collecting(q)
    BY <1>1 DEF FlagTold, Settled
  <2>2. ~Alone(q)
    BY <2>1 DEF Alone, Collecting
  <2>3. proc[q].op # "cancel_dispatch"
    BY <1>2 DEF FlagTold, LocalInv, Local, CancelsPickup
  <2> QED  BY <2>1, <2>2, <2>3
<1> QED  BY <1>1, <1>2, <1>3

Mentions(p, c) == \/ proc[p].pcmd = c \/ proc[p].snap.dispatch = c
                  \/ proc[p].snap.pickupCommand = c

LEMMA MentionedBy ==
  ASSUME NEW c
  PROVE  Unmentioned(c) <=> /\ draft.pickupCommand # c /\ draft.dispatch # c
                            /\ \A p \in Process : ~Mentions(p, c)
  BY DEF Unmentioned, Mentions

\* no pickup is cancelled by the step, and none of those that exist changes
PickupsStay ==
    /\ \A c \in DOMAIN pickups : pickups'[c] = pickups[c]
    /\ \A c \in DOMAIN pickups' : pickups'[c] = "cancelled" => c \in DOMAIN pickups

\* a step that has nothing to do with the pickup of a created draft
LEMMA FlagKept ==
  ASSUME NEW p \in Process, FlagContext(p), SamePickup, PickupsStay,
         \/ draft'.status = draft.status
         \/ ~Settled
         \/ draft'.status = "cancelled" /\ \A q \in Process : ~Collecting(q),
         Collecting(p)' <=> Collecting(p), Alone(p)' => Alone(p),
         proc'[p].op = "cancel_dispatch" => draft'.dispatch = proc'[p].snap.dispatch,
         \A c \in DOMAIN pickups :
            CancellingPickup(p, c) => CancellingPickup(p, c)',
         \A c \in DOMAIN pickups : Unmentioned(c) => ~Mentions(p, c)'
  PROVE  FlagTold'
<1>1. \A q \in Process \ {p} : proc'[q] = proc[q]
  BY FlagFacts DEF Others
<1>2. \A q \in Process : /\ Collecting(q)' <=> Collecting(q)
                         /\ Alone(q)' => Alone(q)
  BY <1>1 DEF Collecting, Alone
<1>3. /\ draft'.pickup = draft.pickup /\ draft'.dispatch = draft.dispatch
      /\ draft'.pickupCommand = draft.pickupCommand
  BY DEF SamePickup, Collects
<1>4. ~Settled => ~draft.pickup /\ \A q \in Process : ~Collecting(q)
  BY FlagFacts DEF FlagTold, Settled
<1>5. \A q \in Process : Alone(q)' => /\ draft'.pickup /\ draft'.pickupCommand = NoCmd
                                      /\ draft'.dispatch = NoCmd
  BY <1>2, <1>3, FlagFacts DEF FlagTold
<1>6. \A q, r \in Process : Alone(q)' /\ Alone(r)' => q = r
  BY <1>2, FlagFacts DEF FlagTold
<1>7. \A q \in Process : Collecting(q)' => draft'.status = "created"
  BY <1>2, <1>4, FlagFacts DEF FlagTold
<1>8. draft'.pickup => Settled' /\ (draft'.dispatch # NoCmd
                                      \/ \E q \in Process : Collecting(q)')
  <2> SUFFICES ASSUME draft.pickup
               PROVE  Settled' /\ (draft.dispatch # NoCmd
                                     \/ \E q \in Process : Collecting(q))
    BY <1>2, <1>3
  <2>1. Settled /\ (draft.dispatch # NoCmd \/ \E q \in Process : Collecting(q))
    BY FlagFacts DEF FlagTold
  <2> QED  BY <2>1 DEF Settled
<1>9. \A q \in Process : proc'[q].op = "cancel_dispatch"
                            => draft'.dispatch = proc'[q].snap.dispatch
  BY <1>1, <1>3, FlagFacts DEF FlagTold
<1>10. \A c \in DOMAIN pickups, q \in Process :
          CancellingPickup(q, c) => CancellingPickup(q, c)'
  BY <1>1 DEF CancellingPickup
<1>11. draft'.dispatch # NoCmd =>
          \/ pickups'[draft'.dispatch] = "success"
          \/ \E q \in Process : CancellingPickup(q, draft.dispatch)'
  <2> SUFFICES ASSUME draft.dispatch # NoCmd
               PROVE  \/ pickups'[draft.dispatch] = "success"
                      \/ \E q \in Process : CancellingPickup(q, draft.dispatch)'
    BY <1>3
  <2>1. draft.dispatch \in DOMAIN pickups
    BY FlagFacts, PickupLengths, DraftFields DEF TypeOK, LocalInv, Exists, Cmd, NoCmd
  <2>2. CASE pickups[draft.dispatch] = "success"
    BY <2>1, <2>2 DEF PickupsStay
  <2>3. ASSUME NEW q \in Process, CancellingPickup(q, draft.dispatch)
        PROVE  CancellingPickup(q, draft.dispatch)'
    BY <1>3, <1>10, <2>1, <2>3 DEF CancellingPickup
  <2> QED  BY <2>2, <2>3, FlagFacts DEF FlagTold
<1>12. ASSUME NEW c \in DOMAIN pickups', pickups'[c] = "cancelled"
       PROVE  Unmentioned(c)' \/ \E q \in Process : CancellingPickup(q, c)'
  <2>1. c \in DOMAIN pickups /\ pickups[c] = "cancelled"
    BY <1>12 DEF PickupsStay
  <2>2. CASE Unmentioned(c)
    BY <1>1, <1>3, <2>1, <2>2 DEF Unmentioned, Mentions
  <2>3. CASE \E q \in Process : CancellingPickup(q, c)
    BY <1>10, <2>1, <2>3
  <2> QED  BY <2>1, <2>2, <2>3, FlagFacts DEF FlagTold
<1> QED  BY <1>3, <1>5, <1>6, <1>7, <1>8, <1>9, <1>11, <1>12, FlagFacts DEF FlagTold

(***************************************************************************)
(* What every step has, as far as pickups are concerned.                   *)
(***************************************************************************)
LEMMA RunOps ==
  ASSUME NEW p \in Process, StepOf(p), RunStep(p)
  PROVE  /\ proc[p].op \in {"execute", "confirm"}
         /\ proc'[p].op \in {"execute", "confirm"}
<1>1. Place(p)
  BY DEF StepOf, Settles, LocalInv, Local
<1>2. ASSUME NEW id \in BOOLEAN, Checkpoints(p, id)
      PROVE  proc[p].op \in {"execute", "confirm"} /\ proc'[p].op = proc[p].op
  BY <1>1, <1>2 DEF Checkpoints, Goes, Place, ParcelPc
<1>3. CASE Pends(p) \/ Finishes(p) \/ Errs(p)
  BY <1>1, <1>3, IdleFields DEF Pends, Finishes, Errs, Place, ParcelPc
<1>4. CASE Fails(p)
  <2>1. proc'[p].op = proc[p].op
    BY <1>4 DEF Fails, Moves, Goes
  <2>2. proc[p].op \in {"execute", "confirm"}
    BY <1>1, <1>4 DEF Fails, Place, ParcelPc, PickupPc
  <2> QED  BY <2>1, <2>2
<1>5. CASE Releases(p) \/ Claims(p)
  BY <1>1, <1>5 DEF Releases, Claims, Turns, Moves, Goes, IdleProc, Place
<1>6. CASE Proposes(p) \/ Resumes(p) \/ Creates(p) \/ Persists(p) \/ Waits(p)
             \/ Completes(p)
  <2>1. proc[p].pc \in {"proposal", "parcel", "persist", "wait"}
    BY <1>6 DEF Proposes, Resumes, Creates, Persists, Waits, Completes
  <2>2. proc'[p].op = proc[p].op
    BY <1>6 DEF Proposes, Resumes, Creates, Persists, Waits, Completes, Turns, Moves,
       Goes
  <2> QED  BY <1>1, <2>1, <2>2 DEF Place, ParcelPc
<1> QED  BY <1>2, <1>3, <1>4, <1>5, <1>6 DEF RunStep

\* a request names pickups that it, its snapshot or the draft has named before
MentionsOld(p) ==
    /\ proc'[p].pcmd \in {NoCmd, proc[p].pcmd, proc[p].snap.pickupCommand}
    /\ proc'[p].snap.dispatch \in {NoCmd, draft.dispatch, proc[p].snap.dispatch}
    /\ proc'[p].snap.pickupCommand
          \in {NoCmd, draft.pickupCommand, proc[p].snap.pickupCommand}

LEMMA OldIsNoMention ==
  ASSUME TypeOK, NEW p \in Process, MentionsOld(p)
  PROVE  \A c \in DOMAIN pickups : Unmentioned(c) => ~Mentions(p, c)'
<1>1. \A c \in DOMAIN pickups : c # NoCmd
  BY PickupLengths DEF NoCmd
<1> QED  BY <1>1 DEF MentionsOld, Unmentioned, Mentions

LEMMA SnapKeepsMentions ==
  ASSUME NEW p \in Process, proc'[p].snap = proc[p].snap,
         proc'[p].pcmd \in {NoCmd, proc[p].pcmd, proc[p].snap.pickupCommand}
  PROVE  MentionsOld(p)
  BY DEF MentionsOld

LEMMA IdleMentions ==
  ASSUME NEW p \in Process, proc'[p] = IdleProc \/ proc'[p] = [IdleProc EXCEPT !.pc = "release"]
  PROVE  MentionsOld(p)
  BY DEF MentionsOld, IdleProc, InitialDraft

LEMMA RunMentions ==
  ASSUME NEW p \in Process, StepOf(p), RunStep(p)
  PROVE  MentionsOld(p)
<1>1. ASSUME NEW id \in BOOLEAN, Checkpoints(p, id) PROVE MentionsOld(p)
  BY <1>1 DEF Checkpoints, Goes, Reships, MentionsOld
<1>2. CASE Pends(p) \/ Finishes(p) \/ Errs(p)
  BY <1>2, IdleMentions DEF Pends, Finishes, Errs
<1>3. CASE Releases(p)
  BY <1>3, IdleMentions, SnapKeepsMentions DEF Releases, Turns, Moves, Goes
<1>4. CASE Fails(p) \/ Claims(p)
  BY <1>4, SnapKeepsMentions DEF Fails, Claims, Turns, Moves, Goes
<1>5. CASE Proposes(p) \/ Resumes(p) \/ Creates(p) \/ Persists(p) \/ Waits(p)
  BY <1>5, SnapKeepsMentions
  DEF Proposes, Resumes, Creates, Persists, Waits, Turns, Moves, Goes
<1>6. CASE Completes(p)
  BY <1>6, SnapKeepsMentions DEF Completes, Turns, Moves, Goes
<1> QED  BY <1>1, <1>2, <1>3, <1>4, <1>5, <1>6 DEF RunStep

LEMMA PickupsSame ==
  ASSUME pickups' = pickups PROVE PickupsStay
  BY DEF PickupsStay

LEMMA NewPickupStays ==
  ASSUME TypeOK, TypeOK', LocalInv, Len(pickups) < MaxPickups,
         pickups' = Append(pickups, "pending")
  PROVE  /\ PickupsStay /\ Len(pickups) \in Nat
         /\ DOMAIN pickups' = DOMAIN pickups \cup {Len(pickups) + 1}
         /\ pickups'[Len(pickups) + 1] = "pending"
         /\ Len(pickups) + 1 \notin DOMAIN pickups
         /\ \A c \in Nat : c <= Len(pickups) => c # Len(pickups) + 1
<1>1. /\ Len(pickups') = Len(pickups) + 1
      /\ \A c \in 1..Len(pickups) : pickups'[c] = pickups[c]
      /\ pickups'[Len(pickups) + 1] = "pending"
  BY PickupOrderedGrows
<1>2. Len(pickups) \in Nat /\ DOMAIN pickups = 1..Len(pickups)
  BY PickupLengths
<1>3. DOMAIN pickups' = 1..(Len(pickups) + 1)
  BY <1>1, LenProperties DEF TypeOK
<1>4. 1..(Len(pickups) + 1) = (1..Len(pickups)) \cup {Len(pickups) + 1}
  BY <1>2
<1>5. PickupsStay
  BY <1>1, <1>2, <1>3, <1>4 DEF PickupsStay
<1> QED  BY <1>1, <1>2, <1>3, <1>4, <1>5

\* a run's step, short of its end, is none of the pickup's
LEMMA FlagRuns ==
  ASSUME NEW p \in Process, FlagContext(p), RunStep(p), ~Finishes(p)
  PROVE  FlagTold'
<1>1. /\ proc[p].op \in {"execute", "confirm"}
      /\ proc'[p].op \in {"execute", "confirm"}
  BY FlagFacts, RunOps
<1>2. /\ Collecting(p)' <=> Collecting(p)
      /\ Alone(p)' => Alone(p)
      /\ proc'[p].op # "cancel_dispatch"
      /\ \A c \in DOMAIN pickups : ~CancellingPickup(p, c)
  BY <1>1 DEF Collecting, Alone, CancellingPickup
<1>3. \A c \in DOMAIN pickups : Unmentioned(c) => ~Mentions(p, c)'
  BY FlagFacts, RunMentions, OldIsNoMention
<1>4. pickups' = pickups
  <2>1. ASSUME NEW id \in BOOLEAN, Checkpoints(p, id) PROVE pickups' = pickups
    BY <2>1 DEF Checkpoints, SameAllegro
  <2> QED  BY <2>1 DEF RunStep, Fails, Releases, Errs, Claims, Proposes, Resumes,
              Creates, Persists, Waits, Completes, Pends, Finishes, SameAllegro
<1>5. ASSUME SamePickup, draft'.status = draft.status \/ ~Settled PROVE FlagTold'
  BY <1>2, <1>3, <1>4, <1>5, PickupsSame, FlagKept
<1>6. CASE draft' = draft
  BY <1>5, <1>6 DEF SamePickup, Collects
<1>7. CASE Errs(p)
  BY <1>5, <1>7, FlagFacts DEF Errs, Settled
<1>8. CASE Claims(p)
  BY <1>5, <1>8 DEF Claims, EXECUTABLE_STATES, Settled
<1>9. CASE Persists(p) \/ Pends(p)
  <2>1. Ordering(p)
    BY <1>1, <1>9 DEF Persists, Pends, Ordering, Running
  <2>2. ~Settled /\ draft.pickup = FALSE
    BY <2>1, FlagFacts, OrderingAlone
  <2>3. SamePickup
    BY <1>9, <2>2 DEF Persists, Pends, SamePickup, Collects
  <2> QED  BY <1>5, <2>2, <2>3
<1>10. ASSUME NEW id \in BOOLEAN, Checkpoints(p, id) PROVE FlagTold'
  BY <1>5, <1>10 DEF Checkpoints, Orders
<1> QED  BY <1>6, <1>7, <1>8, <1>9, <1>10 DEF RunStep, Fails, Releases, Proposes,
            Resumes, Creates, Waits, Completes, SameDraft

\* a cancelled pickup is mentioned only where a request cancels it
LEMMA MentionedIsCancelled ==
  ASSUME TypeOK, LocalInv, FlagTold, NEW p \in Process, proc[p].pcmd # NoCmd,
         pickups[proc[p].pcmd] = "cancelled"
  PROVE  \E q \in Process : CancellingPickup(q, proc[p].pcmd)
<1>1. proc[p].pcmd \in DOMAIN pickups
  BY PickupLengths, ProcFields DEF LocalInv, Local, OrdersPickup, Cmd, NoCmd
<1> QED  BY <1>1 DEF FlagTold, Unmentioned

\* nobody is at the pickup when a run ends
LEMMA FlagFinishes ==
  ASSUME NEW p \in Process, FlagContext(p), Finishes(p)
  PROVE  FlagTold'
<1>1. /\ proc[p].pc = "finish" /\ proc'[p].op = "execute" /\ proc'[p].pcmd = NoCmd
      /\ proc'[p].snap.dispatch = NoCmd /\ proc'[p].snap.pickupCommand = NoCmd
      /\ pickups' = pickups /\ draft'.status = "created"
      /\ draft'.pickup = (proc[p].outcome = "success")
      /\ draft'.dispatch = IF proc[p].outcome = "success" THEN proc[p].pcmd ELSE NoCmd
      /\ draft'.pickupCommand \in {proc[p].pcmd, NoCmd}
  BY IdleFields DEF Finishes, SameAllegro, Orders, Collects, InitialDraft
<1>2. proc[p].outcome = "success" =>
        proc[p].pcmd # NoCmd /\ pickups[proc[p].pcmd] \in {"success", "cancelled"}
  BY <1>1, FlagFacts DEF Local, OrdersPickup
<1>3. Ordering(p)
  BY <1>1, FlagFacts DEF Local, Place, Ordering, Running
<1>4. \A q \in Process : ~Collecting(q) /\ ~Alone(q) /\ proc[q].op # "cancel_dispatch"
  BY <1>3, FlagFacts, OrderingAlone
<1>5. \A q \in Process : ~Collecting(q)' /\ ~Alone(q)' /\ proc'[q].op # "cancel_dispatch"
  BY <1>1, <1>4, FlagFacts DEF Others, Collecting, Alone
<1>6. proc[p].outcome = "success" => pickups[proc[p].pcmd] = "success"
  BY <1>2, <1>4, FlagFacts, MentionedIsCancelled DEF CancellingPickup
<1>7. ASSUME NEW c \in DOMAIN pickups, pickups[c] = "cancelled"
      PROVE  Unmentioned(c)'
  <2>1. Unmentioned(c) /\ c # NoCmd
    BY <1>4, <1>7, FlagFacts, PickupLengths DEF FlagTold, CancellingPickup, NoCmd
  <2> QED  BY <1>1, <2>1, FlagFacts DEF Unmentioned, Others
<1> QED  BY <1>1, <1>2, <1>5, <1>6, <1>7 DEF FlagTold, Settled

LEMMA FlagClaimsPickup ==
  ASSUME NEW p \in Process, FlagContext(p), ClaimsPickup(p)
  PROVE  FlagTold'
<1> DEFINE resumed == proc[p].snap.pickupCommand
<1>1. /\ proc[p].pc = "claim_pickup" /\ ~draft.pickup
      /\ proc'[p].pc = (IF resumed = NoCmd THEN "propose" ELSE "pickup_status")
      /\ proc'[p].op = proc[p].op /\ proc'[p].snap = proc[p].snap
      /\ proc'[p].pcmd = resumed /\ pickups' = pickups
      /\ draft'.status = draft.status /\ draft'.pickup = TRUE
      /\ draft'.pickupCommand = draft.pickupCommand
      /\ draft'.dispatch = draft.dispatch
      /\ draft.pickupCommand = resumed /\ draft.status = "created"
  BY FlagFacts DEF ClaimsPickup, Moves, Goes, SameOrder, Orders, Collects, SameAllegro
<1>2. proc[p].op = "pickup"
  BY <1>1, FlagFacts DEF Local, Place
<1>3. draft.dispatch = NoCmd /\ \A q \in Process : ~Alone(q)
  BY <1>1, FlagFacts DEF FlagTold
<1>4. \A q \in Process \ {p} : proc'[q] = proc[q]
  BY FlagFacts DEF Others
<1>5. /\ Collecting(p)'
      /\ Alone(p)' => draft.pickupCommand = NoCmd
      /\ \A q \in Process \ {p} : ~Alone(q)'
  BY <1>1, <1>2, <1>3, <1>4 DEF Collecting, Alone
<1>6. \A q \in Process : proc'[q].op = "cancel_dispatch"
                            => draft'.dispatch = proc'[q].snap.dispatch
  BY <1>1, <1>2, <1>4, FlagFacts DEF FlagTold
<1>7. ASSUME NEW c \in DOMAIN pickups, pickups[c] = "cancelled"
      PROVE  Unmentioned(c)' \/ \E q \in Process : CancellingPickup(q, c)'
  <2>1. CASE Unmentioned(c)
    BY <1>1, <1>4, <2>1 DEF Unmentioned
  <2>2. ASSUME NEW q \in Process, CancellingPickup(q, c) PROVE CancellingPickup(q, c)'
    BY <1>2, <1>4, <2>2 DEF CancellingPickup
  <2> QED  BY <1>7, <2>1, <2>2, FlagFacts DEF FlagTold
<1>8. \A q \in Process : Alone(q)' => /\ draft'.pickup /\ draft'.pickupCommand = NoCmd
                                      /\ draft'.dispatch = NoCmd
  BY <1>1, <1>3, <1>5
<1>9. \A q, r \in Process : Alone(q)' /\ Alone(r)' => q = r
  BY <1>5
<1>10. draft'.status = "created" /\ draft'.dispatch = NoCmd
  BY <1>1, <1>3
<1>11. draft'.pickup => Settled' /\ (draft'.dispatch # NoCmd
                                       \/ \E q \in Process : Collecting(q)')
  BY <1>5, <1>10 DEF Settled
<1> HIDE DEF resumed
<1> QED  BY <1>1, <1>6, <1>7, <1>8, <1>9, <1>10, <1>11 DEF FlagTold

LEMMA FlagLearns ==
  ASSUME NEW p \in Process, FlagContext(p),
         Learns(p) \/ CreatesPickup(p) \/ LosesPickup(p) \/ GivesBack(p)
  PROVE  FlagTold'
<1>1. /\ draft' = draft /\ proc'[p].op = proc[p].op /\ proc'[p].snap = proc[p].snap
      /\ proc[p].pc \in {"propose", "pickup_status", "persist_pickup", "unpickup"}
      /\ proc'[p].pc \in {"finish", "unpickup", "persist_pickup"}
  BY DEF Learns, CreatesPickup, LosesPickup, GivesBack, Moves, Goes, SameDraft
<1>2. proc[p].op \in {"execute", "pickup"}
  BY <1>1, FlagFacts DEF Local, Place, PickupPc
<1>3. /\ PickupsStay
      /\ pickups' # pickups => Len(pickups) + 1 \notin DOMAIN pickups
  <2>1. CASE pickups' = pickups
    BY <2>1, PickupsSame
  <2>2. CASE pickups' # pickups
    BY <2>2, FlagFacts, NewPickupStays
    DEF Learns, CreatesPickup, LosesPickup, GivesBack, SameAllegro
  <2> QED  BY <2>1, <2>2
<1>4. \A c \in DOMAIN pickups : Unmentioned(c) => ~Mentions(p, c)'
  <2>1. CASE CreatesPickup(p)
    <3>1. proc'[p].pcmd = Len(pickups) + 1 /\ Len(pickups) + 1 \notin DOMAIN pickups
      BY <2>1, FlagFacts, NewPickupStays DEF CreatesPickup, Moves, Goes
    <3> QED  BY <1>1, <3>1 DEF Unmentioned, Mentions
  <2>2. CASE ~CreatesPickup(p)
    <3>1. proc'[p].pcmd \in {NoCmd, proc[p].pcmd}
      BY <2>2 DEF Learns, LosesPickup, GivesBack, Moves, Goes
    <3> QED  BY <1>1, <3>1, FlagFacts, SnapKeepsMentions, OldIsNoMention
  <2> QED  BY <2>1, <2>2
<1>5. Collecting(p)' <=> Collecting(p)
  BY <1>1 DEF Collecting
<1>6. Alone(p)' => Alone(p)
  <2>1. CASE Learns(p)
    <3>1. proc'[p].pcmd = proc[p].pcmd /\ proc[p].pc \in {"propose", "pickup_status"}
      BY <2>1 DEF Learns, Moves, Goes
    <3>2. proc[p].pc = "pickup_status" => proc[p].pcmd # NoCmd
      BY FlagFacts DEF Local, OrdersPickup
    <3> QED  BY <1>1, <2>1, <3>1, <3>2 DEF Learns, Moves, Goes, Alone
  <2>2. CASE CreatesPickup(p) \/ LosesPickup(p)
    BY <2>2 DEF CreatesPickup, LosesPickup, Moves, Goes, Alone
  <2>3. CASE GivesBack(p)
    BY <2>3 DEF GivesBack, Moves, Goes, Alone
  <2> QED  BY <2>1, <2>2, <2>3
<1>7. /\ proc'[p].op # "cancel_dispatch"
      /\ \A c \in DOMAIN pickups : ~CancellingPickup(p, c)
  BY <1>1, <1>2 DEF CancellingPickup
<1>8. SamePickup
  BY <1>1 DEF SamePickup, Collects
<1> QED  BY <1>1, <1>3, <1>4, <1>5, <1>6, <1>7, <1>8, FlagKept

\* the pickup command of a run, or of the request that alone ordered it
LEMMA FlagPersists ==
  ASSUME NEW p \in Process, FlagContext(p), PersistsPickup(p)
  PROVE  FlagTold'
<1>1. /\ proc[p].pc = "persist_pickup" /\ proc'[p].pc = "pickup_status"
      /\ proc'[p].op = proc[p].op /\ proc'[p].snap = proc[p].snap
      /\ proc'[p].pcmd = proc[p].pcmd /\ pickups' = pickups
      /\ draft'.status = draft.status /\ draft'.dispatch = NoCmd
      /\ draft'.pickupCommand = proc[p].pcmd
      /\ draft'.pickup = IF proc[p].op = "pickup" THEN FALSE ELSE draft.pickup
  BY DEF PersistsPickup, Turns, Moves, Goes, SameOrder, Orders, Collects, SameAllegro
<1>2. proc[p].op \in {"execute", "pickup"}
  BY <1>1, FlagFacts DEF Local, Place, PickupPc
<1>3. draft.dispatch = NoCmd /\ draft'.pickup = FALSE
      /\ \A q \in Process \ {p} : ~Alone(q)
  <2>1. CASE proc[p].op = "pickup"
    BY <1>1, <2>1, FlagFacts DEF Alone, FlagTold
  <2>2. CASE proc[p].op = "execute"
    <3>1. Ordering(p)
      BY <1>1, <2>2 DEF Ordering, Running
    <3> QED  BY <1>1, <2>2, <3>1, FlagFacts, OrderingAlone
  <2> QED  BY <1>2, <2>1, <2>2
<1>4. \A q \in Process \ {p} : proc'[q] = proc[q]
  BY FlagFacts DEF Others
<1>5. \A q \in Process : ~Alone(q)'
  BY <1>1, <1>3, <1>4 DEF Alone
<1>6. \A q \in Process : /\ Collecting(q)' => draft'.status = "created"
                         /\ proc'[q].op = "cancel_dispatch"
                               => draft'.dispatch = proc'[q].snap.dispatch
  <2>1. Collecting(p)' => Collecting(p)
    BY <1>1 DEF Collecting
  <2> QED  BY <1>1, <1>2, <1>3, <1>4, <2>1, FlagFacts DEF FlagTold, Collecting
<1>7. ASSUME NEW c \in DOMAIN pickups, pickups[c] = "cancelled"
      PROVE  Unmentioned(c)' \/ \E q \in Process : CancellingPickup(q, c)'
  <2>1. CASE Unmentioned(c)
    <3>1. c # NoCmd
      BY FlagFacts, PickupLengths DEF NoCmd
    <3> QED  BY <1>1, <1>4, <2>1, <3>1 DEF Unmentioned
  <2>2. ASSUME NEW q \in Process, CancellingPickup(q, c) PROVE CancellingPickup(q, c)'
    BY <1>2, <1>4, <2>2 DEF CancellingPickup
  <2> QED  BY <1>7, <2>1, <2>2, FlagFacts DEF FlagTold
<1> QED  BY <1>1, <1>3, <1>5, <1>6, <1>7 DEF FlagTold

\* what a request has learnt is written over what it had found
LEMMA FlagWritesPickup ==
  ASSUME NEW p \in Process, FlagContext(p), WritesPickup(p)
  PROVE  FlagTold'
<1> DEFINE booked == proc[p].outcome = "success"
<1>1. /\ proc[p].pc = "unpickup" /\ ~Overtaken(p) /\ pickups' = pickups
      /\ proc'[p].op = "execute" /\ proc'[p].pc = "idle" /\ proc'[p].pcmd = NoCmd
      /\ proc'[p].snap.dispatch = NoCmd /\ proc'[p].snap.pickupCommand = NoCmd
      /\ draft'.status = draft.status
  BY FlagFacts, IdleFields DEF WritesPickup, SameAllegro, SameOrder, Orders, InitialDraft
<1>2. /\ proc[p].op = "pickup" /\ Collecting(p) /\ draft.status = "created"
      /\ proc[p].outcome \in {"pending", "success", "over"} => proc[p].pcmd # NoCmd
      /\ booked => pickups[proc[p].pcmd] \in {"success", "cancelled"}
      /\ proc[p].pcmd = NoCmd => Alone(p)
  <2>1. proc[p].op = "pickup"
    BY <1>1, FlagFacts DEF Local, Place
  <2> QED  BY <1>1, <2>1, FlagFacts DEF Local, OrdersPickup, FlagTold, Collecting, Alone
<1>3. \/ draft.pickupCommand = proc[p].pcmd /\ draft.dispatch = NoCmd
      \/ booked /\ draft.pickupCommand = NoCmd /\ draft.dispatch = proc[p].pcmd
  <2>1. draft.pickupCommand = proc[p].pcmd \/ (booked /\ draft.dispatch = proc[p].pcmd)
    BY <1>1 DEF Overtaken
  <2>2. draft.dispatch = NoCmd \/ draft.pickupCommand = NoCmd
    BY FlagFacts DEF LocalInv
  <2>3. CASE proc[p].pcmd = NoCmd
    BY <1>2, <2>3, FlagFacts DEF FlagTold
  <2> QED  BY <1>2, <2>1, <2>2, <2>3
<1>4. /\ draft'.pickup = booked
      /\ draft'.dispatch = (IF booked THEN proc[p].pcmd ELSE NoCmd)
      /\ draft'.pickupCommand \in {proc[p].pcmd, NoCmd}
  BY <1>3 DEF WritesPickup, Collects
<1>5. \A q \in Process : ~Alone(q)'
  <2>1. ASSUME NEW q \in Process, Alone(q) PROVE q = p
    <3>1. draft.pickupCommand = NoCmd /\ draft.dispatch = NoCmd
      BY <2>1, FlagFacts DEF FlagTold
    <3> QED  BY <1>2, <1>3, <2>1, <3>1, FlagFacts DEF FlagTold
  <2> QED  BY <1>1, <2>1, FlagFacts DEF Others, Alone
<1>6. \A q \in Process : proc'[q].op = "cancel_dispatch"
                            => draft'.dispatch = proc'[q].snap.dispatch
  <2>1. ASSUME NEW q \in Process, q # p, proc[q].op = "cancel_dispatch"
        PROVE  draft'.dispatch = proc[q].snap.dispatch
    <3>1. proc[q].snap.dispatch # NoCmd /\ draft.dispatch = proc[q].snap.dispatch
      BY <2>1, FlagFacts DEF FlagTold, LocalInv, Local, CancelsPickup
    <3> QED  BY <1>3, <1>4, <3>1
  <2> QED  BY <1>1, <2>1, FlagFacts DEF Others
<1>7. booked => \/ pickups'[proc[p].pcmd] = "success"
                \/ \E q \in Process : /\ proc'[q].op = "cancel_dispatch"
                                      /\ proc'[q].pc = "cancelled"
                                      /\ proc'[q].snap.dispatch = proc[p].pcmd
  <2> SUFFICES ASSUME booked, pickups[proc[p].pcmd] = "cancelled"
               PROVE  \E q \in Process : /\ proc'[q].op = "cancel_dispatch"
                                         /\ proc'[q].pc = "cancelled"
                                         /\ proc'[q].snap.dispatch = proc[p].pcmd
    BY <1>1, <1>2
  <2>1. proc[p].pcmd # NoCmd
    BY <1>2
  <2>2. PICK q \in Process : CancellingPickup(q, proc[p].pcmd)
    BY <2>1, FlagFacts, MentionedIsCancelled
  <2>3. q # p
    BY <1>1, <2>2 DEF CancellingPickup
  <2> QED  BY <2>2, <2>3, FlagFacts DEF CancellingPickup, Others
<1>8. ASSUME NEW c \in DOMAIN pickups, pickups[c] = "cancelled"
      PROVE  Unmentioned(c)' \/ \E q \in Process : CancellingPickup(q, c)'
  <2>1. CASE Unmentioned(c)
    <3>1. c # NoCmd
      BY FlagFacts, PickupLengths DEF NoCmd
    <3>2. proc[p].pcmd # c
      BY <2>1 DEF Unmentioned
    <3>3. draft'.pickupCommand # c /\ draft'.dispatch # c
      BY <1>4, <3>1, <3>2
    <3>4. \A q \in Process : /\ proc'[q].pcmd # c /\ proc'[q].snap.dispatch # c
                             /\ proc'[q].snap.pickupCommand # c
      BY <1>1, <2>1, <3>1, FlagFacts DEF Unmentioned, Others
    <3> QED  BY <3>3, <3>4 DEF Unmentioned
  <2>2. ASSUME NEW q \in Process, CancellingPickup(q, c) PROVE CancellingPickup(q, c)'
    BY <1>1, <1>2, <2>2, FlagFacts DEF Others, CancellingPickup
  <2> QED  BY <1>8, <2>1, <2>2, FlagFacts DEF FlagTold
<1>9. /\ draft'.dispatch # NoCmd => draft'.pickup
      /\ draft'.pickup => Settled' /\ draft'.dispatch # NoCmd
      /\ draft'.dispatch # NoCmd =>
             \/ pickups'[draft'.dispatch] = "success"
             \/ \E q \in Process : CancellingPickup(q, draft.dispatch)'
  <2>1. draft'.dispatch # NoCmd => booked /\ draft'.dispatch = proc[p].pcmd
    BY <1>4
  <2>2. draft'.pickup => Settled' /\ draft'.dispatch # NoCmd
    BY <1>1, <1>2, <1>4 DEF Settled
  <2>3. ASSUME draft'.dispatch # NoCmd
        PROVE  \/ pickups'[draft'.dispatch] = "success"
               \/ \E q \in Process : CancellingPickup(q, draft.dispatch)'
    BY <1>7, <2>1, <2>3 DEF CancellingPickup
  <2> QED  BY <1>4, <2>1, <2>2, <2>3
<1> HIDE DEF booked
<1> QED  BY <1>1, <1>2, <1>5, <1>6, <1>8, <1>9 DEF FlagTold, Collecting

\* requests that begin, that end, and those about shipments and plans
LEMMA FlagOthers ==
  ASSUME NEW p \in Process, FlagContext(p),
         Starts(p) \/ Stops(p) \/ CancelsOne(p) \/ Saves(p)
  PROVE  FlagTold'
<1>1. /\ pickups' = pickups /\ SamePickup
      /\ draft'.status = draft.status \/ ~Settled
  BY FlagFacts DEF Starts, Stops, CancelsOne, Saves, SameAllegro, SameDraft, SameOrder,
     SamePickup, Orders, Collects, Settled
<1>2. ~Collecting(p) /\ \A c \in DOMAIN pickups : ~CancellingPickup(p, c)
  <2>1. CASE Starts(p)
    BY <2>1, FlagFacts DEF Starts, Local, Place, Collecting, CancellingPickup
  <2>2. CASE Stops(p)
    <3>1. proc[p].pc \notin {"propose", "persist_pickup", "pickup_status",
                              "unpickup", "finish", "cancelled"}
      BY <2>2, FlagFacts DEF Stops
    <3>2. proc[p].op = "pickup" => proc[p].pc = "claim_pickup"
      BY <3>1, FlagFacts, ProcFields DEF Local, Place, ParcelPc, Pc
    <3> QED  BY <3>1, <3>2 DEF Collecting, CancellingPickup
  <2>3. CASE CancelsOne(p)
    BY <2>3 DEF CancelsOne, Collecting, CancellingPickup
  <2>4. CASE Saves(p)
    BY <2>4, FlagFacts DEF Saves, Local, Place, Collecting, CancellingPickup
  <2> QED  BY <2>1, <2>2, <2>3, <2>4
<1>3. /\ ~Collecting(p)' /\ ~Alone(p)'
      /\ proc'[p].op = "cancel_dispatch" => draft'.dispatch = proc'[p].snap.dispatch
  <2>1. CASE Starts(p)
    BY <2>1 DEF Starts, Asked, SameDraft, Collecting, Alone
  <2>2. CASE Stops(p) \/ Saves(p)
    BY <2>2, IdleFields DEF Stops, Saves, Collecting, Alone
  <2>3. CASE CancelsOne(p)
    BY <2>3 DEF CancelsOne, Goes, Collecting, Alone
  <2> QED  BY <2>1, <2>2, <2>3
<1>4. MentionsOld(p)
  <2>1. CASE Starts(p)
    BY <2>1 DEF Starts, MentionsOld
  <2>2. CASE Stops(p) \/ Saves(p)
    BY <2>2, IdleMentions DEF Stops, Saves
  <2>3. CASE CancelsOne(p)
    BY <2>3 DEF CancelsOne, Goes, Reships, MentionsOld
  <2> QED  BY <2>1, <2>2, <2>3
<1>5. \A c \in DOMAIN pickups : Unmentioned(c) => ~Mentions(p, c)'
  BY <1>4, FlagFacts, OldIsNoMention
<1> QED  BY <1>1, <1>2, <1>3, <1>5, PickupsSame, FlagKept

\* the pickup a request cancels is the draft's
LEMMA FlagCancelsCollection ==
  ASSUME NEW p \in Process, FlagContext(p), CancelsCollection(p)
  PROVE  FlagTold'
<1>1. PICK d : d = proc[p].snap.dispatch
  OBVIOUS
<1>2. /\ proc[p].op = "cancel_dispatch" /\ proc[p].pc = "cancel" /\ draft' = draft
      /\ proc'[p].op = proc[p].op /\ proc'[p].pc = "cancelled"
      /\ proc'[p].snap = proc[p].snap /\ proc'[p].pcmd = proc[p].pcmd
      /\ pickups' = [pickups EXCEPT ![d] = "cancelled"]
  BY <1>1 DEF CancelsCollection, Turns, Moves, Goes, SameDraft
<1>3. d # NoCmd /\ draft.dispatch = d
  BY <1>1, <1>2, FlagFacts DEF FlagTold, Local, CancelsPickup
<1>4. CancellingPickup(p, d)'
  BY <1>1, <1>2 DEF CancellingPickup
<1>5. \A q \in Process : ~Alone(q) /\ ~Alone(q)'
  <2>1. \A q \in Process : ~Alone(q)
    BY <1>3, FlagFacts DEF FlagTold
  <2> QED  BY <1>2, <2>1, FlagFacts DEF Others, Alone
<1>6. \A q \in Process : Collecting(q)' <=> Collecting(q)
  BY <1>2, FlagFacts DEF Others, Collecting
<1>7. \A q \in Process : proc'[q].op = "cancel_dispatch"
                            => draft'.dispatch = proc'[q].snap.dispatch
  BY <1>2, FlagFacts DEF Others, FlagTold
<1>8. ASSUME NEW c \in DOMAIN pickups', pickups'[c] = "cancelled"
      PROVE  Unmentioned(c)' \/ \E q \in Process : CancellingPickup(q, c)'
  <2>1. CASE c = d
    BY <1>4, <2>1
  <2>2. CASE c # d
    <3>1. c \in DOMAIN pickups /\ pickups[c] = "cancelled"
      BY <1>2, <1>8, <2>2
    <3>2. CASE Unmentioned(c)
      BY <1>2, <3>2, FlagFacts DEF Unmentioned, Others
    <3>3. ASSUME NEW q \in Process, CancellingPickup(q, c)
          PROVE  CancellingPickup(q, c)'
      BY <1>2, <3>3, FlagFacts DEF Others, CancellingPickup
    <3> QED  BY <3>1, <3>2, <3>3, FlagFacts DEF FlagTold
  <2> QED  BY <2>1, <2>2
<1>9. \E q \in Process : CancellingPickup(q, draft.dispatch)'
  BY <1>2, <1>3, <1>4 DEF CancellingPickup
<1>10. /\ draft'.dispatch # NoCmd => draft'.pickup
       /\ draft'.pickup => Settled' /\ (draft'.dispatch # NoCmd
                                          \/ \E q \in Process : Collecting(q)')
       /\ \A q \in Process : Collecting(q)' => draft'.status = "created"
  BY <1>2, <1>3, <1>6, FlagFacts DEF FlagTold, Settled
<1> QED  BY <1>5, <1>7, <1>8, <1>9, <1>10 DEF FlagTold

\* a request that says it has cancelled had the draft for itself
LEMMA FlagSaysCancelled ==
  ASSUME NEW p \in Process, FlagContext(p), SaysCancelled(p)
  PROVE  FlagTold'
<1>1. /\ proc[p].pc = "cancelled" /\ proc'[p] = IdleProc /\ pickups' = pickups
      /\ \A q \in Process \ {p} : proc[q].pc = "idle"
  BY FlagFacts DEF SaysCancelled, SameAllegro, Raced, Caused
<1>2. \A q \in Process : proc'[q] = IdleProc
  BY <1>1, FlagFacts DEF Others, LocalInv, Local
<1>3. \A q \in Process : /\ ~Collecting(q)' /\ ~Alone(q)' /\ ~Collecting(q)
                         /\ proc'[q].op # "cancel_dispatch"
  <2>1. proc[p].op \in {"cancel_shipment", "cancel_dispatch"}
    BY <1>1, FlagFacts DEF Local, Place
  <2>2. \A q \in Process \ {p} : proc[q].op = "execute"
    BY <1>1, FlagFacts DEF LocalInv, Local, Place
  <2> QED  BY <1>2, <2>1, <2>2 DEF Collecting, Alone, IdleProc
<1>4. CASE proc[p].op = "cancel_shipment"
  <2>1. SamePickup /\ draft'.status = "cancelled"
    BY <1>4 DEF SaysCancelled, Orders
  <2>2. \A c \in DOMAIN pickups : Unmentioned(c) => ~Mentions(p, c)'
    BY <1>1, FlagFacts, IdleMentions, OldIsNoMention
  <2>3. \A c \in DOMAIN pickups : ~CancellingPickup(p, c)
    BY <1>4 DEF CancellingPickup
  <2> QED  BY <1>1, <1>3, <2>1, <2>2, <2>3, PickupsSame, FlagKept
<1>5. CASE proc[p].op # "cancel_shipment"
  <2>1. draft.dispatch # NoCmd /\ draft.pickupCommand = NoCmd
    BY <1>1, <1>5, FlagFacts DEF FlagTold, Local, Place, CancelsPickup, LocalInv
  <2>2. ~draft'.pickup /\ draft'.dispatch = NoCmd /\ draft'.pickupCommand = NoCmd
    BY <1>5, <2>1 DEF SaysCancelled, Collects
  <2>3. \A c \in DOMAIN pickups' : Unmentioned(c)'
    <3>1. \A c \in DOMAIN pickups' : c # NoCmd
      BY <1>1, FlagFacts, PickupLengths DEF NoCmd
    <3> QED  BY <1>2, <2>2, <3>1 DEF Unmentioned, IdleProc, InitialDraft
  <2> QED  BY <1>3, <2>2, <2>3 DEF FlagTold
<1> QED  BY <1>4, <1>5

LEMMA FlagAnswers ==
  ASSUME TypeOK, LocalInv, FlagTold, CommandAnswered \/ PickupAnswered
  PROVE  FlagTold'
<1>1. draft' = draft /\ proc' = proc
  BY DEF CommandAnswered, PickupAnswered, SameDraft
<1>2. /\ DOMAIN pickups' = DOMAIN pickups
      /\ \A c \in DOMAIN pickups : /\ pickups'[c] = "cancelled" => pickups[c] = "cancelled"
                                   /\ pickups[c] = "success" => pickups'[c] = "success"
  BY DEF CommandAnswered, PickupAnswered
<1>3. draft.dispatch # NoCmd => draft.dispatch \in DOMAIN pickups
  BY PickupLengths, DraftFields DEF TypeOK, LocalInv, Exists, Cmd, NoCmd
<1>4. /\ \A q \in Process : /\ Alone(q)' <=> Alone(q)
                            /\ Collecting(q)' <=> Collecting(q)
      /\ Settled' <=> Settled
      /\ \A c : Unmentioned(c)' <=> Unmentioned(c)
      /\ \A q \in Process : \A c : CancellingPickup(q, c)' <=> CancellingPickup(q, c)
  BY <1>1 DEF Alone, Collecting, Settled, Unmentioned, CancellingPickup
<1>5. /\ draft'.dispatch # NoCmd =>
            \/ pickups'[draft'.dispatch] = "success"
            \/ \E q \in Process : CancellingPickup(q, draft.dispatch)'
      /\ \A c \in DOMAIN pickups' : pickups'[c] = "cancelled" =>
            Unmentioned(c)' \/ \E q \in Process : CancellingPickup(q, c)'
  BY <1>1, <1>2, <1>3, <1>4 DEF FlagTold, CancellingPickup
<1> QED  BY <1>1, <1>4, <1>5 DEF FlagTold

LEMMA FlagNext ==
  ASSUME TypeOK, LocalInv, RunInv, CancelInv, FlagInv, Next
  PROVE  FlagInv'
<1>1. Settles /\ ((\E p \in Process : StepOf(p)) \/ CommandAnswered \/ PickupAnswered)
  BY NextSettles
<1>2. SUFFICES ASSUME ~Caused(FlagCause) PROVE FlagTold'
  BY DEF FlagInv, Caused, Excused
<1>3. /\ ~Excused(FlagCause) /\ ~Excused({"second_run"}) /\ ~Excused({"cancel_raced"})
  BY <1>1, <1>2 DEF Settles, Caused, Excused, FlagCause
<1>4. OneRun /\ AtRest /\ FlagTold
  BY <1>3 DEF RunInv, CancelInv, FlagInv
<1>5. ASSUME NEW p \in Process, StepOf(p) PROVE FlagTold'
  <2>1. FlagContext(p)
    BY <1>2, <1>4, <1>5 DEF FlagContext
  <2>2. RunStep(p) => FlagTold'
    BY <2>1, FlagRuns, FlagFinishes
  <2>3. PickupStep(p) => FlagTold'
    BY <2>1, FlagClaimsPickup, FlagLearns, FlagPersists, FlagWritesPickup DEF PickupStep
  <2>4. OtherStep(p) => FlagTold'
    BY <2>1, FlagOthers, FlagCancelsCollection, FlagSaysCancelled DEF OtherStep
  <2> QED  BY <1>5, <2>2, <2>3, <2>4 DEF StepOf, Step
<1> QED  BY <1>1, <1>4, <1>5, FlagAnswers

\* what FlagInv says is what the operator sees
LEMMA FlagHolds ==
  ASSUME FlagInv PROVE PickupIsOrdered
<1>1. CASE Excused(FlagCause)
  BY <1>1 DEF PickupIsOrdered, FlagCause
<1>2. CASE FlagTold
  <2> SUFFICES ASSUME draft.pickup
               PROVE  \/ draft.dispatch # NoCmd /\ pickups[draft.dispatch] = "success"
                      \/ \E p \in Process : proc[p].op \in {"pickup", "cancel_dispatch"}
    BY DEF PickupIsOrdered
  <2>1. CASE draft.dispatch # NoCmd
    BY <1>2, <2>1 DEF FlagTold, CancellingPickup
  <2>2. CASE \E p \in Process : Collecting(p)
    BY <2>2 DEF Collecting
  <2> QED  BY <1>2, <2>1, <2>2 DEF FlagTold
<1> QED  BY <1>1, <1>2 DEF FlagInv

-----------------------------------------------------------------------------
(***************************************************************************)
(* PickupInv.                                                              *)
(***************************************************************************)
PickupContext(p) == FlagContext(p) /\ PickupsFound /\ ~Caused({"lost_answer"})

Holds(p, c) == proc[p].pc = "persist_pickup" /\ proc[p].pcmd = c

LEMMA BookingPlace ==
  ASSUME TypeOK, NEW p \in Process, Local(p), proc[p].pcmd # NoCmd
  PROVE  proc[p].pc \in {"persist_pickup", "pickup_status", "finish", "fail", "unpickup"}
  BY DEF Local, OrdersPickup, PickupPc

\* a run that books a pickup is the only one, and has the draft for itself
LEMMA BookingAlone ==
  ASSUME TypeOK, LocalInv, OneRun, AtRest, FlagTold, PickupsFound, NEW p \in Process,
         Booking(p)
  PROVE  /\ ~Settled /\ draft.dispatch = NoCmd /\ Ordering(p)
         /\ \A q \in Process : Ordering(q) => q = p
         /\ \A q \in Process, c \in DOMAIN pickups : Holds(q, c) => q = p
<1>1. Ordering(p)
  BY DEF PickupsFound
<1>2. \A q \in Process : Ordering(q) => q = p
  BY <1>1 DEF OneRun
<1>3. ~Settled /\ draft.dispatch = NoCmd /\ \A q \in Process : ~Collecting(q)
  BY <1>1, OrderingAlone
<1>4. ASSUME NEW q \in Process, NEW c \in DOMAIN pickups, Holds(q, c) PROVE q = p
  <2>1. proc[q].op # "pickup"
    BY <1>3, <1>4 DEF Collecting, Holds
  <2>2. proc[q].op = "execute"
    BY <1>4, <2>1 DEF Holds, LocalInv, Local, Place, PickupPc
  <2> QED  BY <1>2, <1>4, <2>2 DEF Holds, Ordering, Running
<1> QED  BY <1>1, <1>2, <1>3, <1>4

\* a run at work that books none yet is the first to order a pickup
LEMMA NoneBooked ==
  ASSUME TypeOK, LocalInv, OneRun, AtRest, FlagTold, PickupsFound, NEW p \in Process,
         Ordering(p), ~Booking(p)
  PROVE  /\ Len(pickups) = 0 /\ DOMAIN pickups = {}
         /\ draft.pickupCommand = NoCmd /\ proc[p].snap.pickupCommand = NoCmd
<1>1. ~Settled
  BY OrderingAlone
<1>2. \A q \in Process : ~Booking(q)
  BY DEF PickupsFound, OneRun
<1>3. pickups = << >>
  BY <1>1, <1>2 DEF PickupsFound
<1>4. Len(pickups) = 0 /\ DOMAIN pickups = {}
  BY <1>3
<1>5. draft.pickupCommand <= 0 /\ proc[p].snap.pickupCommand <= 0
  BY <1>4 DEF LocalInv, Local, Exists
<1> QED  BY <1>4, <1>5, DraftFields, ProcFields DEF TypeOK, Cmd, NoCmd

\* no run books a pickup of a created draft
LEMMA SettledBooksNone ==
  ASSUME TypeOK, LocalInv, OneRun, AtRest, FlagTold, PickupsFound, Settled
  PROVE  \A q \in Process : ~Booking(q)
  BY OrderingAlone DEF PickupsFound

LEMMA PickupKept ==
  ASSUME NEW p \in Process, PickupContext(p), pickups' = pickups,
         draft'.pickupCommand = draft.pickupCommand,
         draft'.dispatch = draft.dispatch,
         Settled => Settled',
         proc[p].pc # "persist_pickup", proc'[p].pc # "persist_pickup",
         Booking(p)' <=> Booking(p),
         Booking(p) => proc'[p].pcmd = proc[p].pcmd /\ Ordering(p)'
  PROVE  PickupsFound'
<1>1. FlagContext(p) /\ PickupsFound
  BY DEF PickupContext
<1>2. \A q \in Process \ {p} : proc'[q] = proc[q]
  BY <1>1, FlagFacts DEF Others
<1>3. \A q \in Process : Booking(q)' <=> Booking(q)
  BY <1>2 DEF Booking
<1>4. \A c \in DOMAIN pickups' : LivePickup(c)' =>
        \/ c = draft'.pickupCommand \/ c = draft'.dispatch
        \/ \E q \in Process : proc'[q].pc = "persist_pickup" /\ proc'[q].pcmd = c
  BY <1>1, <1>2 DEF PickupsFound, LivePickup
<1>5. ~Settled' => pickups' = << >> \/ \E q \in Process : Booking(q)'
  BY <1>1, <1>3 DEF PickupsFound
<1>6. ASSUME NEW q \in Process, Booking(q)'
      PROVE  /\ Ordering(q)'
             /\ draft'.pickupCommand =
                   IF proc'[q].pc = "persist_pickup" THEN NoCmd ELSE proc'[q].pcmd
  <2>1. CASE q = p
    BY <1>1, <1>3, <1>6, <2>1 DEF PickupsFound
  <2>2. CASE q # p
    <3>1. Booking(q) /\ proc'[q] = proc[q]
      BY <1>2, <1>3, <1>6, <2>2
    <3> QED  BY <1>1, <3>1 DEF PickupsFound, Ordering, Running
  <2> QED  BY <2>1, <2>2
<1> QED  BY <1>4, <1>5, <1>6 DEF PickupsFound

LEMMA PickupFacts ==
  ASSUME NEW p \in Process, PickupContext(p)
  PROVE  /\ FlagContext(p) /\ PickupsFound /\ ~Caused({"lost_answer"})
         /\ TypeOK /\ TypeOK' /\ LocalInv /\ OneRun /\ AtRest /\ FlagTold
         /\ Local(p) /\ Others(p) /\ StepOf(p)
         /\ ~Caused({"crash"}) /\ ~Caused({"stale_pickup"})
         /\ ~Caused({"stale_review"}) /\ ~Caused({"late_failure"})
         /\ ~Caused({"foreign_release"})
  BY FlagFacts DEF PickupContext

\* a run's own steps book nothing
LEMMA PickupRuns ==
  ASSUME NEW p \in Process, PickupContext(p), RunStep(p), ~Finishes(p)
  PROVE  PickupsFound'
<1>1. /\ proc[p].op \in {"execute", "confirm"}
      /\ proc'[p].op \in {"execute", "confirm"}
  BY PickupFacts, RunOps
<1>2. Settles
  BY PickupFacts DEF StepOf
<1>3. /\ pickups' = pickups
      /\ draft'.pickupCommand = draft.pickupCommand /\ draft'.dispatch = draft.dispatch
      /\ proc'[p].pc # "persist_pickup"
  <2>1. ASSUME NEW id \in BOOLEAN, Checkpoints(p, id)
        PROVE  /\ pickups' = pickups /\ SamePickup /\ proc'[p].pc # "persist_pickup"
    BY <2>1 DEF Checkpoints, SameAllegro, Goes
  <2>2. CASE Fails(p) \/ Releases(p) \/ Proposes(p) \/ Resumes(p) \/ Creates(p)
               \/ Waits(p) \/ Completes(p)
    BY <2>2, IdleFields DEF Fails, Releases, Proposes, Resumes, Creates, Waits, Completes,
       SameAllegro, SameDraft, Turns, Moves, Goes, IdleProc
  <2>3. CASE Errs(p) \/ Claims(p) \/ Persists(p) \/ Pends(p)
    BY <2>3, IdleFields DEF Errs, Claims, Persists, Pends, SameAllegro, SamePickup,
       Collects, Turns, Moves, Goes
  <2> QED  BY <2>1, <2>2, <2>3 DEF RunStep, SamePickup, Collects
<1>4. proc[p].pc # "persist_pickup"
  <2>1. ~Fails(p) => proc[p].pc # "persist_pickup"
    BY DEF RunStep, Fails, Releases, Errs, Claims, Proposes, Resumes, Creates,
       Persists, Checkpoints, Waits, Completes, Pends, Finishes
  <2> QED  BY <2>1, PickupFacts DEF Fails
<1>5. ~Booking(p)
  <2>1. ASSUME Booking(p)
        PROVE  proc[p].pc \in {"pickup_status", "finish"}
    BY <1>4, <2>1, PickupFacts, BookingPlace, BookingAlone
    DEF Booking, Ordering, Running, Local, Place
  <2>2. ~Fails(p) => proc[p].pc \notin {"pickup_status", "finish"}
    BY DEF RunStep, Fails, Releases, Errs, Claims, Proposes, Resumes, Creates,
       Persists, Checkpoints, Waits, Completes, Pends, Finishes
  <2>3. Fails(p) => proc[p].pc # "pickup_status" /\ ~(proc[p].pc = "finish" /\ Booking(p))
    BY PickupFacts DEF Fails, Unbooked, Booking
  <2> QED  BY <2>1, <2>2, <2>3
<1>6. ~Booking(p)'
  <2>1. ASSUME NEW id \in BOOLEAN, Checkpoints(p, id)
        PROVE  proc'[p].pcmd = proc[p].pcmd /\ proc'[p].op = proc[p].op
    BY <2>1 DEF Checkpoints, Goes
  <2>2. CASE Completes(p)
    <3>1. proc[p].op = "execute" => Ordering(p)
      BY <2>2 DEF Completes, Ordering, Running
    <3>2. proc[p].op = "execute" => proc[p].snap.pickupCommand = NoCmd
      BY <1>5, <3>1, PickupFacts, NoneBooked
    <3>3. proc'[p].op = proc[p].op
            /\ proc'[p].pcmd \in {NoCmd, proc[p].pcmd, proc[p].snap.pickupCommand}
      BY <2>2 DEF Completes, Turns, Moves, Goes
    <3> QED  BY <1>5, <3>2, <3>3 DEF Booking
  <2>3. CASE Fails(p) \/ Claims(p) \/ Proposes(p) \/ Resumes(p) \/ Creates(p)
               \/ Persists(p) \/ Waits(p)
    <3>1. proc'[p].pcmd = proc[p].pcmd /\ proc'[p].op = proc[p].op
      BY <2>3 DEF Fails, Claims, Proposes, Resumes, Creates, Persists, Waits,
         Turns, Moves, Goes
    <3> QED  BY <1>5, <3>1 DEF Booking
  <2>4. CASE Errs(p) \/ Pends(p)
    BY <2>4, IdleFields DEF Errs, Pends, Booking
  <2>5. CASE Releases(p)
    BY <1>5, <2>5 DEF Releases, Turns, Moves, Goes, Booking, IdleProc
  <2> QED  BY <1>5, <2>1, <2>2, <2>3, <2>4, <2>5 DEF RunStep, Booking
<1>7. Settled => Settled'
  <2>1. CASE Errs(p)
    BY <2>1, PickupFacts DEF Errs, Settled
  <2>2. CASE Claims(p)
    BY <2>2 DEF Claims, EXECUTABLE_STATES, Settled
  <2>3. CASE Persists(p) \/ Pends(p)
    <3>1. Ordering(p)
      BY <1>1, <2>3 DEF Persists, Pends, Ordering, Running
    <3> QED  BY <3>1, PickupFacts, OrderingAlone
  <2>4. ASSUME NEW id \in BOOLEAN, Checkpoints(p, id) PROVE draft'.status = draft.status
    BY <2>4 DEF Checkpoints, Orders
  <2>5. CASE SameDraft
    BY <2>5 DEF SameDraft, Settled
  <2> QED  BY <2>1, <2>2, <2>3, <2>4, <2>5 DEF RunStep, Fails, Releases, Proposes,
              Resumes, Creates, Waits, Completes, Settled
<1> QED  BY <1>3, <1>4, <1>5, <1>6, <1>7, PickupKept

\* the end of the run that booked it leaves the pickup with the draft
LEMMA PickupFinishes ==
  ASSUME NEW p \in Process, PickupContext(p), Finishes(p)
  PROVE  PickupsFound'
<1>1. /\ proc[p].pc = "finish" /\ proc'[p] = IdleProc
      /\ proc'[p].pc = "idle" /\ proc'[p].pcmd = NoCmd
      /\ pickups' = pickups /\ Settled'
      /\ draft'.pickupCommand = (IF proc[p].outcome \in {"pending", "failed"}
                                 THEN proc[p].pcmd ELSE NoCmd)
      /\ draft'.dispatch = (IF proc[p].outcome = "success" THEN proc[p].pcmd ELSE NoCmd)
  BY IdleFields DEF Finishes, SameAllegro, Orders, Collects, Settled
<1>2. Ordering(p) /\ proc[p].op \in {"execute", "confirm"}
  BY <1>1, PickupFacts DEF Local, Place, Ordering, Running
<1>3. \A q \in Process \ {p} : ~Booking(q) /\ proc'[q] = proc[q]
  BY <1>2, PickupFacts, BookingAlone DEF Others
<1>4. ASSUME NEW c \in DOMAIN pickups, LivePickup(c)
      PROVE  c = draft'.pickupCommand \/ c = draft'.dispatch
  <2>1. Booking(p)
    BY <1>2, PickupFacts, NoneBooked
  <2>2. /\ draft.pickupCommand = proc[p].pcmd /\ draft.dispatch = NoCmd
        /\ ~\E q \in Process : Holds(q, c)
    BY <1>1, <2>1, PickupFacts, BookingAlone DEF PickupsFound, Holds
  <2>3. c # NoCmd
    BY PickupFacts, PickupLengths DEF NoCmd
  <2>4. c = proc[p].pcmd
    BY <1>4, <2>2, <2>3, PickupFacts DEF PickupsFound, Holds
  <2>5. proc[p].outcome \in {"pending", "failed", "success"}
    <3>1. proc[p].outcome \in Outcome
      BY PickupFacts, ProcFields
    <3>2. proc[p].outcome # "none"
      BY <1>1, <2>3, <2>4, PickupFacts DEF Local, OrdersPickup
    <3>3. proc[p].outcome = "over" => pickups[c] = "error"
      BY <1>1, <2>4, PickupFacts DEF Local, OrdersPickup
    <3> QED  BY <1>4, <3>1, <3>2, <3>3 DEF Outcome, LivePickup
  <2> QED  BY <1>1, <2>4, <2>5
<1>5. \A c \in DOMAIN pickups' : LivePickup(c)' =>
         c = draft'.pickupCommand \/ c = draft'.dispatch
  BY <1>1, <1>4 DEF LivePickup
<1>6. \A q \in Process : ~Booking(q)'
  BY <1>1, <1>3 DEF Booking
<1> QED  BY <1>1, <1>5, <1>6 DEF PickupsFound

\* a request that books one for itself finds the draft created
LEMMA CollectingSettles ==
  ASSUME NEW p \in Process, PickupContext(p), proc[p].op = "pickup"
  PROVE  /\ ~Booking(p)
         /\ proc[p].pc # "claim_pickup" =>
               Settled /\ \A q \in Process : ~Booking(q)
<1>1. proc[p].pc # "claim_pickup" => Settled
  BY PickupFacts DEF FlagTold, Collecting, Settled
<1> QED  BY <1>1, PickupFacts, SettledBooksNone DEF Booking

LEMMA PickupClaims ==
  ASSUME NEW p \in Process, PickupContext(p), ClaimsPickup(p) \/ Learns(p) \/ GivesBack(p)
  PROVE  PickupsFound'
<1>1. /\ proc'[p].op = proc[p].op
      /\ proc[p].pc \in {"claim_pickup", "propose", "pickup_status", "unpickup"}
      /\ proc'[p].pc \in {"propose", "pickup_status", "unpickup", "finish"}
      /\ draft'.status = draft.status /\ draft'.pickupCommand = draft.pickupCommand
      /\ draft'.dispatch = draft.dispatch
  BY DEF ClaimsPickup, Learns, GivesBack, Moves, Goes, SameOrder, SameDraft, Orders,
     Collects
<1>2. pickups' = pickups
  BY PickupFacts DEF ClaimsPickup, Learns, GivesBack, SameAllegro
<1>3. CASE proc[p].op = "pickup"
  BY <1>1, <1>2, <1>3, PickupFacts, PickupKept DEF Booking, Settled
<1>4. CASE proc[p].op # "pickup"
  <2>1. Learns(p) /\ proc[p].op = "execute"
    BY <1>1, <1>4, PickupFacts DEF ClaimsPickup, Learns, GivesBack, Local, Place, PickupPc
  <2>2. proc'[p].pcmd = proc[p].pcmd /\ proc'[p].pc = "finish"
    BY <1>4, <2>1 DEF Learns, Moves, Goes
  <2>3. Ordering(p)'
    BY <1>1, <2>1, <2>2 DEF Ordering, Running
  <2> QED  BY <1>1, <1>2, <2>1, <2>2, <2>3, PickupFacts, PickupKept DEF Booking, Settled
<1> QED  BY <1>3, <1>4

\* a new pickup is in the hands of whoever ordered it
LEMMA PickupCreates ==
  ASSUME NEW p \in Process, PickupContext(p), CreatesPickup(p)
  PROVE  PickupsFound'
<1>1. /\ proc[p].pc = "propose" /\ proc'[p].pc = "persist_pickup"
      /\ proc'[p].op = proc[p].op /\ proc'[p].pcmd = Len(pickups) + 1 /\ draft' = draft
  BY DEF CreatesPickup, Moves, Goes, SameDraft
<1>2. /\ PickupsStay /\ DOMAIN pickups' = DOMAIN pickups \cup {Len(pickups) + 1}
      /\ Len(pickups) \in Nat
  BY PickupFacts, NewPickupStays DEF CreatesPickup
<1>3. \A q \in Process \ {p} : proc'[q] = proc[q]
  BY PickupFacts DEF Others
<1>4. ~Booking(p) /\ proc[p].op \in {"execute", "pickup"}
  BY <1>1, PickupFacts DEF Local, Place, OrdersPickup, Booking, PickupPc
<1>5. /\ \A q \in Process \ {p} : ~Booking(q)
      /\ proc[p].op = "execute" => Ordering(p) /\ draft.pickupCommand = NoCmd
      /\ proc[p].op = "pickup" => Settled
  <2>1. CASE proc[p].op = "pickup"
    BY <1>1, <2>1, CollectingSettles
  <2>2. CASE proc[p].op = "execute"
    <3>1. Ordering(p)
      BY <1>1, <2>2 DEF Ordering, Running
    <3>2. \A q \in Process : Booking(q) => q = p
      BY <3>1, PickupFacts, BookingAlone
    <3> QED  BY <1>4, <2>2, <3>1, <3>2, PickupFacts, NoneBooked
  <2> QED  BY <1>4, <2>1, <2>2
<1>6. ASSUME NEW c \in DOMAIN pickups', LivePickup(c)'
      PROVE  \/ c = draft'.pickupCommand \/ c = draft'.dispatch
             \/ \E q \in Process : proc'[q].pc = "persist_pickup" /\ proc'[q].pcmd = c
  <2>1. CASE c = Len(pickups) + 1
    BY <1>1, <2>1
  <2>2. CASE c \in DOMAIN pickups
    <3>1. LivePickup(c)
      BY <1>2, <1>6, <2>2 DEF LivePickup, PickupsStay
    <3> QED  BY <1>1, <1>3, <2>2, <3>1, PickupFacts DEF PickupsFound
  <2> QED  BY <1>2, <2>1, <2>2
<1>7. ~Settled' => \E q \in Process : Booking(q)'
  BY <1>1, <1>2, <1>4, <1>5 DEF Settled, Booking, NoCmd
<1>8. ASSUME NEW q \in Process, Booking(q)'
      PROVE  /\ Ordering(q)'
             /\ draft'.pickupCommand =
                   IF proc'[q].pc = "persist_pickup" THEN NoCmd ELSE proc'[q].pcmd
  <2>1. q = p
    BY <1>3, <1>5, <1>8 DEF Booking
  <2> QED  BY <1>1, <1>5, <1>8, <2>1 DEF Booking, Ordering, Running
<1> QED  BY <1>6, <1>7, <1>8 DEF PickupsFound

LEMMA PickupPersists ==
  ASSUME NEW p \in Process, PickupContext(p), PersistsPickup(p)
  PROVE  PickupsFound'
<1>1. /\ proc[p].pc = "persist_pickup" /\ proc'[p].pc = "pickup_status"
      /\ proc'[p].op = proc[p].op /\ proc'[p].pcmd = proc[p].pcmd /\ pickups' = pickups
      /\ draft'.status = draft.status /\ draft'.pickupCommand = proc[p].pcmd
  BY DEF PersistsPickup, Turns, Moves, Goes, SameOrder, Orders, Collects, SameAllegro
<1>2. proc[p].op \in {"execute", "pickup"} /\ proc[p].pcmd # NoCmd
  BY <1>1, PickupFacts DEF Local, Place, OrdersPickup, PickupPc
<1>3. \A q \in Process \ {p} : proc'[q] = proc[q]
  BY PickupFacts DEF Others
<1>4. /\ draft.pickupCommand = NoCmd /\ draft.dispatch = NoCmd
      /\ \A q \in Process \ {p} : ~Booking(q)
  <2>1. CASE proc[p].op = "pickup"
    <3>1. Alone(p)
      BY <1>1, <2>1 DEF Alone
    <3> QED  BY <1>1, <2>1, <3>1, PickupFacts, CollectingSettles DEF FlagTold
  <2>2. CASE proc[p].op = "execute"
    <3>1. Booking(p)
      BY <1>2, <2>2 DEF Booking
    <3>2. draft.pickupCommand = NoCmd
      BY <1>1, <3>1, PickupFacts DEF PickupsFound
    <3> QED  BY <3>1, <3>2, PickupFacts, BookingAlone
  <2> QED  BY <1>2, <2>1, <2>2
<1>5. ASSUME NEW c \in DOMAIN pickups', LivePickup(c)'
      PROVE  \/ c = draft'.pickupCommand
             \/ \E q \in Process : proc'[q].pc = "persist_pickup" /\ proc'[q].pcmd = c
  <2>1. c # NoCmd
    BY <1>1, PickupFacts, PickupLengths DEF NoCmd
  <2>2. LivePickup(c)
    BY <1>1, <1>5 DEF LivePickup
  <2>3. PICK q \in Process : Holds(q, c)
    BY <1>1, <1>4, <2>1, <2>2, PickupFacts DEF PickupsFound, Holds
  <2> QED  BY <1>1, <1>3, <2>3 DEF Holds
<1>6. \A q \in Process : Booking(q)' <=> Booking(q)
  BY <1>1, <1>3 DEF Booking
<1>7. ASSUME NEW q \in Process, Booking(q)'
      PROVE  /\ Ordering(q)'
             /\ draft'.pickupCommand =
                   IF proc'[q].pc = "persist_pickup" THEN NoCmd ELSE proc'[q].pcmd
  <2>1. q = p /\ proc[p].op = "execute"
    BY <1>4, <1>6, <1>7 DEF Booking
  <2> QED  BY <1>1, <2>1 DEF Ordering, Running
<1> QED  BY <1>1, <1>5, <1>6, <1>7, PickupFacts DEF PickupsFound, Settled

LEMMA PickupWrites ==
  ASSUME NEW p \in Process, PickupContext(p), WritesPickup(p)
  PROVE  PickupsFound'
<1>1. /\ proc[p].pc = "unpickup" /\ ~Overtaken(p) /\ pickups' = pickups
      /\ proc'[p].pcmd = NoCmd /\ draft'.status = draft.status
  BY PickupFacts, IdleFields DEF WritesPickup, SameAllegro, SameOrder, Orders
<1>2. /\ proc[p].op = "pickup" /\ proc[p].outcome \in Outcome
      /\ proc[p].outcome = "none" => proc[p].pcmd = NoCmd
      /\ proc[p].outcome \in {"pending", "success", "over"} => proc[p].pcmd # NoCmd
      /\ proc[p].outcome = "over" => pickups[proc[p].pcmd] = "error"
  BY <1>1, PickupFacts, ProcFields DEF Local, Place, OrdersPickup
<1>3. Settled /\ \A q \in Process : ~Booking(q)
  BY <1>1, <1>2, CollectingSettles
<1>4. \A q \in Process \ {p} : proc'[q] = proc[q]
  BY PickupFacts DEF Others
<1>5. \A q \in Process : ~Booking(q)'
  BY <1>1, <1>3, <1>4 DEF Booking
<1>6. ASSUME NEW c \in DOMAIN pickups', LivePickup(c)'
      PROVE  \/ c = draft'.pickupCommand \/ c = draft'.dispatch
             \/ \E q \in Process : proc'[q].pc = "persist_pickup" /\ proc'[q].pcmd = c
  <2>1. c # NoCmd /\ LivePickup(c) /\ c \in DOMAIN pickups
    BY <1>1, <1>6, PickupFacts, PickupLengths DEF NoCmd, LivePickup
  <2>2. ASSUME NEW q \in Process, Holds(q, c)
        PROVE  proc'[q].pc = "persist_pickup" /\ proc'[q].pcmd = c
    BY <1>1, <1>4, <2>2 DEF Holds
  <2>3. CASE c = draft.pickupCommand \/ c = draft.dispatch
    <3>1. draft.pickupCommand = NoCmd \/ draft.dispatch = NoCmd
      BY PickupFacts DEF LocalInv
    <3>2. CASE proc[p].outcome \in {"none", "failed"}
      BY <2>3, <3>2 DEF WritesPickup, Collects
    <3>3. CASE proc[p].outcome \in {"pending", "success", "over"}
      <4>1. c = proc[p].pcmd
        BY <1>1, <1>2, <2>1, <2>3, <3>1, <3>3 DEF Overtaken
      <4>2. proc[p].outcome # "over"
        BY <1>2, <2>1, <4>1 DEF LivePickup
      <4> QED  BY <3>3, <4>1, <4>2 DEF WritesPickup, Collects
    <3> QED  BY <1>2, <3>2, <3>3 DEF Outcome
  <2> QED  BY <2>1, <2>2, <2>3, PickupFacts DEF PickupsFound, Holds
<1> QED  BY <1>1, <1>3, <1>5, <1>6 DEF PickupsFound, Settled

\* requests that book nothing, and a booking run that ends is killed
LEMMA PickupOthers ==
  ASSUME NEW p \in Process, PickupContext(p),
         Starts(p) \/ Stops(p) \/ CancelsOne(p) \/ Saves(p)
  PROVE  PickupsFound'
<1>1. /\ pickups' = pickups /\ SamePickup
      /\ draft'.status = draft.status \/ ~Settled
  BY PickupFacts DEF Starts, Stops, CancelsOne, Saves, SameAllegro, SameDraft, SameOrder,
     SamePickup, Orders, Collects, Settled
<1>2. proc[p].pc \notin {"persist_pickup", "pickup_status", "finish", "unpickup"}
  BY PickupFacts DEF Starts, Stops, CancelsOne, Saves
<1>3. ~Booking(p)
  BY <1>2, PickupFacts, BookingPlace, BookingAlone DEF Booking, Ordering, Running
<1>4. ~Booking(p)' /\ proc'[p].pc # "persist_pickup"
  <2>1. CASE Starts(p)
    BY <2>1 DEF Starts, Asked, Booking
  <2>2. CASE Stops(p) \/ Saves(p)
    BY <2>2, IdleFields DEF Stops, Saves, Booking
  <2>3. CASE CancelsOne(p)
    BY <2>3 DEF CancelsOne, Goes, Booking
  <2> QED  BY <2>1, <2>2, <2>3
<1> QED  BY <1>1, <1>2, <1>3, <1>4, PickupKept DEF SamePickup, Collects, Settled

\* a cancelled pickup is no longer to be found
LEMMA PickupCancels ==
  ASSUME NEW p \in Process, PickupContext(p),
         CancelsCollection(p) \/ SaysCancelled(p)
  PROVE  PickupsFound'
<1>1. /\ proc[p].op \in {"cancel_shipment", "cancel_dispatch"}
      /\ proc[p].pc \in {"cancel", "cancelled"}
  BY PickupFacts DEF CancelsCollection, SaysCancelled, Local, Place
<1>2. proc[p].op = "cancel_dispatch" =>
         /\ draft.dispatch # NoCmd /\ draft.dispatch = proc[p].snap.dispatch /\ Settled
         /\ \A q \in Process : ~Booking(q)
  <2> SUFFICES ASSUME proc[p].op = "cancel_dispatch"
               PROVE  /\ draft.dispatch # NoCmd
                      /\ draft.dispatch = proc[p].snap.dispatch /\ Settled
                      /\ \A q \in Process : ~Booking(q)
    OBVIOUS
  <2>1. draft.dispatch # NoCmd /\ draft.dispatch = proc[p].snap.dispatch
    BY PickupFacts DEF FlagTold, Local, CancelsPickup
  <2>2. Settled
    BY <2>1, PickupFacts DEF FlagTold
  <2> QED  BY <2>1, <2>2, PickupFacts, SettledBooksNone
<1>3. CASE SaysCancelled(p) /\ proc[p].op = "cancel_shipment"
  <2>1. ~Booking(p) /\ ~Booking(p)' /\ proc'[p].pc = "idle"
    BY <1>3, IdleFields DEF SaysCancelled, Booking
  <2>2. SamePickup /\ pickups' = pickups /\ Settled'
    BY <1>3 DEF SaysCancelled, SameAllegro, Orders, Settled
  <2> QED  BY <1>1, <2>1, <2>2, PickupKept DEF SamePickup, Collects
<1>4. CASE (SaysCancelled(p) \/ CancelsCollection(p)) /\ proc[p].op = "cancel_dispatch"
  <2>1. PICK d : d = draft.dispatch
    OBVIOUS
  <2>2. draft'.status = draft.status /\ draft'.pickupCommand = draft.pickupCommand
    BY <1>4 DEF SaysCancelled, CancelsCollection, SameOrder, SameDraft, Orders, Collects
  <2>3. \/ proc'[p] = IdleProc
        \/ proc'[p].op = "cancel_dispatch" /\ proc'[p].pc = "cancelled"
    BY <1>4 DEF SaysCancelled, CancelsCollection, Turns, Moves, Goes
  <2>4. \A q \in Process : ~Booking(q)'
    <3>1. ~Booking(p)'
      BY <2>3, IdleFields DEF Booking
    <3> QED  BY <1>2, <1>4, <3>1, PickupFacts DEF Booking, Others
  <2>5. /\ DOMAIN pickups' = DOMAIN pickups
        /\ \A c \in DOMAIN pickups : LivePickup(c)' => LivePickup(c) /\ c # d
    <3>1. CASE SaysCancelled(p)
      BY <1>2, <1>4, <2>1, <3>1, PickupFacts
      DEF SaysCancelled, SameAllegro, Local, CancelsPickup, LivePickup
    <3>2. CASE CancelsCollection(p)
      BY <1>2, <1>4, <2>1, <3>2 DEF CancelsCollection, LivePickup
    <3> QED  BY <1>4, <3>1, <3>2
  <2>6. ASSUME NEW q \in Process, NEW c, Holds(q, c)
        PROVE  proc'[q].pc = "persist_pickup" /\ proc'[q].pcmd = c
    BY <1>1, <2>6, PickupFacts DEF Holds, Others
  <2>7. ASSUME NEW c \in DOMAIN pickups', LivePickup(c)'
        PROVE  \/ c = draft'.pickupCommand \/ c = draft'.dispatch
               \/ \E q \in Process : proc'[q].pc = "persist_pickup" /\ proc'[q].pcmd = c
    BY <2>1, <2>2, <2>5, <2>6, <2>7, PickupFacts DEF PickupsFound, Holds
  <2> QED  BY <1>2, <1>4, <2>2, <2>4, <2>7 DEF PickupsFound, Settled
<1> QED  BY <1>1, <1>3, <1>4 DEF CancelsCollection

LEMMA PickupAnswers ==
  ASSUME TypeOK, PickupsFound, CommandAnswered \/ PickupAnswered
  PROVE  PickupsFound'
<1>1. draft' = draft /\ proc' = proc
  BY DEF CommandAnswered, PickupAnswered, SameDraft
<1>2. /\ DOMAIN pickups' = DOMAIN pickups
      /\ \A c \in DOMAIN pickups : LivePickup(c)' => LivePickup(c)
      /\ pickups = << >> => pickups' = << >>
  BY DEF CommandAnswered, PickupAnswered, LivePickup
<1> QED  BY <1>1, <1>2 DEF PickupsFound, Settled, Booking, Ordering, Running

LEMMA PickupNext ==
  ASSUME TypeOK, LocalInv, RunInv, CancelInv, FlagInv, PickupInv, Next
  PROVE  PickupInv'
<1>1. Settles /\ ((\E p \in Process : StepOf(p)) \/ CommandAnswered \/ PickupAnswered)
  BY NextSettles
<1>2. SUFFICES ASSUME ~Caused(PickupCause) PROVE PickupsFound'
  BY DEF PickupInv, Caused, Excused
<1>3. /\ ~Caused(FlagCause) /\ ~Caused({"lost_answer"}) /\ ~Excused(PickupCause)
      /\ ~Excused(FlagCause) /\ ~Excused({"second_run"}) /\ ~Excused({"cancel_raced"})
  BY <1>1, <1>2 DEF Settles, Caused, Excused, PickupCause, FlagCause
<1>4. OneRun /\ AtRest /\ FlagTold /\ PickupsFound
  BY <1>3 DEF RunInv, CancelInv, FlagInv, PickupInv
<1>5. ASSUME NEW p \in Process, StepOf(p) PROVE PickupsFound'
  <2>1. PickupContext(p)
    BY <1>3, <1>4, <1>5 DEF PickupContext, FlagContext
  <2>2. RunStep(p) => PickupsFound'
    BY <2>1, PickupRuns, PickupFinishes
  <2>3. ~LosesPickup(p)
    BY <1>3 DEF LosesPickup
  <2>4. PickupStep(p) => PickupsFound'
    BY <2>1, <2>3, PickupClaims, PickupCreates, PickupPersists, PickupWrites
    DEF PickupStep
  <2>5. OtherStep(p) => PickupsFound'
    BY <2>1, PickupOthers, PickupCancels DEF OtherStep
  <2> QED  BY <1>5, <2>2, <2>4, <2>5 DEF StepOf, Step
<1> QED  BY <1>1, <1>4, <1>5, PickupAnswers

\* a pickup in somebody's hands is the only one that may take place
LEMMA HeldIsOnly ==
  ASSUME TypeOK, LocalInv, OneRun, AtRest, FlagTold, PickupsFound,
         NEW p \in Process, NEW c \in DOMAIN pickups, Holds(p, c),
         NEW d \in DOMAIN pickups, LivePickup(d)
  PROVE  d = c
<1>1. c # NoCmd /\ d # NoCmd
  BY PickupLengths DEF NoCmd
<1>2. proc[p].op \in {"execute", "pickup"}
  BY DEF Holds, LocalInv, Local, Place, PickupPc
<1>3. CASE proc[p].op = "execute"
  <2>1. Booking(p)
    BY <1>1, <1>3 DEF Holds, Booking
  <2>2. draft.pickupCommand = NoCmd /\ draft.dispatch = NoCmd
    BY <2>1, BookingAlone DEF PickupsFound, Holds
  <2>3. PICK q \in Process : Holds(q, d)
    BY <1>1, <2>2 DEF PickupsFound, Holds
  <2> QED  BY <2>1, <2>3, BookingAlone DEF Holds
<1>4. CASE proc[p].op = "pickup"
  <2>1. Alone(p) /\ draft.status = "created"
    BY <1>4 DEF Holds, Alone, Collecting, FlagTold
  <2>2. draft.pickupCommand = NoCmd /\ draft.dispatch = NoCmd
    BY <2>1 DEF FlagTold
  <2>3. PICK q \in Process : Holds(q, d)
    BY <1>1, <2>2 DEF PickupsFound, Holds
  <2>4. ~Booking(q)
    BY <2>1, SettledBooksNone DEF Settled
  <2>5. Alone(q)
    BY <1>1, <2>3, <2>4 DEF Holds, Booking, Alone, LocalInv, Local, Place, PickupPc
  <2> QED  BY <2>1, <2>3, <2>5 DEF FlagTold, Holds
<1> QED  BY <1>2, <1>3, <1>4

LEMMA PickupHolds ==
  ASSUME TypeOK, LocalInv, RunInv, CancelInv, FlagInv, PickupInv
  PROVE  OnePickup
<1>1. CASE Excused(PickupCause) \/ Excused(FlagCause) \/ Excused({"second_run"})
             \/ Excused({"cancel_raced"})
  BY <1>1 DEF Excused, PickupCause, FlagCause, OnePickup
<1>2. CASE OneRun /\ AtRest /\ FlagTold /\ PickupsFound
  <2> DEFINE live == {c \in DOMAIN pickups : pickups[c] \in {"pending", "success"}}
  <2>1. ASSUME NEW c \in live, NEW d \in live PROVE c = d
    <3>1. LivePickup(c) /\ LivePickup(d) /\ c # NoCmd /\ d # NoCmd
      BY PickupLengths DEF LivePickup, NoCmd
    <3>2. CASE \E p \in Process : Holds(p, c) \/ Holds(p, d)
      BY <1>2, <3>1, <3>2, HeldIsOnly
    <3>3. CASE ~\E p \in Process : Holds(p, c) \/ Holds(p, d)
      <4>1. /\ c = draft.pickupCommand \/ c = draft.dispatch
            /\ d = draft.pickupCommand \/ d = draft.dispatch
        BY <1>2, <3>1, <3>3 DEF PickupsFound, Holds
      <4>2. draft.dispatch = NoCmd \/ draft.pickupCommand = NoCmd
        BY DEF LocalInv
      <4> QED  BY <3>1, <4>1, <4>2
    <3> QED  BY <3>2, <3>3
  <2>2. CASE live = {}
    BY <2>2, FS_EmptySet DEF OnePickup
  <2>3. CASE live # {}
    <3>1. PICK c \in live : TRUE
      BY <2>3
    <3>2. live = {c}
      BY <2>1, <3>1
    <3> HIDE DEF live
    <3>3. Cardinality(live) = 1
      BY <3>2, FS_Singleton
    <3> QED  BY <3>3 DEF OnePickup, live
  <2> QED  BY <2>2, <2>3
<1> QED  BY <1>1, <1>2 DEF RunInv, CancelInv, FlagInv, PickupInv

-----------------------------------------------------------------------------
(***************************************************************************)
(* The theorems.                                                           *)
(***************************************************************************)
SafetyInv == /\ RunInv /\ CancelInv /\ CompleteInv /\ OrderInv
             /\ PlanInv /\ FlagInv /\ PickupInv

LEMMA SafetyInit == Init => SafetyInv
<1> SUFFICES ASSUME Init PROVE SafetyInv
  OBVIOUS
<1>1. /\ draft.status \in {"pending", "needs_review"} /\ ~draft.pickup
      /\ draft.ships = NoShipments /\ draft.command = NoCmd /\ draft.dispatch = NoCmd
      /\ DOMAIN commands = {} /\ DOMAIN pickups = {} /\ pickups = << >>
      /\ \A p \in Process : /\ proc[p].pc = "idle" /\ proc[p].op = "execute"
                            /\ proc[p].pcmd = NoCmd
  BY DEF Init, InitialDraft, IdleProc
<1>2. \A p \in Process : /\ ~Ordering(p) /\ ~Claimed(p) /\ Quiet(p) /\ Resumable(p)
                         /\ ~Alone(p) /\ ~Collecting(p) /\ ~Booking(p)
  BY <1>1 DEF Ordering, Running, Claimed, Quiet, Resumable, Alone, Collecting, Booking
<1>3. OneRun /\ AtRest
  BY <1>1, <1>2 DEF OneRun, AtRest
<1>4. ~Uncharted
  BY <1>1 DEF Uncharted
<1>5. AllRecorded /\ CommandsFound /\ PlanLocked
  BY <1>1, <1>2, <1>4 DEF AllRecorded, CommandsFound, PlanLocked
<1>6. FlagTold /\ PickupsFound
  BY <1>1, <1>2 DEF FlagTold, PickupsFound
<1> QED  BY <1>3, <1>5, <1>6
         DEF SafetyInv, RunInv, CancelInv, CompleteInv, OrderInv, PlanInv, FlagInv, PickupInv

LEMMA SafetyStutters ==
  ASSUME SafetyInv, UNCHANGED vars PROVE SafetyInv'
<1>1. /\ draft' = draft /\ commands' = commands /\ pickups' = pickups
      /\ proc' = proc /\ causes' = causes
  BY DEF vars, allegroVars
<1>2. /\ OneRun' <=> OneRun
      /\ AtRest' <=> AtRest
      /\ AllRecorded' <=> AllRecorded
      /\ PlanLocked' <=> PlanLocked
  BY <1>1 DEF OneRun, AtRest, AllRecorded, PlanLocked, Ordering, Running, Claimed, Quiet,
     Cancelling, Charted, Uncharted
<1>3. CommandsFound' <=> CommandsFound
  BY <1>1 DEF CommandsFound, CommandKnown, HeldBy, Uncharted, Resumable, SameOrders,
     Ordering, Running, Current, Todo
<1>4. FlagTold' <=> FlagTold
  BY <1>1 DEF FlagTold, Alone, Collecting, Settled, CancellingPickup, Unmentioned
<1>5. PickupsFound' <=> PickupsFound
  BY <1>1 DEF PickupsFound, LivePickup, Booking, Settled, Ordering, Running
<1> QED  BY <1>1, <1>2, <1>3, <1>4, <1>5
         DEF SafetyInv, RunInv, CancelInv, CompleteInv, OrderInv, PlanInv, FlagInv,
             PickupInv, Excused

(***************************************************************************)
(* Runs, cancellations, commands and pickups stay within what DraftActions-*)
(* Inv says of them (composition.py:522, shipping_store.py:436).           *)
(***************************************************************************)
THEOREM SafetyInvariant == Spec => []SafetyInv
<1>1. TypeOK /\ LocalInv /\ SafetyInv /\ [Next]_vars => SafetyInv'
  <2>1. ASSUME TypeOK, LocalInv, SafetyInv, Next PROVE SafetyInv'
    BY <2>1, RunNext, CancelNext, CompleteNext, OrderNext, PlanNext, FlagNext, PickupNext
    DEF SafetyInv
  <2> QED  BY <2>1, SafetyStutters
<1> QED  BY <1>1, SafetyInit, ActionsTypeCorrect, LocalInvariant, PTL DEF Spec

(***************************************************************************)
(* Each parcel is ordered once, and a created draft has all its shipments, *)
(* whatever requests overlap, unless for a cause that is named             *)
(* (composition.py:557).                                                   *)
(***************************************************************************)
THEOREM OrderedOnceHolds == Spec => []ParcelsAreOrderedOnce
<1>1. TypeOK /\ LocalInv /\ SafetyInv => ParcelsAreOrderedOnce
  BY OrdersHold DEF SafetyInv
<1> QED  BY <1>1, SafetyInvariant, ActionsTypeCorrect, LocalInvariant, PTL

(***************************************************************************)
(* One pickup is ordered, and a draft that says so can name it, unless for *)
(* a cause that is named (shipping_store.py:464, fulfillment.py:66).       *)
(***************************************************************************)
THEOREM PickupIsOneHolds == Spec => []PickupIsOne
<1>1. TypeOK /\ LocalInv /\ SafetyInv => PickupIsOne
  BY PickupHolds, FlagHolds DEF SafetyInv, PickupIsOne
<1> QED  BY <1>1, SafetyInvariant, ActionsTypeCorrect, LocalInvariant, PTL

(***************************************************************************)
(* A cancelled draft stays cancelled, and the plan stands once a parcel    *)
(* was ordered, unless for a cause that is named                           *)
(* (fulfillment.py:224, drafts.py:287).                                    *)
(***************************************************************************)
THEOREM DecisionsHold == Spec => DecisionsStand
<1> DEFINE Cancel == draft.status = "cancelled" /\ draft'.status # "cancelled"
                        => Excused({"cancel_raced"})'
           Plan == draft.repacked # draft'.repacked
                      => commands = << >> \/ Excused(PlanCause)'
<1>1. TypeOK /\ LocalInv /\ SafetyInv /\ [Next]_vars => [Cancel]_vars
  BY CancelNext DEF SafetyInv, Caused, Excused
<1>2. TypeOK /\ LocalInv /\ SafetyInv /\ [Next]_vars => [Plan]_vars
  BY PlanOrderedStands DEF SafetyInv, Caused, Excused
<1>3. CancelledStays <=> [][Cancel]_vars
  BY DEF CancelledStays
<1>4. PlanStands <=> [][Plan]_vars
  BY DEF PlanStands, PlanCause
<1> HIDE DEF Cancel, Plan
<1> QED  BY <1>1, <1>2, <1>3, <1>4, SafetyInvariant, ActionsTypeCorrect, LocalInvariant,
            PTL DEF Spec, DecisionsStand

=============================================================================
