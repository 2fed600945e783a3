----------------------------- MODULE LabelLedger -----------------------------
(***************************************************************************)
(* What executing a draft promises about money: the parcels of the plan    *)
(* are paid for one at a time, in plan order, each one once, and a label   *)
(* is bought only when all the labels bought before are on record.  The    *)
(* promise ends when something the code cannot prevent excuses it.         *)
(***************************************************************************)
EXTENDS Integers

CONSTANT NumParcels

VARIABLES
    paid,      \* paid[p]: labels bought for parcel p
    recorded,  \* recorded[p]: the label of p that the draft knows
    excused    \* whether the promise has ended

ledger == <<paid, recorded, excused>>

Parcel == 1..NumParcels

Labels == [Parcel -> Nat]

Init ==
    /\ paid = [p \in Parcel |-> 0]
    /\ recorded = [p \in Parcel |-> 0]
    /\ excused = FALSE

Buy(p) ==
    /\ recorded = paid
    /\ paid[p] = 0
    /\ \A q \in 1..(p - 1) : paid[q] = 1
    /\ paid' = [paid EXCEPT ![p] = 1]
    /\ UNCHANGED <<recorded, excused>>

Record ==
    /\ recorded' = paid
    /\ UNCHANGED <<paid, excused>>

Excuse ==
    /\ excused' = TRUE
    /\ paid' \in Labels
    /\ recorded' \in Labels

Next == (\E p \in Parcel : Buy(p)) \/ Record \/ Excuse

Spec == Init /\ [][Next]_ledger
=============================================================================
