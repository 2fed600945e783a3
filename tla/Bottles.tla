-------------------------------- MODULE Bottles --------------------------------
(***************************************************************************)
(* What the parcel plan, the deposit and the audit read out of a product's *)
(* name: how many bottles a unit holds, of glass or not, or no goods.      *)
(***************************************************************************)
EXTENDS Integers, Sequences

(***************************************************************************)
(* A name, by what each pattern finds in it: the numbers before "butelek", *)
(* after "x" and before "szt.", the count a keyword stands for (0: not     *)
(* found), and whether it speaks of bottles, of glass, of a service.       *)
(***************************************************************************)
Name == [butelek : Nat, x : Nat, szt : Nat, fixed : Nat,
         worded : BOOLEAN, glass : BOOLEAN, skip : BOOLEAN]

\* the same sequence, evaluated once
Listed(s) == s \o <<>>

Sum(s) ==
    LET t == Listed(s)
        sum[n \in 0..Len(t)] == IF n = 0 THEN 0 ELSE sum[n - 1] + t[n]
    IN sum[Len(t)]

BottlesPerUnit(n) ==
    IF n.butelek > 0 THEN n.butelek
    ELSE IF n.x > 0 THEN n.x
    ELSE IF n.worded /\ n.szt > 0 THEN n.szt
    ELSE n.fixed

\* bottles of one position, glass ones or the others
ExtractBottles(n, qty, glass) ==
    IF n.skip \/ n.glass # glass THEN 0 ELSE BottlesPerUnit(n) * qty

\* positions: a sequence of [name, qty, ...]
InvoiceBottles(positions, glass) ==
    Sum([i \in DOMAIN positions |->
            ExtractBottles(positions[i].name, positions[i].qty, glass)])

AbsOf(n) == IF n < 0 THEN -n ELSE n

\* bottles a warehouse document takes out: its actions of either bottle
WzBottles(actions, glass) ==
    Sum([i \in DOMAIN actions |->
            IF actions[i].bottle /\ actions[i].glass = glass
            THEN AbsOf(actions[i].qty) ELSE 0])
=============================================================================
