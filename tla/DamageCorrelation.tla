--------------------------- MODULE DamageCorrelation ---------------------------
(***************************************************************************)
(* Whose parcel is damaged.  A courier's notice names a parcel, seldom an  *)
(* order: the scan of the mailbox looks the parcel up among the drafts,    *)
(* then with InPost, then in a list of Apaczka's orders, and compares the  *)
(* receiver with the customers.  The scan of Allegro asks for the parcels  *)
(* of orders it has no number of, some of them in each round.  What        *)
(* becomes of a case is the subject of DamageCase.                         *)
(***************************************************************************)
EXTENDS Integers, FiniteSets

CONSTANTS
    Order_, Customer,  \* drafts, and of each its [day, person]
    Parcel, Waybill,   \* parcels, and of each [of, by, ref, receiver, day]; some are
                       \* no order's
    MaxScans,          \* bound: scans of the mailbox
    MaxRounds,         \* bound: rounds of the discovery
    MaxBacklog,        \* bound: drafts the discovery sees
    Recent, Turn_,     \* newest drafts of a round, and older ones in turn
    MaxCorrFaults      \* bound: failed calls

Field == {"email", "phone", "name", "postal_code", "city", "street"}

ASSUME CorrelationShape ==
    /\ \A d \in Order_ : DOMAIN Customer[d].person = Field
    /\ Order_ \cup Parcel \subseteq Nat \ {0}
    /\ \A p \in Parcel : /\ Waybill[p].of \in Order_ \cup {0}
                         /\ DOMAIN Waybill[p].receiver = Field
                         /\ Waybill[p].by \in {"inpost", "apaczka", "allegro"}
    /\ MaxScans \in Nat /\ MaxRounds \in Nat /\ MaxBacklog \in Nat /\ MaxCorrFaults \in Nat
    /\ Recent \in Nat /\ Turn_ \in Nat \ {0}

VARIABLES
    tracked,      \* [Order_ -> its tracking number in the store]
    told,         \* parcels a notice has come of
    link,         \* [Parcel -> the case of it: none, or of which draft]
    scanner,      \* the scan of the mailbox
    corrFaults, corrScans, corrCauses,
    backlog,      \* drafts without a number: the newest is the largest
    arrived,      \* drafts that have come so far
    turn,         \* the cursor of the discovery
    waited        \* [1..MaxBacklog -> rounds since a draft was last asked for]

correlationVars == <<tracked, told, link, scanner, corrFaults, corrScans, corrCauses,
                     backlog, arrived, turn, waited>>
discoveryVars == <<backlog, arrived, turn, waited>>

NoOrder == 0
NoParcel == 0
NoCaseYet == [open |-> FALSE, draft |-> NoOrder]
IdleScanner == [pc |-> "idle", todo |-> {}, view |-> <<>>, list |-> "unread",
                parcel |-> NoParcel, draft |-> NoOrder, found |-> FALSE]

CorrFault == corrFaults < MaxCorrFaults /\ corrFaults' = corrFaults + 1

-----------------------------------------------------------------------------
(***************************************************************************)
(* _match_provider_to_draft.  "" stands for a value nobody gave.           *)
(***************************************************************************)
Weight == [email |-> 8, phone |-> 7, name |-> 4, postal_code |-> 2, city |-> 1, street |-> 2]

MatchedFields(p, d) ==
    {f \in Field : /\ Waybill[p].receiver[f] # ""
                   /\ Waybill[p].receiver[f] = Customer[d].person[f]}
Score(fields) ==
    LET worth(f) == IF f \in fields THEN Weight[f] ELSE 0
    IN worth("email") + worth("phone") + worth("name")
       + worth("postal_code") + worth("city") + worth("street")

InWindow(p, d) == Waybill[p].day - Customer[d].day \in -2..90
DaysApart(p, d) ==
    LET days == Waybill[p].day - Customer[d].day IN IF days < 0 THEN -days ELSE days

\* an anchor, and another attribute
Candidates(p) ==
    {d \in Order_ :
        LET fields == MatchedFields(p, d)
        IN /\ InWindow(p, d)
           /\ fields \cap {"email", "phone"} # {} /\ Cardinality(fields) >= 2
           /\ Score(fields) >= 10}

Better(p, d, e) ==
    LET s == Score(MatchedFields(p, d)) t == Score(MatchedFields(p, e))
    IN s > t \/ (s = t /\ DaysApart(p, d) < DaysApart(p, e))

\* mutant: the nearest in time goes first
NearestCandidates(p) ==
    {d \in Candidates(p) : \A e \in Candidates(p) : DaysApart(p, d) <= DaysApart(p, e)}

Best(p) == {d \in Candidates(p) : \A e \in Candidates(p) : ~Better(p, e, d)}

Referenced(p) ==
    LET of == {d \in Order_ : Waybill[p].ref /\ d = Waybill[p].of}
    IN IF Cardinality(of) = 1 THEN of ELSE {}

\* the draft of the reference, or the one best candidate; of two that score
\* alike the nearer in time, if they are a day apart
Match == [p \in Parcel |->
    IF Referenced(p) # {} THEN CHOOSE d \in Referenced(p) : TRUE
    ELSE IF Cardinality(Best(p)) = 1 THEN CHOOSE d \in Best(p) : TRUE ELSE NoOrder]

\* another order of the customer scored alike and lost by its date
Nearest(p) ==
    Referenced(p) = {} /\ \E d \in Candidates(p) \ {Match[p]} :
        Score(MatchedFields(p, d)) = Score(MatchedFields(p, Match[p]))

\* What the match counts on: if any order fits the receiver well enough, the
\* parcel's own order does, and none fits better.  A household, and the
\* customer's other orders, may fit as well.
ASSUME ReceiversAreKnown ==
    \A p \in Parcel : \A d \in Candidates(p) :
       /\ Waybill[p].of \in Candidates(p)
       /\ Score(MatchedFields(p, d)) <= Score(MatchedFields(p, Waybill[p].of))

(***************************************************************************)
(* The world: the courier's number is written by whoever ordered the       *)
(* parcel, and notices come.                                               *)
(***************************************************************************)
Ordered(p) ==
    /\ Waybill[p].of # NoOrder /\ tracked[Waybill[p].of] = NoParcel
    /\ tracked' = [tracked EXCEPT ![Waybill[p].of] = p]
    /\ UNCHANGED <<told, link, scanner, corrFaults, corrScans, corrCauses, discoveryVars>>

Notice_(p) ==
    /\ scanner.pc = "idle" /\ Waybill[p].by # "allegro" /\ p \notin told /\ told' = told \cup {p}
    /\ UNCHANGED <<tracked, link, scanner, corrFaults, corrScans, corrCauses, discoveryVars>>

(***************************************************************************)
(* The scan of the mailbox: the drafts are read once, Apaczka's list when  *)
(* it is first needed and not again if that fails.                         *)
(***************************************************************************)
BeginCorrelation ==
    /\ scanner.pc = "idle" /\ corrScans < MaxScans /\ corrScans' = corrScans + 1
    /\ scanner' = [IdleScanner EXCEPT !.pc = "message", !.todo = told, !.view = tracked]
    /\ UNCHANGED <<tracked, told, link, corrFaults, corrCauses, discoveryVars>>

\* of the number, or of the case
LocalDraft(p) ==
    LET of == {d \in Order_ : scanner.view[d] = p}
    IN IF of # {} THEN CHOOSE d \in of : TRUE ELSE link[p].draft

Next_(p) == p \in scanner.todo /\ \A q \in scanner.todo : p <= q

ToTrack(p, list, draft) ==
    scanner' = [scanner EXCEPT !.pc = "track", !.todo = @ \ {p}, !.list = list, !.parcel = p,
                               !.draft = draft, !.found = TRUE]

\* looked up: with InPost, and in the list of Apaczka's orders
LookUpParcel(p) ==
    /\ scanner.pc = "message" /\ Next_(p)
    /\ LET ask == LocalDraft(p) = NoOrder
           known(list) == Waybill[p].by = "inpost" \/ (Waybill[p].by = "apaczka" /\ list = "read")
           list == IF ask /\ Waybill[p].by # "inpost" /\ scanner.list = "unread"
                   THEN "read" ELSE scanner.list
       IN IF ask /\ known(list)
          THEN /\ ToTrack(p, list, Match[p])
               /\ corrCauses' = [corrCauses EXCEPT !.guessed =
                     IF Match[p] # NoOrder /\ Nearest(p) THEN @ \cup {p} ELSE @]
          ELSE /\ scanner' = [scanner EXCEPT !.pc = "file", !.todo = @ \ {p}, !.list = list,
                                 !.parcel = p, !.draft = LocalDraft(p), !.found = FALSE]
               /\ UNCHANGED corrCauses
    /\ UNCHANGED <<tracked, told, link, corrFaults, corrScans, discoveryVars>>

\* the lookup fails: the case is filed without a draft
LookUpFails(p) ==
    /\ scanner.pc = "message" /\ Next_(p) /\ LocalDraft(p) = NoOrder /\ CorrFault
    /\ scanner' = [scanner EXCEPT !.pc = "file", !.todo = @ \ {p}, !.parcel = p,
                      !.draft = NoOrder, !.found = FALSE,
                      !.list = IF Waybill[p].by # "inpost" /\ @ = "unread" THEN "broken" ELSE @]
    /\ UNCHANGED <<tracked, told, link, corrScans, corrCauses, discoveryVars>>

\* as the draft was when the scan began
NumberMissing(d) == scanner.view[d] = NoParcel

WriteNumber ==
    /\ scanner.pc = "track"
    /\ LET d == scanner.draft
       IN IF d # NoOrder /\ NumberMissing(d)
          THEN \/ /\ tracked' = [tracked EXCEPT ![d] = scanner.parcel]
                  /\ scanner' = [scanner EXCEPT !.pc = "file", !.view[d] = scanner.parcel]
                  /\ corrCauses' = [corrCauses EXCEPT !.stale =
                        IF tracked[d] \in {NoParcel, scanner.view[d]} THEN @ ELSE @ \cup {d}]
                  /\ UNCHANGED corrFaults
               \/ /\ CorrFault /\ scanner' = [scanner EXCEPT !.pc = "file"]
                  /\ UNCHANGED <<tracked, corrCauses>>
          ELSE /\ scanner' = [scanner EXCEPT !.pc = "file"]
               /\ UNCHANGED <<tracked, corrFaults, corrCauses>>
    /\ UNCHANGED <<told, link, corrScans, discoveryVars>>

\* a case that has a draft keeps it
Linked_(case, d) ==
    [open |-> TRUE, draft |-> IF case.open /\ case.draft # NoOrder THEN case.draft ELSE d]

FileLink ==
    /\ scanner.pc = "file"
    /\ link' = [link EXCEPT ![scanner.parcel] = Linked_(@, scanner.draft)]
    /\ scanner' = IF scanner.todo = {} THEN IdleScanner
                  ELSE [scanner EXCEPT !.pc = "message", !.parcel = NoParcel,
                                       !.draft = NoOrder, !.found = FALSE]
    /\ UNCHANGED <<tracked, told, corrFaults, corrScans, corrCauses, discoveryVars>>

(***************************************************************************)
(* The scan of Allegro: the parcel of a draft's number, or that Allegro    *)
(* names for an order without one; its history tells of a damage.          *)
(***************************************************************************)
AllegroScan(d) ==
    /\ IF tracked[d] = NoParcel
       THEN \E ps \in SUBSET {p \in Parcel : Waybill[p].by = "allegro" /\ Waybill[p].of = d} :
             \E last \in ps :
                /\ tracked' = [tracked EXCEPT ![d] = last]
                /\ link' = [p \in Parcel |-> IF p \in ps THEN Linked_(link[p], d) ELSE link[p]]
       ELSE /\ Waybill[tracked[d]].by = "allegro"
            /\ link' = [link EXCEPT ![tracked[d]] = Linked_(@, d)]
            /\ UNCHANGED tracked
    /\ UNCHANGED <<told, scanner, corrFaults, corrScans, corrCauses, discoveryVars>>

CorrelationInit ==
    /\ tracked = [d \in Order_ |-> NoParcel] /\ told = {}
    /\ link = [p \in Parcel |-> NoCaseYet] /\ scanner = IdleScanner
    /\ corrFaults = 0 /\ corrScans = 0 /\ corrCauses = [guessed |-> {}, stale |-> {}]
    /\ backlog = {} /\ arrived = 0 /\ turn = 0 /\ waited = [d \in 1..MaxBacklog |-> 0]

CorrelationNext ==
    \/ \E p \in Parcel : Ordered(p) \/ Notice_(p) \/ LookUpParcel(p) \/ LookUpFails(p)
    \/ \E d \in Order_ : AllegroScan(d)
    \/ BeginCorrelation \/ WriteNumber \/ FileLink

-----------------------------------------------------------------------------
(***************************************************************************)
(* The discovery: the newest drafts of every round, the older ones in turn *)
(* by a cursor into a list that grows at its head and shrinks wherever a   *)
(* parcel was found.                                                       *)
(***************************************************************************)
OnlyCorrelation == UNCHANGED <<tracked, told, link, scanner, corrFaults, corrCauses>>

Arrives ==
    /\ arrived < MaxBacklog /\ arrived' = arrived + 1 /\ backlog' = backlog \cup {arrived + 1}
    /\ UNCHANGED <<turn, waited, corrScans>> /\ OnlyCorrelation

\* a draft is cancelled, or given its number by another
Leaves(d) ==
    /\ d \in backlog /\ backlog' = backlog \ {d} /\ waited' = [waited EXCEPT ![d] = 0]
    /\ UNCHANGED <<arrived, turn, corrScans>> /\ OnlyCorrelation

\* the drafts before it in the list
Place(d) == Cardinality({e \in backlog : e > d})

Older == {d \in backlog : Place(d) >= Recent}
OlderCount == IF Cardinality(backlog) > Recent THEN Cardinality(backlog) - Recent ELSE 0
Cursor == turn % OlderCount

TurnSize == IF Turn_ < OlderCount THEN Turn_ ELSE OlderCount

SelectedOlder ==
    {d \in Older : \E k \in 0..(TurnSize - 1) : Place(d) - Recent = (Cursor + k) % OlderCount}

NextTurn == IF OlderCount = 0 THEN turn ELSE (Cursor + TurnSize) % OlderCount

\* of those asked for, parcels are found of some
Discover ==
    /\ backlog # {} /\ corrScans < MaxRounds /\ corrScans' = corrScans + 1
    /\ LET asked == (backlog \ Older) \cup (IF OlderCount = 0 THEN {} ELSE SelectedOlder)
       IN \E found \in SUBSET asked :
             /\ backlog' = backlog \ found
             /\ waited' = [d \in 1..MaxBacklog |->
                              IF d \in backlog \ asked THEN waited[d] + 1 ELSE 0]
    /\ turn' = NextTurn
    /\ UNCHANGED arrived /\ OnlyCorrelation

DiscoveryNext == Arrives \/ (\E d \in backlog : Leaves(d)) \/ Discover

CorrelationSpec == CorrelationInit /\ [][CorrelationNext \/ DiscoveryNext]_correlationVars

-----------------------------------------------------------------------------
\* A draft is linked to a parcel that exists, a parcel to one draft at most,
\* and the turn of the number lookup points into the list
\* (damage_detection.py:393).
CorrelationTypeOK ==
    /\ \A d \in Order_ : tracked[d] \in Parcel \cup {NoParcel}
    /\ told \subseteq Parcel
    /\ \A p \in Parcel : /\ link[p].draft \in Order_ \cup {NoOrder}
                         /\ link[p].draft # NoOrder => link[p].open
    /\ scanner.pc \in {"idle", "message", "track", "file"} /\ scanner.todo \subseteq told
    /\ corrFaults \in 0..MaxCorrFaults /\ corrScans \in 0..(MaxScans + MaxRounds)
    /\ backlog \subseteq 1..arrived /\ arrived \in 0..MaxBacklog
    /\ turn \in 0..MaxBacklog

(***************************************************************************)
(* A case names the order its parcel is of, and a draft has the number of  *)
(* its own parcel, however often the mailbox is read; only a customer's    *)
(* second order may be taken for the first (damage_detection.py:213).      *)
(***************************************************************************)
ParcelsAreTheirOrders ==
    /\ \A p \in Parcel \ corrCauses.guessed : link[p].draft \in {NoOrder, Waybill[p].of}
    /\ \A d \in Order_ : \/ tracked[d] \in {NoParcel} \cup corrCauses.guessed
                         \/ Waybill[tracked[d]].of = d

(***************************************************************************)
(* A scan never replaces the number of a draft, unless it was written      *)
(* after the scan had read the drafts (damage_detection.py:620).           *)
(***************************************************************************)
NumbersStay ==
    [][\A d \in Order_ : tracked[d] # NoParcel =>
          tracked'[d] = tracked[d] \/ d \in corrCauses'.stale]_correlationVars

(***************************************************************************)
(* No draft of the backlog starves: however the list it is in grows and    *)
(* shrinks under the cursor, it is asked for again within as many rounds   *)
(* as there are pairs of drafts that have come (damage_detection.py:371).  *)
(***************************************************************************)
AskedInTurn == \A d \in backlog : waited[d] <= arrived * (arrived - 1)

(***************************************************************************)
(* Parcels and orders find each other, and rightly: no case of another     *)
(* order, no number lost, no order left out of the search                  *)
(* (damage_detection.py:213).                                              *)
(***************************************************************************)
ParcelsFindOrders ==
    /\ [](CorrelationTypeOK /\ ParcelsAreTheirOrders /\ AskedInTurn)
    /\ NumbersStay
=============================================================================
