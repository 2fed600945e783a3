--------------------------- MODULE MCMonthCollection ---------------------------
(***************************************************************************)
(* The stages that collect documents, and the browser session of the       *)
(* report stage, which shares no state with them: scope says which of the  *)
(* two a behaviour is of.                                                  *)
(***************************************************************************)
EXTENDS MonthCollection, ReportSession, TLC

CONSTANTS ware, shop, hand, s1, s2, s3

VARIABLE scope

MCRoute == (ware :> "mail") @@ (shop :> "browser") @@ (hand :> "manual")

MCMail ==
    {[vendor |-> ware, number |-> 1, text |-> "invoice", first |-> TRUE],
     [vendor |-> ware, number |-> 1, text |-> "unworded", first |-> FALSE],
     [vendor |-> shop, number |-> 3, text |-> "early", first |-> TRUE]}

\* two numbers that differ in a character a file name cannot have
MCNumber == (s1 :> 1) @@ (s2 :> 2) @@ (s3 :> 3)
MCFileOf == <<1, 2, 2>>

MCInit == scope \in {"documents", "reports"} /\ CollectionInit /\ SessionInit

MCNext ==
    \/ scope = "documents" /\ CollectionNext /\ UNCHANGED <<scope, sessionVars>>
    \/ scope = "reports" /\ SessionNext /\ UNCHANGED <<scope, collectionVars>>

MCSpec == MCInit /\ [][MCNext]_<<scope, collectionVars, sessionVars>>
=============================================================================
