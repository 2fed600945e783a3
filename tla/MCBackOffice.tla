------------------------------ MODULE MCBackOffice ------------------------------
(***************************************************************************)
(* Parts of the back office that share no state, in one run: the scope of  *)
(* a behaviour is the part that moves in it.                               *)
(***************************************************************************)
EXTENDS AllegroToken, Invoicing, DamageCase, DamageCorrelation, TLC

CONSTANTS web, job, web1, cron

Person(e, f, n, c) ==
    [email |-> e, phone |-> f, name |-> n, postal_code |-> c, city |-> c, street |-> c]
Anna == Person("a", "1", "A", "x")
Adam == Person("b", "1", "B", "x")
Olek == Person("", "3", "O", "")

Ord(day, person) == [day |-> day, person |-> person]
MCCustomer == <<Ord(0, Anna), Ord(4, Anna), Ord(5, Adam), Ord(4, Olek)>>

Pcl(of, by, ref, receiver, day) ==
    [of |-> of, by |-> by, ref |-> ref, receiver |-> receiver, day |-> day]
MCWaybill ==
    <<Pcl(1, "inpost", TRUE, Anna, 5), Pcl(1, "apaczka", FALSE, [Anna EXCEPT !.street = ""], 6),
      Pcl(2, "inpost", FALSE, Anna, 6), Pcl(4, "allegro", FALSE, Olek, 5),
      Pcl(0, "inpost", FALSE, [Adam EXCEPT !.email = "", !.phone = "9"], 6)>>

VARIABLE scope

MCProcessOf == (web1 :> web) @@ (cron :> job)
MCOperators == Permutations(Operator)

MCInit ==
    /\ TokenInit /\ InvoicingInit /\ DamageInit /\ CorrelationInit
    /\ scope \in {"token", "invoice", "damage", "correlation", "discovery"}
    /\ scope # "token" => backend = "vault" /\ kept = [s \in Secret |-> 1]
    /\ scope # "invoice" => invoice = NoInvoice

MCNext ==
    /\ UNCHANGED scope
    /\ \/ scope = "token" /\ TokenNext
          /\ UNCHANGED <<invoiceVars, damageVars, correlationVars>>
       \/ scope = "invoice" /\ InvoicingNext
          /\ UNCHANGED <<tokenVars, damageVars, correlationVars>>
       \/ scope = "damage" /\ DamageNext
          /\ UNCHANGED <<tokenVars, invoiceVars, correlationVars>>
       \/ scope = "correlation" /\ CorrelationNext
          /\ UNCHANGED <<tokenVars, invoiceVars, damageVars>>
       \/ scope = "discovery" /\ DiscoveryNext
          /\ UNCHANGED <<tokenVars, invoiceVars, damageVars>>

MCSpec ==
    MCInit /\ [][MCNext]_<<scope, tokenVars, invoiceVars, damageVars, correlationVars>>
=============================================================================
