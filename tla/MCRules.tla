-------------------------------- MODULE MCRules --------------------------------
(***************************************************************************)
(* Parts of the system that share no state, in one run: the scope of a     *)
(* behaviour is the part that moves in it.                                 *)
(***************************************************************************)
EXTENDS ParcelShipping, BottleAudit, PeriodInputs, CarrierDesk,
        ServiceHealth, TLC

Line(n, q, v) == [name |-> n, qty |-> q, value |-> v]
Nm(b, x, s, f, w, g, k) ==
    [butelek |-> b, x |-> x, szt |-> s, fixed |-> f, worded |-> w, glass |-> g, skip |-> k]

plastic6 == Nm(0, 6, 0, 0, FALSE, FALSE, FALSE)
plastic36 == Nm(36, 0, 0, 0, TRUE, FALSE, FALSE)
glass12 == Nm(0, 0, 12, 0, TRUE, TRUE, FALSE)
inserts == Nm(0, 0, 4, 0, FALSE, FALSE, FALSE)
deposit == Nm(0, 0, 0, 0, FALSE, FALSE, TRUE)

plasticOnly == <<Line(plastic6, 7, LineTotal(1001, 7, 0))>>
mixed == <<Line(glass12, 1, LineTotal(3000, 1, 0)),
           Line(plastic36, 1, LineTotal(5001, 1, 250)), Line(deposit, 3, 150)>>
unpriced == <<Line(glass12, 2, LineTotal(NoValue, 2, 0)), Line(plastic6, 1, 900)>>
unread == <<Line(inserts, 1, 700), Line(glass12, 1, 4000)>>
oneGlass == <<Line(glass12, 1, 3000)>>

MCShipping == ShippingPrice(<<[price |-> 1500, discounted |-> 1000],
                              [price |-> NoValue, discounted |-> NoValue]>>)

Base == [lines |-> mixed, shipping |-> MCShipping, cod |-> 8000, codError |-> FALSE,
         courier |-> "inpost", service |-> "courier", phone |-> TRUE, locker |-> TRUE,
         street |-> TRUE, point |-> FALSE, pointTakesCod |-> FALSE]
ByApaczka == [Base EXCEPT !.courier = "apaczka", !.service = "point",
                          !.point = TRUE, !.pointTakesCod = TRUE]

Unpaid == [Base EXCEPT !.lines = unread, !.cod = 0]

MCOrder ==
    {Base, Unpaid, [Base EXCEPT !.lines = plasticOnly, !.phone = FALSE],
     [Base EXCEPT !.lines = unpriced, !.cod = 8001],
     [Base EXCEPT !.cod = 900], [Base EXCEPT !.codError = TRUE],
     [Base EXCEPT !.lines = oneGlass, !.service = "locker"],
     [Base EXCEPT !.service = "locker", !.cod = 0, !.street = FALSE],
     ByApaczka, [ByApaczka EXCEPT !.lines = plasticOnly, !.shipping = 0, !.cod = 8009],
     [ByApaczka EXCEPT !.pointTakesCod = FALSE],
     [ByApaczka EXCEPT !.service = "none", !.cod = 0, !.point = FALSE]}

Row(t, n) == [type |-> t, qty |-> n]
MCEditPlan == {<<Row("glass2", 1)>>, <<Row("1-pak", 1)>>, <<Row("glass", 1), Row("1-pak", 2)>>,
               <<Row("1-pak", 1), Row("1-pak", 1)>>, <<Row("3-pak", 7)>>}

-----------------------------------------------------------------------------
Sale(n, q, glass) ==
    [name |-> Nm(0, n, 0, 0, FALSE, glass, FALSE), qty |-> q, value |-> 100]
Inv(id, number, issue, sell, positions, wz) ==
    [id |-> id, number |-> number, kind |-> "vat", issue |-> issue, sell |-> sell,
     positions |-> positions, wz |-> wz]
MCInvoice ==
    {Inv(1, 1, 1, 1, <<Sale(12, 1, FALSE)>>, 1), Inv(2, 2, 1, 0, <<Sale(12, 1, TRUE)>>, 2),
     Inv(3, 2, 2, 1, <<Sale(12, 1, TRUE)>>, 1), Inv(4, 3, 2, 2, <<Sale(12, 1, FALSE)>>, 3),
     Inv(5, 4, 1, 1, <<Sale(12, 1, FALSE)>>, 0), Inv(6, 4, 1, 1, <<>>, 0),
     [Inv(7, 5, 1, 1, <<Sale(12, 1, FALSE)>>, 0) EXCEPT !.kind = "proforma"],
     Inv(8, 3, 4, 1, <<Sale(12, 2, TRUE)>>, 2), Inv(9, 2, 1, 1, <<>>, 0),
     Inv(10, 4, 1, 1, <<>>, 0)}
Act(bottle, glass, qty) == [bottle |-> bottle, glass |-> glass, qty |-> qty]
Doc(id, m, actions) == [id |-> id, month |-> m, actions |-> actions]
MCWz == {Doc(1, 1, <<Act(TRUE, FALSE, -12)>>), Doc(2, 1, <<Act(TRUE, TRUE, -12)>>),
         Doc(3, 2, <<Act(TRUE, FALSE, -12), Act(FALSE, FALSE, -1)>>)}
MCDelivery == <<[doc |-> 9, month |-> 1, bottle |-> TRUE, glass |-> FALSE, qty |-> 48]>>

-----------------------------------------------------------------------------
MCDocument == UNION {[slot : {slot}, form : Form[slot]] : slot \in Slot}

-----------------------------------------------------------------------------
MCShipped == {[courier |-> "inpost", parcels |-> <<1>>],
              [courier |-> "apaczka", parcels |-> <<3, 4>>],
              [courier |-> "allegro", parcels |-> <<5>>]}

-----------------------------------------------------------------------------
Live_ == [app |-> "production", legacy |-> "", authOff |-> FALSE, vault |-> TRUE,
          tenant |-> TRUE, backend |-> "azure-identity", domains |-> TRUE, fakOff |-> FALSE,
          mode |-> "", urls |-> "missing", source |-> [p \in Provider_ |-> "vault"]]
Desktop == [Live_ EXCEPT !.app = "dev", !.legacy = "prod", !.authOff = TRUE, !.vault = FALSE,
                         !.tenant = FALSE, !.backend = "local-filesystem",
                         !.domains = FALSE, !.fakOff = TRUE,
                         !.source = [fakturownia |-> "none", allegro |-> "file",
                                     inpost |-> "env", apaczka |-> "none"]]
Stage == [Live_ EXCEPT !.app = "staging", !.mode = "fake", !.urls = "fake",
                       !.source = [p \in Provider_ |-> "env"]]
MCSetting == {Live_, Desktop, Stage, [Stage EXCEPT !.urls = "live"],
              [Live_ EXCEPT !.app = "", !.legacy = "prod", !.domains = FALSE,
                            !.source["inpost"] = "env"],
              [Desktop EXCEPT !.app = "prod", !.legacy = "dev"],
              [Desktop EXCEPT !.app = "qa"], [Live_ EXCEPT !.authOff = TRUE],
              [Desktop EXCEPT !.app = "", !.legacy = "dev", !.vault = TRUE]}

VARIABLE scope

MCInit ==
    /\ scope \in {"parcels", "audit", "inputs", "desk", "job", "health"}
    /\ ParcelInit /\ AuditInit /\ InputInit
    /\ DeskInit /\ HealthInit
    /\ scope # "parcels" => order = Unpaid
    /\ scope # "inputs" => scoped
    /\ scope # "health" => setting = Live_

MCNext ==
    /\ UNCHANGED scope
    /\ \/ scope = "parcels" /\ ParcelNext
          /\ UNCHANGED <<auditVars, inputVars, deskVars, healthVars>>
       \/ scope = "audit" /\ AuditNext
          /\ UNCHANGED <<parcelVars, inputVars, deskVars, healthVars>>
       \/ scope = "inputs" /\ InputNext
          /\ UNCHANGED <<parcelVars, auditVars, deskVars, healthVars>>
       \/ scope = "desk" /\ DeskNext
          /\ UNCHANGED <<parcelVars, auditVars, inputVars, healthVars>>
       \/ scope = "job" /\ JobNext
          /\ UNCHANGED <<parcelVars, auditVars, inputVars, healthVars>>
       \/ scope = "health" /\ HealthNext
          /\ UNCHANGED <<parcelVars, auditVars, inputVars, deskVars>>

MCSpec ==
    MCInit /\ [][MCNext]_<<scope, parcelVars, auditVars, inputVars, deskVars, healthVars>>
=============================================================================
