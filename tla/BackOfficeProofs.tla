--------------------------- MODULE BackOfficeProofs ---------------------------
(***************************************************************************)
(* Theorems about the four parts MCBackOffice runs, each for any number of *)
(* faults: AllegroToken, for any clients, processes and grants, with       *)
(* secrets in a vault or in a file; Invoicing, for any workers, attempts   *)
(* and jobs; DamageCase, for any operators, notices, moves and days; and   *)
(* DamageCorrelation, for any customers, orders, parcels and backlog.      *)
(***************************************************************************)
EXTENDS AllegroToken, Invoicing, DamageCase, DamageCorrelation, FiniteSetTheorems, TLAPS

USE TokenShape

-----------------------------------------------------------------------------
(***************************************************************************)
(* What a client holds fits the step it is at, in a store b with g grants  *)
(* of which the access tokens in d have ended: a pair that is being stored *)
(* is complete, its refresh token last, and access token and expiry are of *)
(* one grant unless the client read them apart (allegro.py:309).           *)
(***************************************************************************)
ClientField == {"pc", "refresh", "access", "expiry", "todo", "lines", "torn"}

ClientStep == {"gone", "ready", "expiry", "fetch", "store", "replace", "send"}

ToDo == {<< >>, <<"refresh">>, <<"expiry", "refresh">>,
         <<"access", "expiry", "refresh">>}

Storing == {"store", "replace"}

Fits(r, b, g, d) ==
    /\ DOMAIN r = ClientField
    /\ r.pc \in ClientStep /\ r.torn \in BOOLEAN
    /\ r.refresh \in 0..g /\ r.access \in 0..g /\ r.expiry \in 0..g
    /\ r.lines \in [Secret -> 0..g]
    /\ r.todo \in ToDo
    /\ r.todo # << >> <=> r.pc \in Storing
    /\ r.pc = "replace" => b = "file"
    /\ r.pc \in Storing \cup {"send"}
          => r.access # NoGrant /\ (~r.torn => r.access \notin d)
    /\ r.pc # "expiry" /\ ~r.torn /\ r.access # NoGrant => r.expiry = r.access

ClientsFit ==
    /\ client = [c \in Client |-> client[c]]
    /\ \A c \in Client : Fits(client[c], backend, grants, dead)

\* the stores hold what Allegro has issued
StoresFit ==
    /\ backend \in {"vault", "file"} /\ kept \in [Secret -> 0..grants]
    /\ env \in [Process -> [Secret -> 0..grants]]
    /\ cache \in [Process -> [Secret -> 0..grants]]
    /\ grants \in Known /\ usable \subseteq 1..grants
    /\ dead \subseteq aged /\ aged \subseteq 1..grants
    /\ tokenFaults \in 0..MaxTokenFaults /\ tokenCauses \subseteq TokenCause

-----------------------------------------------------------------------------
(***************************************************************************)
(* A refresh token that is about to be stored is good and known to nobody  *)
(* but its client (allegro.py:283): no store, cache, environment, copy of  *)
(* the file or other client has it, so nobody else can use it up.          *)
(***************************************************************************)
Excuse == {"lost_answer", "not_stored", "restarted", "overwritten"}

TokenIsPrivate ==
    \A c \in Client : client[c].todo # << >> =>
        LET g == client[c].refresh IN
        /\ g \in usable /\ kept["refresh"] # g
        /\ \A p \in Process : env[p]["refresh"] # g /\ cache[p]["refresh"] # g
        /\ \A d \in Client : client[d].lines["refresh"] # g
        /\ \A d \in Client \ {c} : client[d].refresh # g

RotationHolds ==
    \/ DespiteToken(Excuse)
    \/ /\ TokenIsPrivate
       /\ (\E c \in Client : client[c].todo # << >>) \/ kept["refresh"] \in usable

TokenInv == StoresFit /\ ClientsFit /\ RotationHolds

-----------------------------------------------------------------------------
LEMMA ToDoFacts ==
  ASSUME NEW t \in ToDo, t # << >>
  PROVE  /\ Head(t) \in Secret /\ Tail(t) \in ToDo
         /\ Len(t) = 1 <=> Tail(t) = << >>
         /\ Len(t) = 1 <=> Head(t) = "refresh"
<1>1. CASE t = <<"refresh">>
  BY <1>1 DEF ToDo, Secret
<1>2. CASE t = <<"expiry", "refresh">>
  BY <1>2 DEF ToDo, Secret
<1>3. CASE t = <<"access", "expiry", "refresh">>
  BY <1>3 DEF ToDo, Secret
<1> QED  BY <1>1, <1>2, <1>3 DEF ToDo

LEMMA FitsGrows ==
  ASSUME NEW r, NEW b, NEW g \in Nat, NEW h \in Nat, g <= h, NEW d, Fits(r, b, g, d)
  PROVE  Fits(r, b, h, d)
<1>1. 0..g \subseteq 0..h
  OBVIOUS
<1>2. r.lines \in [Secret -> 0..h]
  BY <1>1 DEF Fits
<1> QED  BY <1>1, <1>2 DEF Fits

(***************************************************************************)
(* What Holds does to the fields of its client and to the other clients.   *)
(***************************************************************************)
LEMMA HoldsFields ==
  ASSUME ClientsFit, NEW c \in Client, NEW fields, Holds(c, fields)
  PROVE  /\ client' = [e \in Client |-> client'[e]]
         /\ \A e \in Client \ {c} : client'[e] = client[e]
         /\ DOMAIN client'[c] = ClientField
         /\ \A f \in ClientField : client'[c][f] = IF f \in DOMAIN fields THEN fields[f]
                                             ELSE client[c][f]
BY DEF Holds, ClientsFit, Fits

LEMMA SecretsFact ==
  ASSUME StoresFit, NEW p \in Process, NEW s \in Secret
  PROVE  /\ Secrets(p, s) \in 0..grants
         /\ Secrets(p, s) \in {env[p][s], cache[p][s], kept[s]}
BY DEF StoresFit, Secrets

LEMMA ReadsFact ==
  ASSUME StoresFit, NEW p \in Process, NEW s \in Secret, Reads(p, s)
  PROVE  /\ cache' \in [Process -> [Secret -> 0..grants]]
         /\ \A q \in Process, t \in Secret :
               cache'[q][t] \in {cache[q][t]} \cup
                                (IF t = s THEN {Secrets(p, s)} ELSE {})
BY SecretsFact DEF StoresFit, Reads

LEMMA OthersFit ==
  ASSUME StoresFit, ClientsFit, NEW c \in Client, NEW fields, Holds(c, fields),
         grants' \in Known, grants <= grants', dead' = dead, backend' = backend,
         Fits(client'[c], backend, grants', dead)
  PROVE  ClientsFit'
<1>1. ASSUME NEW e \in Client, e # c
      PROVE  Fits(client'[e], backend, grants', dead)
  <2>1. client'[e] = client[e] /\ Fits(client[e], backend, grants, dead)
    BY <1>1, HoldsFields DEF ClientsFit
  <2>2. grants \in Nat /\ grants' \in Nat
    BY DEF StoresFit, Known, Grant, NoGrant
  <2> QED  BY <2>1, <2>2, FitsGrows
<1>2. client' = [e \in Client |-> client'[e]]
  BY HoldsFields
<1>3. \A e \in Client : Fits(client'[e], backend', grants', dead')
  BY <1>1
<1> QED  BY <1>2, <1>3 DEF ClientsFit

-----------------------------------------------------------------------------
(***************************************************************************)
(* Each step of a client leaves it fit for the step it has reached.        *)
(***************************************************************************)
LEMMA BuildFits ==
  ASSUME StoresFit, ClientsFit, NEW c \in Client, Build(c)
  PROVE  StoresFit' /\ ClientsFit'
<1> DEFINE p == ProcessOf[c]
           fields == [pc |-> "ready", refresh |-> Secrets(p, "refresh")]
<1>1. p \in Process /\ "refresh" \in Secret
  BY DEF Secret
<1>2. Secrets(p, "refresh") \in 0..grants
  BY <1>1, SecretsFact
<1>3. Holds(c, fields)
  BY DEF Build
<1>4. Fits(client[c], backend, grants, dead) /\ client[c].pc = "gone"
  BY DEF Build, ClientsFit
<1>5. Fits(client'[c], backend, grants, dead)
  BY <1>2, <1>3, <1>4, HoldsFields DEF Fits, ClientField, ClientStep, Storing
<1>6. StoresFit'
  <2>1. cache' \in [Process -> [Secret -> 0..grants]]
    BY <1>1, ReadsFact DEF Build
  <2> QED  BY <2>1 DEF Build, StoresFit, allegroVars
<1>7. grants' = grants /\ dead' = dead /\ backend' = backend /\ grants \in Known
  BY DEF Build, allegroVars, StoresFit
<1>8. grants \in Nat
  BY <1>7 DEF Known, Grant, NoGrant
<1> QED  BY <1>3, <1>5, <1>6, <1>7, <1>8, OthersFit

LEMMA CallFits ==
  ASSUME StoresFit, ClientsFit, NEW c \in Client, Call(c)
  PROVE  StoresFit' /\ ClientsFit'
<1> DEFINE p == ProcessOf[c]
<1>1. p \in Process /\ "access" \in Secret
  BY DEF Secret
<1>2. Secrets(p, "access") \in 0..grants
  BY <1>1, SecretsFact
<1>3. Fits(client[c], backend, grants, dead) /\ client[c].pc = "ready"
  BY DEF Call, ClientsFit
<1>4. StoresFit'
  <2>1. cache' \in [Process -> [Secret -> 0..grants]]
    BY <1>1, ReadsFact DEF Call, StoresFit
  <2> QED  BY <2>1 DEF Call, StoresFit, allegroVars
<1>5. grants' = grants /\ dead' = dead /\ backend' = backend /\ grants \in Known
      /\ grants \in Nat /\ dead \subseteq aged
  BY DEF Call, allegroVars, StoresFit, Known, Grant, NoGrant
<1>6. CASE client[c].access = NoGrant
  <2>1. Holds(c, [pc |-> "expiry", access |-> Secrets(p, "access")])
    BY <1>6 DEF Call
  <2>2. Fits(client'[c], backend, grants, dead)
    BY <1>2, <1>3, <2>1, HoldsFields DEF Fits, ClientField, ClientStep, Storing
  <2> QED  BY <1>4, <1>5, <2>1, <2>2, OthersFit
<1>7. CASE client[c].access # NoGrant
  <2> DEFINE next == IF client[c].expiry \in aged THEN "fetch" ELSE "send"
  <2>1. Holds(c, [pc |-> next])
    BY <1>7 DEF Call
  <2>2. Fits(client'[c], backend, grants, dead)
    BY <1>3, <1>5, <1>7, <2>1, HoldsFields DEF Fits, ClientField, ClientStep, Storing
  <2> QED  BY <1>4, <1>5, <2>1, <2>2, OthersFit
<1> QED  BY <1>6, <1>7

LEMMA LoadExpiryFits ==
  ASSUME StoresFit, ClientsFit, NEW c \in Client, LoadExpiry(c)
  PROVE  StoresFit' /\ ClientsFit'
<1> DEFINE p == ProcessOf[c]
           x == Secrets(p, "expiry")
<1>1. p \in Process /\ "expiry" \in Secret
  BY DEF Secret
<1>2. x \in 0..grants
  BY <1>1, SecretsFact
<1>3. Fits(client[c], backend, grants, dead) /\ client[c].pc = "expiry"
  BY DEF LoadExpiry, ClientsFit
<1>4. StoresFit'
  <2>1. cache' \in [Process -> [Secret -> 0..grants]]
    BY <1>1, ReadsFact DEF LoadExpiry
  <2> QED  BY <2>1 DEF LoadExpiry, StoresFit, allegroVars
<1>5. grants' = grants /\ dead' = dead /\ backend' = backend /\ grants \in Known
      /\ grants \in Nat /\ dead \subseteq aged
  BY DEF LoadExpiry, allegroVars, StoresFit, Known, Grant, NoGrant
<1>6. CASE StillGood(c, x)
  <2>1. Holds(c, [pc |-> "send", expiry |-> x, torn |-> x # client[c].access])
    BY <1>6 DEF LoadExpiry
  <2> HIDE DEF x
  <2>2. Fits(client'[c], backend, grants, dead)
    <3>1. /\ client'[c].pc = "send" /\ client'[c].expiry = x
          /\ client'[c].torn = (x # client[c].access)
          /\ client'[c].refresh = client[c].refresh
          /\ client'[c].access = client[c].access
          /\ client'[c].todo = client[c].todo
          /\ client'[c].lines = client[c].lines
          /\ DOMAIN client'[c] = ClientField
      BY <2>1, HoldsFields DEF ClientField
    <3>2. client'[c].torn \in BOOLEAN /\ (~client'[c].torn => x = client[c].access)
      BY <3>1
    <3>3. client[c].access # NoGrant /\ x \notin dead
      BY <1>5, <1>6 DEF StillGood
    <3> QED  BY <1>2, <1>3, <3>1, <3>2, <3>3 DEF Fits, ClientStep, Storing
  <2> QED  BY <1>4, <1>5, <2>1, <2>2, OthersFit
<1>7. CASE ~StillGood(c, x)
  <2>1. Holds(c, [pc |-> "fetch", access |-> NoGrant])
    BY <1>7 DEF LoadExpiry
  <2>2. Fits(client'[c], backend, grants, dead)
    <3>1. NoGrant \in 0..grants
      BY <1>5 DEF NoGrant
    <3> QED  BY <1>3, <2>1, <3>1, HoldsFields DEF Fits, ClientField, ClientStep, Storing
  <2> QED  BY <1>4, <1>5, <2>1, <2>2, OthersFit
<1> QED  BY <1>6, <1>7

LEMMA RefreshFits ==
  ASSUME StoresFit, ClientsFit, NEW c \in Client, Refresh(c)
  PROVE  StoresFit' /\ ClientsFit'
<1> DEFINE fields == [pc |-> "store", access |-> grants', expiry |-> grants',
                      refresh |-> grants', torn |-> FALSE,
                      todo |-> <<"access", "expiry", "refresh">>]
<1>1. /\ grants \in Nat /\ grants' = grants + 1 /\ grants' \in Known
      /\ backend' = backend /\ dead' = dead /\ aged' = aged
      /\ dead \subseteq 1..grants
  BY DEF Refresh, StoresFit, secretVars, Known, Grant, NoGrant
<1>2. Holds(c, fields)
  BY DEF Refresh
<1>3. Fits(client[c], backend, grants, dead)
  BY DEF ClientsFit
<1>4. Fits(client'[c], backend, grants', dead)
  <2>1. Fits(client[c], backend, grants', dead)
    BY <1>1, <1>3, FitsGrows
  <2>2. grants' \in 0..grants' /\ grants' # NoGrant /\ grants' \notin dead
    BY <1>1 DEF NoGrant
  <2>3. <<"access", "expiry", "refresh">> \in ToDo
        /\ <<"access", "expiry", "refresh">> # << >>
    BY DEF ToDo
  <2>4. /\ client'[c].pc = "store" /\ client'[c].access = grants'
        /\ client'[c].expiry = grants' /\ client'[c].refresh = grants'
        /\ client'[c].torn = FALSE /\ client'[c].lines = client[c].lines
        /\ client'[c].todo = <<"access", "expiry", "refresh">>
        /\ DOMAIN client'[c] = ClientField
    BY <1>2, HoldsFields DEF ClientField
  <2> QED  BY <2>1, <2>2, <2>3, <2>4 DEF Fits, ClientStep, Storing
<1>5. StoresFit'
  <2>1. 0..grants \subseteq 0..grants' /\ 1..grants \subseteq 1..grants'
    BY <1>1
  <2>2. usable' \subseteq 1..grants'
    <3>1. usable \subseteq 1..grants' /\ grants' \in 1..grants'
      BY <1>1, <2>1 DEF StoresFit
    <3> QED  BY <3>1 DEF Refresh
  <2>3. /\ kept' \in [Secret -> 0..grants'] /\ env' \in [Process -> [Secret -> 0..grants']]
        /\ cache' \in [Process -> [Secret -> 0..grants']]
    BY <2>1 DEF Refresh, StoresFit, secretVars
  <2> QED  BY <1>1, <2>1, <2>2, <2>3 DEF Refresh, StoresFit, secretVars
<1> QED  BY <1>1, <1>2, <1>4, <1>5, OthersFit

LEMMA ReadyFits ==
  ASSUME StoresFit, ClientsFit, NEW c \in Client,
         Holds(c, [pc |-> "ready"]), client[c].pc \in {"fetch", "send"},
         UNCHANGED <<backend, kept, env, cache, grants, aged, dead>>,
         usable' \subseteq usable, tokenFaults' \in 0..MaxTokenFaults,
         tokenCauses' \subseteq TokenCause
  PROVE  StoresFit' /\ ClientsFit'
<1>1. Fits(client[c], backend, grants, dead)
  BY DEF ClientsFit
<1>2. Fits(client'[c], backend, grants, dead)
  BY <1>1, HoldsFields DEF Fits, ClientField, ClientStep, Storing
<1>3. grants \in Nat /\ grants \in Known
  BY DEF StoresFit, Known, Grant, NoGrant
<1>4. StoresFit'
  BY DEF StoresFit
<1> QED  BY <1>2, <1>3, <1>4, OthersFit

LEMMA AnswerFits ==
  ASSUME StoresFit, ClientsFit, NEW c \in Client,
         LoseAnswer(c) \/ Reject(c) \/ Send(c)
  PROVE  StoresFit' /\ ClientsFit'
<1>1. CASE LoseAnswer(c)
  <2>1. tokenFaults' \in 0..MaxTokenFaults
    BY <1>1 DEF LoseAnswer, TokenFault, StoresFit
  <2>2. tokenCauses' \subseteq TokenCause /\ usable' \subseteq usable
    BY <1>1 DEF LoseAnswer, Blame, StoresFit, TokenCause
  <2> QED  BY <1>1, <2>1, <2>2, ReadyFits DEF LoseAnswer, secretVars
<1>2. CASE Reject(c)
  BY <1>2, ReadyFits DEF Reject, secretVars, allegroVars, StoresFit
<1>3. CASE Send(c)
  BY <1>3, ReadyFits DEF Send, secretVars, allegroVars, StoresFit
<1> QED  BY <1>1, <1>2, <1>3

(***************************************************************************)
(* set_secret: a client that stores is left with the rest of its pair.     *)
(***************************************************************************)
LEMMA RestFits ==
  ASSUME StoresFit, ClientsFit, NEW c \in Client, client[c].pc \in Storing,
         NEW fields, Holds(c, fields), fields.pc = Rest(c).pc,
         fields.todo = Rest(c).todo,
         \/ DOMAIN fields = {"pc", "todo"}
         \/ DOMAIN fields = {"pc", "todo", "lines"} /\ fields.lines = Nothing,
         backend' = backend, dead' = dead, grants' = grants,
         client[c].pc = "store" \/ fields.pc = "send" \/ backend = "file"
  PROVE  ClientsFit'
<1>1. Fits(client[c], backend, grants, dead)
  BY DEF ClientsFit
<1>2. grants \in Nat /\ grants \in Known
  BY DEF StoresFit, Known, Grant, NoGrant
<1>3. /\ Tail(client[c].todo) \in ToDo
      /\ Len(client[c].todo) = 1 <=> Tail(client[c].todo) = << >>
  BY <1>1, ToDoFacts DEF Fits
<1>4. /\ client'[c].pc = fields.pc /\ client'[c].todo = fields.todo
      /\ client'[c].lines \in {Nothing, client[c].lines}
      /\ client'[c].refresh = client[c].refresh
      /\ client'[c].access = client[c].access
      /\ client'[c].expiry = client[c].expiry /\ client'[c].torn = client[c].torn
      /\ DOMAIN client'[c] = ClientField
  BY HoldsFields DEF ClientField
<1>5. fields.todo = Tail(client[c].todo)
      /\ fields.pc = IF Len(client[c].todo) = 1 THEN "send" ELSE "store"
  BY DEF Rest
<1>6. Nothing \in [Secret -> 0..grants]
  BY <1>2 DEF Nothing, NoGrant
<1>7. Fits(client'[c], backend, grants, dead)
  BY <1>1, <1>3, <1>4, <1>5, <1>6 DEF Fits, ClientStep, Storing
<1> QED  BY <1>2, <1>7, OthersFit

LEMMA StoredFact ==
  ASSUME StoresFit, ClientsFit, NEW c \in Client, client[c].pc \in Storing
  PROVE  /\ Head(client[c].todo) \in Secret
         /\ client[c][Head(client[c].todo)] \in 0..grants
<1>1. Fits(client[c], backend, grants, dead)
  BY DEF ClientsFit
<1>2. Head(client[c].todo) \in Secret
  BY <1>1, ToDoFacts DEF Fits
<1> QED  BY <1>1, <1>2 DEF Fits, Secret

LEMMA VaultFits ==
  ASSUME StoresFit, ClientsFit, NEW c \in Client, StoreInVault(c)
  PROVE  StoresFit' /\ ClientsFit'
<1>1. client[c].pc = "store" /\ client[c].pc \in Storing /\ ProcessOf[c] \in Process
  BY DEF StoreInVault, Storing
<1>2. StoresFit'
  <2>1. /\ Head(client[c].todo) \in Secret
        /\ Stored(c, Head(client[c].todo)) \in 0..grants
    BY <1>1, StoredFact DEF Stored
  <2>2. kept' \in [Secret -> 0..grants] /\ cache' \in [Process -> [Secret -> 0..grants]]
    BY <1>1, <2>1 DEF StoreInVault, StoresFit
  <2> QED  BY <2>2 DEF StoreInVault, StoresFit, allegroVars
<1>3. Holds(c, Rest(c)) /\ DOMAIN Rest(c) = {"pc", "todo"}
  BY DEF StoreInVault, Rest
<1>4. backend' = backend /\ dead' = dead /\ grants' = grants
  BY DEF StoreInVault, allegroVars
<1> QED  BY <1>1, <1>2, <1>3, <1>4, RestFits

LEMMA DecryptFits ==
  ASSUME StoresFit, ClientsFit, NEW c \in Client, Decrypt(c)
  PROVE  StoresFit' /\ ClientsFit'
<1>1. Fits(client[c], backend, grants, dead) /\ client[c].pc = "store"
      /\ backend = "file" /\ kept \in [Secret -> 0..grants]
  BY DEF Decrypt, ClientsFit, StoresFit
<1>2. Holds(c, [pc |-> "replace", lines |-> kept])
  BY DEF Decrypt
<1>3. Fits(client'[c], backend, grants, dead)
  <2>1. /\ client'[c].pc = "replace" /\ client'[c].lines = kept
        /\ client'[c].refresh = client[c].refresh
        /\ client'[c].access = client[c].access
        /\ client'[c].expiry = client[c].expiry
        /\ client'[c].todo = client[c].todo /\ client'[c].torn = client[c].torn
        /\ DOMAIN client'[c] = ClientField
    BY <1>2, HoldsFields DEF ClientField
  <2> QED  BY <1>1, <2>1 DEF Fits, ClientStep, Storing
<1>4. grants' = grants /\ dead' = dead /\ backend' = backend /\ grants \in Known
      /\ grants \in Nat
  BY DEF Decrypt, allegroVars, secretVars, StoresFit, Known, Grant, NoGrant
<1>5. StoresFit'
  BY DEF Decrypt, StoresFit, secretVars, allegroVars
<1> QED  BY <1>2, <1>3, <1>4, <1>5, OthersFit

LEMMA ReplaceFits ==
  ASSUME StoresFit, ClientsFit, NEW c \in Client, Replace(c)
  PROVE  StoresFit' /\ ClientsFit'
<1> DEFINE fields == [pc |-> Rest(c).pc, todo |-> Rest(c).todo, lines |-> Nothing]
<1>1. Fits(client[c], backend, grants, dead) /\ client[c].pc = "replace"
      /\ client[c].pc \in Storing
  BY DEF Replace, ClientsFit, Storing
<1>2. StoresFit'
  <2>1. /\ Head(client[c].todo) \in Secret
        /\ Stored(c, Head(client[c].todo)) \in 0..grants
    BY <1>1, StoredFact DEF Stored
  <2>2. kept' \in [Secret -> 0..grants]
    BY <1>1, <2>1 DEF Replace, Fits
  <2>3. tokenCauses' \subseteq TokenCause
    BY DEF Replace, Blame, StoresFit, TokenCause
  <2> QED  BY <2>2, <2>3 DEF Replace, StoresFit, allegroVars
<1>3. Holds(c, fields) /\ DOMAIN fields = {"pc", "todo", "lines"}
  BY DEF Replace
<1>4. backend' = backend /\ dead' = dead /\ grants' = grants /\ backend = "file"
  BY <1>1 DEF Replace, allegroVars, Fits
<1>5. fields.pc = Rest(c).pc /\ fields.todo = Rest(c).todo /\ fields.lines = Nothing
  OBVIOUS
<1> QED  BY <1>1, <1>2, <1>3, <1>4, <1>5, RestFits

LEMMA NotStoredFits ==
  ASSUME StoresFit, ClientsFit, NEW c \in Client, NotStored(c)
  PROVE  StoresFit' /\ ClientsFit'
<1> DEFINE fields == [pc |-> Rest(c).pc, todo |-> Rest(c).todo, lines |-> Nothing]
<1>1. Fits(client[c], backend, grants, dead) /\ client[c].pc \in Storing
  BY DEF NotStored, ClientsFit, Storing
<1>2. StoresFit'
  <2>1. /\ Head(client[c].todo) \in Secret /\ ProcessOf[c] \in Process
        /\ client[c][Head(client[c].todo)] \in 0..grants
    BY <1>1, StoredFact
  <2>2. env' \in [Process -> [Secret -> 0..grants]]
    BY <2>1 DEF NotStored, StoresFit
  <2>3. tokenFaults' \in 0..MaxTokenFaults /\ tokenCauses' \subseteq TokenCause
    BY DEF NotStored, TokenFault, Blame, StoresFit, TokenCause
  <2> QED  BY <2>2, <2>3 DEF NotStored, StoresFit, allegroVars
<1>3. Holds(c, fields) /\ DOMAIN fields = {"pc", "todo", "lines"}
  BY DEF NotStored
<1>4. backend' = backend /\ dead' = dead /\ grants' = grants
  BY DEF NotStored, allegroVars
<1>5. fields.pc = Rest(c).pc /\ fields.todo = Rest(c).todo /\ fields.lines = Nothing
  OBVIOUS
<1>6. client[c].pc = "store" \/ backend = "file"
  BY <1>1 DEF Fits, Storing
<1> QED  BY <1>1, <1>2, <1>3, <1>4, <1>5, <1>6, RestFits

-----------------------------------------------------------------------------
(***************************************************************************)
(* The operator, the passing of time and restarts.                         *)
(***************************************************************************)
LEMMA GoneFits ==
  ASSUME NEW b, NEW g \in Nat, NEW d
  PROVE  Fits(Gone, b, g, d)
<1>1. NoGrant \in 0..g /\ Nothing \in [Secret -> 0..g]
  BY DEF NoGrant, Nothing
<1>2. << >> \in ToDo
  BY DEF ToDo
<1> QED  BY <1>1, <1>2 DEF Gone, Fits, ClientField, ClientStep, Storing

LEMMA DiscardFits ==
  ASSUME StoresFit, ClientsFit, NEW c \in Client, Discard(c)
  PROVE  StoresFit' /\ ClientsFit'
<1>1. StoresFit'
  BY DEF Discard, StoresFit, secretVars, allegroVars
<1>2. grants \in Nat /\ grants' = grants /\ dead' = dead /\ backend' = backend
  BY DEF Discard, StoresFit, secretVars, allegroVars, Known, Grant, NoGrant
<1>3. Fits(Gone, backend, grants, dead)
  BY <1>2, GoneFits
<1> QED  BY <1>1, <1>2, <1>3 DEF Discard, ClientsFit

LEMMA AuthoriseFits ==
  ASSUME StoresFit, ClientsFit, Authorise
  PROVE  StoresFit' /\ ClientsFit'
<1>1. grants \in Nat /\ grants' = grants + 1 /\ grants' \in Known
  BY DEF Authorise, StoresFit, Known, Grant, NoGrant
<1>2. 0..grants \subseteq 0..grants' /\ 1..grants \subseteq 1..grants'
      /\ grants' \in 0..grants' /\ grants' \in 1..grants'
  BY <1>1
<1>3. /\ env' \in [Process -> [Secret -> 0..grants']]
      /\ cache' \in [Process -> [Secret -> 0..grants']]
  BY <1>2 DEF Authorise, StoresFit
<1>4. kept' \in [Secret -> 0..grants'] /\ usable' \subseteq 1..grants'
      /\ aged' \subseteq 1..grants'
  BY <1>2 DEF Authorise, StoresFit
<1>5. StoresFit'
  BY <1>1, <1>3, <1>4 DEF Authorise, StoresFit
<1>6. ASSUME NEW c \in Client
      PROVE  Fits(client[c], backend, grants', dead)
  BY <1>1, FitsGrows DEF ClientsFit
<1> QED  BY <1>5, <1>6 DEF Authorise, ClientsFit

LEMMA TimeFits ==
  ASSUME StoresFit, ClientsFit, NEW g \in Grant, Age(g) \/ Die(g)
  PROVE  StoresFit' /\ ClientsFit'
<1>1. StoresFit'
  BY DEF Age, Die, StoresFit, secretVars
<1>2. CASE Age(g)
  BY <1>1, <1>2 DEF Age, ClientsFit, secretVars
<1>3. CASE Die(g)
  <2>1. ASSUME NEW c \in Client
        PROVE  Fits(client[c], backend, grants, dead')
    BY <1>3 DEF Die, ClientsFit, Fits, Storing
  <2> QED  BY <1>1, <1>3, <2>1 DEF Die, ClientsFit, secretVars
<1> QED  BY <1>2, <1>3

LEMMA ProcessFits ==
  ASSUME StoresFit, ClientsFit, NEW p \in Process, Lapse(p) \/ RestartProcess(p)
  PROVE  StoresFit' /\ ClientsFit'
<1>1. grants \in Nat /\ Nothing \in [Secret -> 0..grants]
  BY DEF StoresFit, Known, Grant, NoGrant, Nothing
<1>2. CASE Lapse(p)
  BY <1>1, <1>2 DEF Lapse, StoresFit, ClientsFit, allegroVars
<1>3. CASE RestartProcess(p)
  <2>1. tokenFaults' \in 0..MaxTokenFaults /\ tokenCauses' \subseteq TokenCause
    BY <1>3 DEF RestartProcess, TokenFault, Blame, StoresFit, TokenCause
  <2>2. StoresFit'
    BY <1>1, <1>3, <2>1 DEF RestartProcess, StoresFit, allegroVars
  <2>3. ASSUME NEW c \in Client
        PROVE  Fits(client'[c], backend, grants, dead)
    BY <1>1, <1>3, GoneFits DEF RestartProcess, ClientsFit
  <2> QED  BY <1>3, <2>2, <2>3 DEF RestartProcess, ClientsFit, allegroVars
<1> QED  BY <1>2, <1>3

LEMMA StepFits ==
  ASSUME StoresFit, ClientsFit, TokenNext
  PROVE  StoresFit' /\ ClientsFit'
<1>1. CASE \E c \in Client :
              \/ Build(c) \/ Call(c) \/ LoadExpiry(c) \/ Refresh(c)
              \/ LoseAnswer(c) \/ Reject(c) \/ StoreInVault(c) \/ Decrypt(c)
              \/ Replace(c) \/ NotStored(c) \/ Send(c) \/ Discard(c)
  BY <1>1, BuildFits, CallFits, LoadExpiryFits, RefreshFits, AnswerFits, VaultFits,
     DecryptFits, ReplaceFits, NotStoredFits, DiscardFits
<1>2. CASE Authorise
  BY <1>2, AuthoriseFits
<1>3. CASE \E g \in Grant : Age(g) \/ Die(g)
  BY <1>3, TimeFits
<1>4. CASE \E p \in Process : Lapse(p) \/ RestartProcess(p)
  BY <1>4, ProcessFits
<1> QED  BY <1>1, <1>2, <1>3, <1>4 DEF TokenNext

LEMMA FitIsTyped ==
  ASSUME StoresFit, ClientsFit
  PROVE  TokenTypeOK /\ SentIsAlive
<1>1. grants \in Nat /\ 0..grants \subseteq Known /\ grants \in Known
      /\ MaxGrants \in Nat
  BY DEF StoresFit, Known, Grant, NoGrant
<1>2. ASSUME NEW c \in Client
      PROVE  /\ client[c].pc \in ClientStep
             /\ {client[c].refresh, client[c].access, client[c].expiry} \subseteq Known
             /\ client[c].todo \in Seq(Secret) /\ client[c].lines \in [Secret -> Known]
             /\ client[c].pc = "send" => client[c].access \in Grant
             /\ client[c].pc = "send" /\ ~client[c].torn => client[c].access \notin dead
             /\ client[c].torn \in BOOLEAN
  <2>1. Fits(client[c], backend, grants, dead)
    BY DEF ClientsFit
  <2>2. ToDo \subseteq Seq(Secret)
    BY DEF ToDo, Secret
  <2>3. client[c].lines \in [Secret -> Known]
    BY <1>1, <2>1 DEF Fits
  <2> QED  BY <1>1, <2>1, <2>2, <2>3 DEF Fits, Known
<1>3. kept \in [Secret -> Known] /\ env \in [Process -> [Secret -> Known]]
      /\ cache \in [Process -> [Secret -> Known]]
  BY <1>1 DEF StoresFit
<1> QED  BY <1>1, <1>2, <1>3 DEF StoresFit, TokenTypeOK, SentIsAlive, ClientStep

-----------------------------------------------------------------------------
(***************************************************************************)
(* A token that is about to be stored stays private.  A step either tells  *)
(* nobody a token it could not read before, or excuses itself.             *)
(***************************************************************************)
Readable == {kept["refresh"]} \cup {env[p]["refresh"] : p \in Process}
                              \cup {cache[p]["refresh"] : p \in Process}

Copies == {client[d].lines["refresh"] : d \in Client}

\* TokenIsPrivate in terms of what can be read
LEMMA PrivateForm ==
  TokenIsPrivate <=>
     \A c \in Client : client[c].todo # << >> =>
         /\ client[c].refresh \in usable
         /\ client[c].refresh \notin Readable \cup Copies
         /\ \A d \in Client \ {c} : client[d].refresh # client[c].refresh
BY DEF TokenIsPrivate, Readable, Copies

(***************************************************************************)
(* A step that begins no storing, gives nobody a token other than one that *)
(* could be read, and uses up none, keeps the tokens private.              *)
(***************************************************************************)
LEMMA QuietStep ==
  ASSUME TokenIsPrivate, usable \subseteq usable',
         \A c \in Client : client'[c].todo # << >> =>
             /\ client[c].todo # << >> /\ client'[c].refresh = client[c].refresh
             /\ client[c].refresh \notin Readable' \cup Copies'
             /\ \A d \in Client \ {c} :
                   client'[d].refresh \in {client[d].refresh, NoGrant} \cup Readable,
         NoGrant \notin usable
  PROVE  TokenIsPrivate'
BY DEF TokenIsPrivate, Readable, Copies

KeptIsUsable ==
    (\E c \in Client : client[c].todo # << >>) \/ kept["refresh"] \in usable

Quiet == TokenIsPrivate /\ KeptIsUsable

LEMMA ReadFact ==
  ASSUME StoresFit, NEW p \in Process, NEW s \in Secret, Reads(p, s),
         UNCHANGED <<kept, env>>
  PROVE  Readable' \subseteq Readable
<1>1. \A q \in Process : cache'[q]["refresh"] \in Readable
  <2>1. "refresh" \in Secret
    BY DEF Secret
  <2>2. Secrets(p, "refresh") \in Readable
    BY <2>1, SecretsFact DEF Readable
  <2>3. \A q \in Process : cache[q]["refresh"] \in Readable
    BY DEF Readable
  <2> QED  BY <2>1, <2>2, <2>3, ReadsFact
<1> QED  BY <1>1 DEF Readable

\* steps of a client that is not storing
LEMMA IdleStep ==
  ASSUME StoresFit, ClientsFit, Quiet, NEW c \in Client, client[c].pc \notin Storing,
         NEW fields, Holds(c, fields),
         DOMAIN fields \subseteq {"pc", "refresh", "access", "expiry", "torn"},
         "refresh" \in DOMAIN fields => fields["refresh"] \in Readable,
         UNCHANGED <<kept, usable>>, Readable' \subseteq Readable
  PROVE  Quiet'
<1>1. client[c].todo = << >>
  BY DEF ClientsFit, Fits
<1>2. /\ client'[c].todo = << >> /\ client'[c].lines = client[c].lines
      /\ client'[c].refresh \in {client[c].refresh} \cup Readable
      /\ \A d \in Client \ {c} : client'[d] = client[d]
  BY <1>1, HoldsFields DEF ClientField
<1>3. Copies' = Copies
  BY <1>2 DEF Copies
<1>4. NoGrant \notin usable
  BY DEF StoresFit, NoGrant
<1>5. TokenIsPrivate /\ KeptIsUsable
  BY DEF Quiet
<1>6. TokenIsPrivate'
  <2>1. ASSUME NEW d \in Client, client'[d].todo # << >>
        PROVE  /\ client[d].todo # << >> /\ client'[d].refresh = client[d].refresh
               /\ client[d].refresh \notin Readable' \cup Copies'
               /\ \A e \in Client \ {d} :
                     client'[e].refresh \in {client[e].refresh, NoGrant} \cup Readable
    BY <1>2, <1>3, <1>5, <2>1, PrivateForm
  <2> QED  BY <1>4, <1>5, <2>1, QuietStep
<1>7. KeptIsUsable'
  BY <1>1, <1>2, <1>5 DEF KeptIsUsable
<1> QED  BY <1>6, <1>7 DEF Quiet

LEMMA ReadingIsQuiet ==
  ASSUME StoresFit, ClientsFit, Quiet, NEW c \in Client,
         Build(c) \/ Call(c) \/ LoadExpiry(c) \/ Reject(c) \/ Send(c)
  PROVE  Quiet'
<1> DEFINE p == ProcessOf[c]
<1>1. p \in Process /\ Secret = {"access", "expiry", "refresh"}
  BY DEF Secret
<1>2. Secrets(p, "refresh") \in Readable
  BY <1>1, SecretsFact DEF Readable
<1>3. CASE Build(c)
  <2>1. Readable' \subseteq Readable
    BY <1>1, <1>3, ReadFact DEF Build
  <2> QED  BY <1>2, <1>3, <2>1, IdleStep DEF Build, Storing, allegroVars
<1>4. CASE Call(c)
  <2>1. Readable' \subseteq Readable
    <3>1. CASE client[c].access = NoGrant
      BY <1>1, <1>4, <3>1, ReadFact DEF Call
    <3>2. CASE client[c].access # NoGrant
      BY <1>4, <3>2 DEF Call, Readable
    <3> QED  BY <3>1, <3>2
  <2>2. client[c].pc \notin Storing /\ UNCHANGED <<kept, usable>>
    BY <1>4 DEF Call, Storing, allegroVars
  <2>3. CASE client[c].access = NoGrant
    BY <1>4, <2>1, <2>2, <2>3, IdleStep DEF Call
  <2>4. CASE client[c].access # NoGrant
    BY <1>4, <2>1, <2>2, <2>4, IdleStep DEF Call
  <2> QED  BY <2>3, <2>4
<1>5. CASE LoadExpiry(c)
  <2> DEFINE x == Secrets(p, "expiry")
  <2>1. Readable' \subseteq Readable
    BY <1>1, <1>5, ReadFact DEF LoadExpiry
  <2>2. client[c].pc \notin Storing /\ UNCHANGED <<kept, usable>>
    BY <1>5 DEF LoadExpiry, Storing, allegroVars
  <2>3. CASE StillGood(c, x)
    BY <1>5, <2>1, <2>2, <2>3, IdleStep DEF LoadExpiry
  <2>4. CASE ~StillGood(c, x)
    BY <1>5, <2>1, <2>2, <2>4, IdleStep DEF LoadExpiry
  <2> QED  BY <2>3, <2>4
<1>6. CASE Reject(c) \/ Send(c)
  <2>1. Readable' \subseteq Readable
    BY <1>6 DEF Reject, Send, secretVars, Readable
  <2> QED  BY <1>6, <2>1, IdleStep DEF Reject, Send, Storing, allegroVars, secretVars
<1> QED  BY <1>3, <1>4, <1>5, <1>6

LEMMA RefreshIsQuiet ==
  ASSUME StoresFit, ClientsFit, Quiet, NEW c \in Client, Refresh(c)
  PROVE  Quiet'
<1>1. /\ grants \in Nat /\ grants' = grants + 1
      /\ usable' = (usable \ {client[c].refresh}) \cup {grants'}
      /\ usable \subseteq 1..grants
  BY DEF Refresh, StoresFit, Known, Grant, NoGrant
<1>2. client[c].todo = << >>
  BY DEF Refresh, ClientsFit, Fits, Storing
<1>3. /\ client'[c].todo = <<"access", "expiry", "refresh">>
      /\ client'[c].refresh = grants' /\ client'[c].lines = client[c].lines
      /\ \A d \in Client \ {c} : client'[d] = client[d]
  BY HoldsFields DEF Refresh, ClientField
<1>4. Readable' = Readable /\ Copies' = Copies
  BY <1>3 DEF Refresh, secretVars, Readable, Copies
<1>5. "refresh" \in Secret
  BY DEF Secret
<1>6. Readable \cup Copies \subseteq 0..grants
  <2>1. \A d \in Client : client[d].lines["refresh"] \in 0..grants
    BY <1>5 DEF ClientsFit, Fits
  <2> QED  BY <1>5, <2>1 DEF Readable, Copies, StoresFit
<1>7. \A d \in Client : client[d].refresh \in 0..grants
  BY DEF ClientsFit, Fits
<1>8. ASSUME NEW d \in Client, client'[d].todo # << >>
      PROVE  /\ client'[d].refresh \in usable'
             /\ client'[d].refresh \notin Readable' \cup Copies'
             /\ \A e \in Client \ {d} : client'[e].refresh # client'[d].refresh
  <2>1. CASE d = c
    <3>1. grants' \notin 0..grants
      BY <1>1
    <3> QED  BY <1>1, <1>3, <1>4, <1>6, <1>7, <2>1, <3>1
  <2>2. CASE d # c
    <3>1. /\ client[d].todo # << >> /\ client[d].refresh \in usable
          /\ client[d].refresh \notin Readable \cup Copies
          /\ \A e \in Client \ {d} : client[e].refresh # client[d].refresh
      BY <1>3, <1>8, <2>2, PrivateForm DEF Quiet
    <3>2. client[d].refresh # grants'
      BY <1>1, <1>7
    <3> QED  BY <1>1, <1>3, <1>4, <2>2, <3>1, <3>2
  <2> QED  BY <2>1, <2>2
<1>9. TokenIsPrivate'
  BY <1>8 DEF TokenIsPrivate, Readable, Copies
<1>10. KeptIsUsable'
  <2>1. <<"access", "expiry", "refresh">> # << >>
    OBVIOUS
  <2> QED  BY <1>3, <2>1 DEF KeptIsUsable
<1> QED  BY <1>9, <1>10 DEF Quiet

\* a client stores one secret of its pair
LEMMA StoringStep ==
  ASSUME StoresFit, ClientsFit, Quiet, NEW c \in Client, client[c].pc \in Storing,
         client'[c].todo = Tail(client[c].todo),
         client'[c].refresh = client[c].refresh,
         client'[c].lines \in {client[c].lines, Nothing},
         \A d \in Client \ {c} : client'[d] = client[d],
         usable' = usable,
         Readable' \subseteq Readable \cup Copies \cup {client[c].refresh},
         Head(client[c].todo) # "refresh" => Readable' \subseteq Readable \cup Copies,
         Head(client[c].todo) = "refresh" => kept'["refresh"] = client[c].refresh
  PROVE  Quiet'
<1>1. client[c].todo # << >> /\ client[c].todo \in ToDo
  BY DEF ClientsFit, Fits
<1>2. client'[c].todo = << >> <=> Head(client[c].todo) = "refresh"
  BY <1>1, ToDoFacts
<1>3. NoGrant \notin usable
  BY DEF StoresFit, NoGrant
<1>4. TokenIsPrivate /\ client[c].refresh \in usable
  BY <1>1 DEF Quiet, TokenIsPrivate
<1>5. Copies' \subseteq Copies \cup {NoGrant}
  BY DEF Copies, Nothing, Secret
<1>6. TokenIsPrivate'
  <2>1. ASSUME NEW d \in Client, client'[d].todo # << >>
        PROVE  /\ client[d].todo # << >> /\ client'[d].refresh = client[d].refresh
               /\ client[d].refresh \notin Readable' \cup Copies'
               /\ \A e \in Client \ {d} :
                     client'[e].refresh \in {client[e].refresh, NoGrant} \cup Readable
    <3>1. client[d].todo # << >> /\ client'[d].refresh = client[d].refresh
      BY <1>1, <2>1
    <3>2. /\ client[d].refresh \in usable
          /\ client[d].refresh \notin Readable \cup Copies
          /\ \A e \in Client \ {d} : client[e].refresh # client[d].refresh
      BY <1>4, <3>1, PrivateForm
    <3>3. client[d].refresh \notin Readable'
      BY <1>2, <2>1, <3>2
    <3> QED  BY <1>3, <1>5, <3>1, <3>2, <3>3
  <2> QED  BY <1>3, <1>4, <2>1, QuietStep
<1>7. KeptIsUsable'
  BY <1>2, <1>4 DEF KeptIsUsable
<1> QED  BY <1>6, <1>7 DEF Quiet

LEMMA StoringIsQuiet ==
  ASSUME StoresFit, ClientsFit, Quiet, NEW c \in Client,
         StoreInVault(c) \/ Decrypt(c) \/ Replace(c)
  PROVE  Quiet'
<1> DEFINE p == ProcessOf[c]
           s == Head(client[c].todo)
<1>1. /\ client[c].pc \in Storing /\ p \in Process /\ s \in Secret
      /\ Secret = {"access", "expiry", "refresh"}
  BY StoredFact DEF StoreInVault, Decrypt, Replace, Storing, Secret
<1>2. CASE StoreInVault(c)
  <2>1. /\ client'[c].todo = Tail(client[c].todo)
        /\ client'[c].refresh = client[c].refresh
        /\ client'[c].lines = client[c].lines
        /\ \A d \in Client \ {c} : client'[d] = client[d]
    <3>1. /\ Holds(c, Rest(c)) /\ DOMAIN Rest(c) = {"pc", "todo"}
          /\ Rest(c)["todo"] = Tail(client[c].todo)
      BY <1>2 DEF StoreInVault, Rest
    <3> QED  BY <3>1, HoldsFields DEF ClientField
  <2>2. /\ kept' = [kept EXCEPT ![s] = client[c][s]]
        /\ cache' = [cache EXCEPT ![p][s] = client[c][s]]
        /\ env' = env /\ usable' = usable
    BY <1>2 DEF StoreInVault, Stored, allegroVars
  <2>3. /\ s = "refresh" => client[c][s] = client[c].refresh
        /\ kept' \in [Secret -> 0..grants']
    BY <1>2, VaultFits DEF StoresFit
  <2> HIDE DEF s, p
  <2>4. /\ kept'["refresh"] = IF s = "refresh" THEN client[c].refresh
                                               ELSE kept["refresh"]
        /\ \A q \in Process : cache'[q]["refresh"] \in
              {cache[q]["refresh"]} \cup
              (IF s = "refresh" THEN {client[c].refresh} ELSE {})
    BY <1>1, <2>2, <2>3 DEF StoresFit
  <2>5. Readable' \subseteq Readable \cup (IF s = "refresh" THEN {client[c].refresh} ELSE {})
    BY <2>2, <2>4 DEF Readable
  <2> QED  BY <1>1, <2>1, <2>2, <2>4, <2>5, StoringStep DEF s
<1>3. CASE Decrypt(c)
  <2>1. /\ client'[c].todo = client[c].todo /\ client'[c].refresh = client[c].refresh
        /\ client'[c].lines = kept
        /\ \A d \in Client \ {c} : client'[d] = client[d]
    BY <1>3, HoldsFields DEF Decrypt, ClientField
  <2>2. Readable' = Readable /\ Copies' \subseteq Copies \cup Readable
    BY <1>3, <2>1 DEF Decrypt, secretVars, Readable, Copies
  <2>3. usable' = usable /\ NoGrant \notin usable
    BY <1>3 DEF Decrypt, allegroVars, StoresFit, NoGrant
  <2>4. TokenIsPrivate'
    <3>1. ASSUME NEW d \in Client, client'[d].todo # << >>
          PROVE  /\ client[d].todo # << >> /\ client'[d].refresh = client[d].refresh
                 /\ client[d].refresh \notin Readable' \cup Copies'
                 /\ \A e \in Client \ {d} :
                       client'[e].refresh \in {client[e].refresh, NoGrant} \cup Readable
      BY <2>1, <2>2, <3>1, PrivateForm DEF Quiet
    <3> QED  BY <2>3, <3>1, QuietStep DEF Quiet
  <2>5. KeptIsUsable'
    <3>1. client[c].todo # << >>
      BY <1>1 DEF ClientsFit, Fits
    <3> QED  BY <2>1, <3>1 DEF KeptIsUsable
  <2> QED  BY <2>4, <2>5 DEF Quiet
<1>4. CASE Replace(c)
  <2>1. /\ client'[c].todo = Tail(client[c].todo)
        /\ client'[c].refresh = client[c].refresh
        /\ client'[c].lines = Nothing
        /\ \A d \in Client \ {c} : client'[d] = client[d]
    <3> DEFINE fields == [pc |-> Rest(c).pc, todo |-> Rest(c).todo, lines |-> Nothing]
    <3>1. /\ Holds(c, fields) /\ DOMAIN fields = {"pc", "todo", "lines"}
          /\ fields["todo"] = Tail(client[c].todo) /\ fields["lines"] = Nothing
      BY <1>4 DEF Replace, Rest
    <3> HIDE DEF fields
    <3> QED  BY <3>1, HoldsFields DEF ClientField
  <2>2. /\ kept' = [client[c].lines EXCEPT ![s] = client[c][s]]
        /\ cache' = cache /\ env' = env /\ usable' = usable
    BY <1>4 DEF Replace, Stored, allegroVars
  <2>3. /\ s = "refresh" => client[c][s] = client[c].refresh
        /\ client[c].lines \in [Secret -> 0..grants]
    BY DEF ClientsFit, Fits
  <2> HIDE DEF s, p
  <2>4. kept'["refresh"] = IF s = "refresh" THEN client[c].refresh
                                            ELSE client[c].lines["refresh"]
    BY <1>1, <2>2, <2>3
  <2>5. Readable' \subseteq Readable \cup Copies \cup
                            (IF s = "refresh" THEN {client[c].refresh} ELSE {})
    BY <2>2, <2>4 DEF Readable, Copies
  <2> QED  BY <1>1, <2>1, <2>2, <2>4, <2>5, StoringStep DEF s
<1> QED  BY <1>2, <1>3, <1>4

LEMMA OutsideIsQuiet ==
  ASSUME StoresFit, ClientsFit, Quiet,
         \/ \E c \in Client : Discard(c)
         \/ Authorise
         \/ \E g \in Grant : Age(g) \/ Die(g)
         \/ \E p \in Process : Lapse(p)
  PROVE  Quiet'
<1>1. CASE \E c \in Client : Discard(c)
  <2>1. PICK c \in Client : Discard(c)
    BY <1>1
  <2>2. /\ client[c].todo = << >> /\ client' = [client EXCEPT ![c] = Gone]
        /\ DOMAIN client = Client
    BY <2>1 DEF Discard, ClientsFit, Fits, Storing
  <2>3. /\ Gone.todo = << >> /\ Gone.refresh = NoGrant
        /\ Gone.lines["refresh"] = NoGrant
    BY DEF Gone, Nothing, Secret
  <2>4. Readable' = Readable /\ Copies' \subseteq Copies \cup {NoGrant}
    BY <2>1, <2>2, <2>3 DEF Discard, secretVars, Readable, Copies
  <2>5. usable' = usable /\ NoGrant \notin usable /\ kept' = kept
    BY <2>1 DEF Discard, allegroVars, secretVars, StoresFit, NoGrant
  <2>6. TokenIsPrivate'
    <3>1. ASSUME NEW d \in Client, client'[d].todo # << >>
          PROVE  /\ client[d].todo # << >> /\ client'[d].refresh = client[d].refresh
                 /\ client[d].refresh \notin Readable' \cup Copies'
                 /\ \A e \in Client \ {d} :
                       client'[e].refresh \in {client[e].refresh, NoGrant} \cup Readable
      BY <2>2, <2>3, <2>4, <2>5, <3>1, PrivateForm DEF Quiet
    <3> QED  BY <2>5, <3>1, QuietStep DEF Quiet
  <2>7. KeptIsUsable'
    BY <2>2, <2>5 DEF Quiet, KeptIsUsable
  <2> QED  BY <2>6, <2>7 DEF Quiet
<1>2. CASE Authorise
  <2>1. /\ grants \in Nat /\ grants' = grants + 1 /\ usable' = usable \cup {grants'}
        /\ kept' = [s \in Secret |-> grants'] /\ usable \subseteq 1..grants
        /\ client' = client /\ env' = env /\ cache' = cache
    BY <1>2 DEF Authorise, StoresFit, Known, Grant, NoGrant
  <2>2. kept'["refresh"] = grants'
    BY <2>1 DEF Secret
  <2>3. Readable' \subseteq Readable \cup {grants'} /\ Copies' = Copies
    BY <2>1, <2>2 DEF Readable, Copies
  <2>4. grants' \notin usable /\ NoGrant \notin usable
    BY <2>1 DEF NoGrant
  <2>5. TokenIsPrivate'
    <3>1. ASSUME NEW d \in Client, client'[d].todo # << >>
          PROVE  /\ client[d].todo # << >> /\ client'[d].refresh = client[d].refresh
                 /\ client[d].refresh \notin Readable' \cup Copies'
                 /\ \A e \in Client \ {d} :
                       client'[e].refresh \in {client[e].refresh, NoGrant} \cup Readable
      BY <2>1, <2>3, <2>4, <3>1, PrivateForm DEF Quiet
    <3> QED  BY <2>1, <2>4, <3>1, QuietStep DEF Quiet
  <2>6. KeptIsUsable'
    BY <2>1, <2>2 DEF KeptIsUsable
  <2> QED  BY <2>5, <2>6 DEF Quiet
<1>3. CASE \E g \in Grant : Age(g) \/ Die(g)
  BY <1>3 DEF Age, Die, secretVars, Quiet, TokenIsPrivate, KeptIsUsable
<1>4. CASE \E p \in Process : Lapse(p)
  <2>1. PICK p \in Process : Lapse(p)
    BY <1>4
  <2>2. Readable' \subseteq Readable \cup {NoGrant}
    <3>1. Nothing["refresh"] = NoGrant
      BY DEF Nothing, Secret
    <3> QED  BY <2>1, <3>1 DEF Lapse, Readable, StoresFit
  <2>3. /\ client' = client /\ usable' = usable /\ kept' = kept
        /\ Copies' = Copies /\ NoGrant \notin usable
    BY <2>1 DEF Lapse, allegroVars, Copies, StoresFit, NoGrant
  <2>4. TokenIsPrivate'
    <3>1. ASSUME NEW d \in Client, client'[d].todo # << >>
          PROVE  /\ client[d].todo # << >> /\ client'[d].refresh = client[d].refresh
                 /\ client[d].refresh \notin Readable' \cup Copies'
                 /\ \A e \in Client \ {d} :
                       client'[e].refresh \in {client[e].refresh, NoGrant} \cup Readable
      BY <2>2, <2>3, <3>1, PrivateForm DEF Quiet
    <3> QED  BY <2>3, <3>1, QuietStep DEF Quiet
  <2> QED  BY <2>3, <2>4 DEF Quiet, KeptIsUsable
<1> QED  BY <1>1, <1>2, <1>3, <1>4

LEMMA RestartIsQuiet ==
  ASSUME StoresFit, ClientsFit, Quiet, NEW p \in Process, RestartProcess(p),
         \A c \in Client : ProcessOf[c] = p => client[c].todo = << >>
  PROVE  Quiet'
<1>1. /\ Gone.todo = << >> /\ Gone.refresh = NoGrant
      /\ Gone.lines["refresh"] = NoGrant /\ Nothing["refresh"] = NoGrant
  BY DEF Gone, Nothing, Secret
<1>2. /\ \A c \in Client : client'[c] \in {client[c], Gone}
      /\ \A c \in Client : client[c].todo # << >> => client'[c] = client[c]
      /\ usable' = usable /\ kept' = kept /\ NoGrant \notin usable
  BY DEF RestartProcess, allegroVars, StoresFit, NoGrant
<1>3. Readable' \subseteq Readable \cup {NoGrant} /\ Copies' \subseteq Copies \cup {NoGrant}
  BY <1>1, <1>2 DEF RestartProcess, Readable, Copies, StoresFit
<1>4. TokenIsPrivate'
  <2>1. ASSUME NEW d \in Client, client'[d].todo # << >>
        PROVE  /\ client[d].todo # << >> /\ client'[d].refresh = client[d].refresh
               /\ client[d].refresh \notin Readable' \cup Copies'
               /\ \A e \in Client \ {d} :
                     client'[e].refresh \in {client[e].refresh, NoGrant} \cup Readable
    <3>1. client'[d] = client[d] /\ client[d].todo # << >>
      BY <1>1, <1>2, <2>1
    <3>2. client[d].refresh \in usable /\ client[d].refresh \notin Readable \cup Copies
      BY <3>1, PrivateForm DEF Quiet
    <3> QED  BY <1>1, <1>2, <1>3, <3>1, <3>2
  <2> QED  BY <1>2, <2>1, QuietStep DEF Quiet
<1>5. KeptIsUsable'
  BY <1>2 DEF Quiet, KeptIsUsable
<1> QED  BY <1>4, <1>5 DEF Quiet

-----------------------------------------------------------------------------
(***************************************************************************)
(* The invariant, and what follows from it.                                *)
(***************************************************************************)
LEMMA StepRotates ==
  ASSUME StoresFit, ClientsFit, RotationHolds, TokenNext
  PROVE  RotationHolds'
<1>1. tokenCauses \subseteq tokenCauses'
  BY DEF TokenNext, Build, Call, LoadExpiry, Refresh, LoseAnswer, Reject,
         StoreInVault, Decrypt, Replace, NotStored, Send, Discard, Authorise,
         Age, Die, Lapse, RestartProcess, Blame
<1>2. CASE DespiteToken(Excuse)'
  BY <1>2 DEF RotationHolds
<1>3. CASE ~DespiteToken(Excuse)'
  <2>1. Quiet
    BY <1>1, <1>3 DEF RotationHolds, DespiteToken, Quiet, KeptIsUsable
  <2>2. Quiet'
    <3>1. ~ \E c \in Client : LoseAnswer(c) \/ NotStored(c)
      BY <1>3 DEF LoseAnswer, NotStored, Blame, DespiteToken, Excuse
    <3>2. CASE \E c \in Client : \/ Build(c) \/ Call(c) \/ LoadExpiry(c)
                                 \/ Reject(c) \/ Send(c)
      BY <2>1, <3>2, ReadingIsQuiet
    <3>3. CASE \E c \in Client : Refresh(c)
      BY <2>1, <3>3, RefreshIsQuiet
    <3>4. CASE \E c \in Client : StoreInVault(c) \/ Decrypt(c) \/ Replace(c)
      BY <2>1, <3>4, StoringIsQuiet
    <3>5. CASE \/ \E c \in Client : Discard(c)
               \/ Authorise
               \/ \E g \in Grant : Age(g) \/ Die(g)
               \/ \E p \in Process : Lapse(p)
      BY <2>1, <3>5, OutsideIsQuiet
    <3>6. ASSUME NEW p \in Process, RestartProcess(p)
          PROVE  Quiet'
      <4>1. \A c \in Client : ProcessOf[c] = p => client[c].todo = << >>
        BY <1>3, <3>6 DEF RestartProcess, Blame, DespiteToken, Excuse
      <4> QED  BY <2>1, <3>6, <4>1, RestartIsQuiet
    <3> QED  BY <3>1, <3>2, <3>3, <3>4, <3>5, <3>6 DEF TokenNext
  <2> QED  BY <2>2 DEF RotationHolds, Quiet, KeptIsUsable
<1> QED  BY <1>2, <1>3

LEMMA TokenHoldsFirst == TokenInit => TokenInv
<1> SUFFICES ASSUME TokenInit
             PROVE  TokenInv
  OBVIOUS
<1>1. grants = 1 /\ grants \in Known /\ Nothing \in [Secret -> 0..grants]
      /\ kept \in [Secret -> 0..grants]
  BY DEF TokenInit, Known, Grant, NoGrant, Nothing
<1>2. StoresFit
  BY <1>1 DEF TokenInit, StoresFit, TokenCause
<1>3. ClientsFit
  BY <1>1, GoneFits DEF TokenInit, ClientsFit
<1>4. RotationHolds
  <2>1. kept["refresh"] \in usable
    BY DEF TokenInit, Nothing, Secret
  <2>2. \A c \in Client : client[c].todo = << >>
    BY DEF TokenInit, Gone
  <2> QED  BY <2>1, <2>2 DEF RotationHolds, TokenIsPrivate
<1> QED  BY <1>2, <1>3, <1>4 DEF TokenInv

LEMMA StepHolds == TokenInv /\ [TokenNext]_tokenVars => TokenInv'
<1> SUFFICES ASSUME TokenInv, [TokenNext]_tokenVars
             PROVE  TokenInv'
  OBVIOUS
<1>1. CASE TokenNext
  BY <1>1, StepFits, StepRotates DEF TokenInv
<1>2. CASE UNCHANGED tokenVars
  BY <1>2 DEF tokenVars, TokenInv, StoresFit, ClientsFit, RotationHolds,
              DespiteToken, TokenIsPrivate
<1> QED  BY <1>1, <1>2

(***************************************************************************)
(* The refresh token that is kept is one Allegro takes, unless a client is *)
(* about to store a newer one, and no request is sent with an access token *)
(* that has ended, short of the causes both name (allegro.py:283).         *)
(***************************************************************************)
THEOREM TokenIsGoodHolds == TokenSpec => []TokenIsGood
<1>1. TokenInv => TokenIsGood
  BY FitIsTyped DEF TokenInv, RotationHolds, TokenIsGood, RotatedIsKept, Excuse
<1> QED  BY <1>1, TokenHoldsFirst, StepHolds, PTL DEF TokenSpec

HIDE TokenShape
USE InvoicingShape

-----------------------------------------------------------------------------
(***************************************************************************)
(* What a worker holds fits its job: who writes to the draft began it with *)
(* no invoice or with one in error (routers/shipping/invoices.py:197,      *)
(* allegro_invoicer.py:122), and the poller with an attempt left.          *)
(***************************************************************************)
SlotSeen == [held : Held, error : BOOLEAN, attempts : 0..MaxAttempts]

Work == [job : {"none", "request", "poll", "patch"},
         pc : {"idle", "claim", "order", "lookup", "create", "row", "put", "pay",
               "list", "declare", "upload"},
         seen : SlotSeen, resuming : BOOLEAN, rows : 0..2]

Slot == [held : Held, error : BOOLEAN, attempts : 0..MaxAttempts,
         cancelled : BOOLEAN]

JobFits(r) ==
    /\ r.job = "none" <=> r.pc = "idle"
    /\ r.job = "patch" => r.pc \in {"row", "put"}
    /\ r.job \in {"request", "poll"} => r.seen.held = "none" \/ r.seen.error
    /\ r.seen.held = "pending" => ~r.seen.error
    /\ r.job = "poll" => r.seen.attempts < MaxAttempts

SlotFits(s) == s \in Slot /\ (s.held = "pending" => ~s.error)

WorkFits ==
    /\ SlotFits(slot)
    /\ invoice \in [exists : BOOLEAN, deposits : 0..2, paid : -1..2]
    /\ declared \in [number : 0..2, files : SUBSET (1..2)]
    /\ worker \in [Worker -> Work]
    /\ \A w \in Worker : JobFits(worker[w])
    /\ jobs \in 0..MaxJobs /\ invoiceFaults \in 0..MaxInvoiceFaults
    /\ invoiceCauses \subseteq InvoiceCause

-----------------------------------------------------------------------------
(***************************************************************************)
(* As long as one worker at a time is on it, the deposit, the payment and  *)
(* the declaration follow in this order, each once, and a worker that has  *)
(* come so far finds what it relies on (allegro_invoicer.py:122-200).      *)
(***************************************************************************)
OneAtATime ==
    \A v, w \in Worker : worker[v].job # "none" /\ worker[w].job # "none" => v = w

HasReached(r, i, d, s) ==
    /\ r.pc \in {"row", "put", "pay", "list", "declare", "upload"} => i.exists
    /\ r.pc = "put" => i.deposits = 0 /\ r.rows = 0
    /\ r.pc \in {"pay", "list", "declare", "upload"} => i.deposits = 1
    /\ r.pc \in {"list", "declare", "upload"} => i.paid = 1
    /\ r.pc \in {"row", "put", "pay"} /\ r.job # "patch" /\ ~r.resuming
          => d.number = 0
    /\ r.pc = "declare" => d.number = 0
    /\ r.pc = "upload" => d.number = 1
    /\ r.job = "patch" => s.held = r.seen.held

Complete(i, d) ==
    i.exists /\ i.deposits > 0 /\ i.paid = i.deposits /\ d.files # {}

InOrder(i, d, s) ==
    /\ i.deposits <= 1 /\ d.number <= 1 /\ d.files \subseteq 1..d.number
    /\ ~i.exists => i.deposits = 0 /\ d.number = 0
    /\ s.held = "invoice" /\ ~s.error => Complete(i, d)

OrderHolds ==
    \/ "raced" \in invoiceCauses
    \/ /\ OneAtATime /\ InOrder(invoice, declared, slot)
       /\ \A w \in Worker : HasReached(worker[w], invoice, declared, slot)

InvoiceInv == WorkFits /\ OrderHolds

-----------------------------------------------------------------------------
LEMMA WaitingFits ==
  /\ Waiting \in Work /\ JobFits(Waiting)
  /\ \A i, d, s : HasReached(Waiting, i, d, s)
BY DEF Waiting, Work, SlotSeen, Held, JobFits, HasReached

(***************************************************************************)
(* A step of one worker, and what is left to show of it.                   *)
(***************************************************************************)
Moves(w, r) == worker' = [worker EXCEPT ![w] = r]

LEMMA WorkStep ==
  ASSUME WorkFits, NEW w \in Worker, NEW r \in Work, JobFits(r), Moves(w, r),
         SlotFits(slot'),
         invoice' \in [exists : BOOLEAN, deposits : 0..2, paid : -1..2],
         declared' \in [number : 0..2, files : SUBSET (1..2)],
         jobs' \in 0..MaxJobs, invoiceFaults' \in 0..MaxInvoiceFaults,
         invoiceCauses' \subseteq InvoiceCause
  PROVE  WorkFits'
BY DEF WorkFits, Moves

LEMMA OrderStep ==
  ASSUME WorkFits, OrderHolds, "raced" \notin invoiceCauses,
         NEW w \in Worker, worker[w].job # "none", NEW r \in Work, Moves(w, r),
         r.job \in {worker[w].job, "none"},
         InOrder(invoice', declared', slot'),
         HasReached(r, invoice', declared', slot')
  PROVE  OrderHolds'
<1>1. ASSUME NEW v \in Worker, v # w
      PROVE  worker'[v].job = "none" /\ worker'[v].pc = "idle"
  BY <1>1 DEF OrderHolds, OneAtATime, WorkFits, JobFits, Moves
<1>2. worker'[w] = r
  BY DEF Moves, WorkFits
<1>3. OneAtATime'
  BY <1>1 DEF OneAtATime
<1>4. \A v \in Worker : HasReached(worker'[v], invoice', declared', slot')
  BY <1>1, <1>2 DEF HasReached
<1> QED  BY <1>3, <1>4 DEF OrderHolds

(***************************************************************************)
(* How a job ends (allegro_invoicer.py:207): the draft keeps an id it has  *)
(* or had, and a patch leaves the draft alone.                             *)
(***************************************************************************)
LEMMA EndsFact ==
  ASSUME WorkFits, NEW w \in Worker, worker[w].job # "none",
         NEW held \in Held, NEW error \in BOOLEAN, Ends(w, held, error),
         worker[w].job # "patch" => held # "pending"
  PROVE  /\ Moves(w, Waiting) /\ SlotFits(slot')
         /\ worker[w].job = "patch" => slot' = slot
         /\ worker[w].job # "patch" => slot'.held = held /\ slot'.error = error
<1>1. CASE worker[w].job = "patch"
  BY <1>1 DEF Ends, Moves, WorkFits
<1>2. CASE worker[w].job # "patch"
  <2> DEFINE n == IF worker[w].job = "poll" THEN worker[w].seen.attempts + 1
                                            ELSE slot.attempts
  <2>1. slot' = [slot EXCEPT !.held = held, !.error = error, !.attempts = n]
    BY <1>2 DEF Ends
  <2>2. n \in 0..MaxAttempts
    BY DEF WorkFits, JobFits, Work, SlotSeen, Slot, SlotFits
  <2> HIDE DEF n
  <2> QED  BY <1>2, <2>1, <2>2 DEF Ends, Moves, WorkFits, SlotFits, Slot
<1> QED  BY <1>1, <1>2

LEMMA FailsFact ==
  ASSUME WorkFits, NEW w \in Worker, worker[w].job # "none", NEW found \in BOOLEAN,
         Fails(w, found)
  PROVE  /\ Moves(w, Waiting) /\ SlotFits(slot')
         /\ invoiceFaults' \in 0..MaxInvoiceFaults
         /\ worker[w].job = "patch" => slot' = slot
         /\ worker[w].job # "patch" =>
               slot'.error /\ slot'.held = KnownId(w, found)
<1>1. KnownId(w, found) \in Held
  BY DEF KnownId, WorkFits, Work, SlotSeen, Held
<1>2. worker[w].job # "patch" => KnownId(w, found) # "pending"
  BY DEF KnownId, WorkFits, Work, SlotSeen, Held, JobFits
<1>3. Ends(w, KnownId(w, found), TRUE)
  BY DEF Fails
<1>4. invoiceFaults' \in 0..MaxInvoiceFaults
  BY DEF Fails, InvoiceFault, WorkFits
<1> QED  BY <1>1, <1>2, <1>3, <1>4, EndsFact

\* a failure completes no invoice
LEMMA FailedOrder ==
  ASSUME WorkFits, NEW w \in Worker, worker[w].job # "none", NEW found \in BOOLEAN,
         Fails(w, found), NEW i, NEW d, InOrder(i, d, slot)
  PROVE  InOrder(i, d, slot')
BY FailsFact DEF InOrder

-----------------------------------------------------------------------------
(***************************************************************************)
(* What every step keeps: the invariant, and the id of a draft whose       *)
(* worker is done (routers/shipping/invoices.py:268).                      *)
(***************************************************************************)
IdStep ==
    \A w \in Worker : worker[w].seen.held = "invoice" /\ worker'[w] = Waiting
                         => slot'.held = "invoice"

Kept == WorkFits' /\ OrderHolds' /\ (invoiceCauses' = {} => IdStep)

\* a worker that is not done has not become Waiting
LEMMA IdOfOne ==
  ASSUME WorkFits, NEW w \in Worker, NEW r \in Work, Moves(w, r),
         r = Waiting /\ worker[w].seen.held = "invoice" => slot'.held = "invoice"
  PROVE  IdStep
<1>1. ASSUME NEW v \in Worker, v # w, worker'[v] = Waiting
      PROVE  worker[v].seen.held = "none"
  BY <1>1 DEF WorkFits, Moves, Waiting
<1>2. worker'[w] = r
  BY DEF Moves, WorkFits
<1> QED  BY <1>1, <1>2 DEF IdStep

LEMMA GoesOn ==
  ASSUME WorkFits, OrderHolds, NEW w \in Worker, worker[w].job # "none",
         NEW r \in Work, JobFits(r), Moves(w, r), r.job = worker[w].job,
         SlotFits(slot'),
         invoice' \in [exists : BOOLEAN, deposits : 0..2, paid : -1..2],
         declared' \in [number : 0..2, files : SUBSET (1..2)],
         invoiceFaults' \in 0..MaxInvoiceFaults,
         UNCHANGED <<jobs, invoiceCauses>>,
         "raced" \notin invoiceCauses
            => /\ InOrder(invoice', declared', slot')
               /\ HasReached(r, invoice', declared', slot')
  PROVE  Kept
<1>1. jobs' \in 0..MaxJobs /\ invoiceCauses' \subseteq InvoiceCause
  BY DEF WorkFits
<1>2. WorkFits'
  BY <1>1, WorkStep
<1>3. OrderHolds'
  <2>1. CASE "raced" \in invoiceCauses
    BY <2>1 DEF OrderHolds
  <2>2. CASE "raced" \notin invoiceCauses
    BY <2>2, OrderStep
  <2> QED  BY <2>1, <2>2
<1>4. IdStep
  <2>1. r # Waiting
    BY DEF Waiting
  <2> QED  BY <2>1, IdOfOne
<1> QED  BY <1>2, <1>3, <1>4 DEF Kept

LEMMA IsDone ==
  ASSUME WorkFits, OrderHolds, NEW w \in Worker, worker[w].job # "none",
         Moves(w, Waiting), SlotFits(slot'),
         invoice' \in [exists : BOOLEAN, deposits : 0..2, paid : -1..2],
         declared' \in [number : 0..2, files : SUBSET (1..2)],
         invoiceFaults' \in 0..MaxInvoiceFaults,
         UNCHANGED <<jobs, invoiceCauses>>,
         "raced" \notin invoiceCauses
            => /\ InOrder(invoice', declared', slot')
               /\ worker[w].seen.held = "invoice" => slot'.held = "invoice"
  PROVE  Kept
<1>1. jobs' \in 0..MaxJobs /\ invoiceCauses' \subseteq InvoiceCause
  BY DEF WorkFits
<1>2. WorkFits'
  BY <1>1, WorkStep, WaitingFits
<1>3. OrderHolds'
  <2>1. CASE "raced" \in invoiceCauses
    BY <2>1 DEF OrderHolds
  <2>2. CASE "raced" \notin invoiceCauses
    <3>1. Waiting.job = "none"
      BY DEF Waiting
    <3>2. HasReached(Waiting, invoice', declared', slot')
      BY WaitingFits
    <3>3. Waiting \in Work
      BY WaitingFits
    <3>4. InOrder(invoice', declared', slot')
      BY <2>2
    <3> QED  BY <2>2, <3>1, <3>2, <3>3, <3>4, OrderStep
  <2> QED  BY <2>1, <2>2
<1>4. invoiceCauses' = {} => IdStep
  BY WaitingFits, IdOfOne
<1> QED  BY <1>2, <1>3, <1>4 DEF Kept

\* HasReached of one worker, from the invariant
LEMMA Reached ==
  ASSUME OrderHolds, "raced" \notin invoiceCauses, NEW w \in Worker
  PROVE  /\ HasReached(worker[w], invoice, declared, slot)
         /\ InOrder(invoice, declared, slot)
BY DEF OrderHolds

LEMMA GivesUp ==
  ASSUME WorkFits, OrderHolds, NEW w \in Worker, worker[w].job # "none",
         NEW found \in BOOLEAN, Fails(w, found),
         invoice' \in [exists : BOOLEAN, deposits : 0..2, paid : -1..2],
         declared' \in [number : 0..2, files : SUBSET (1..2)],
         UNCHANGED <<jobs, invoiceCauses>>,
         "raced" \notin invoiceCauses => InOrder(invoice', declared', slot)
  PROVE  Kept
<1>1. /\ Moves(w, Waiting) /\ SlotFits(slot')
      /\ invoiceFaults' \in 0..MaxInvoiceFaults
      /\ worker[w].job = "patch" => slot' = slot
      /\ worker[w].job # "patch" => slot'.error /\ slot'.held = KnownId(w, found)
  BY FailsFact
<1>2. ASSUME "raced" \notin invoiceCauses
      PROVE  /\ InOrder(invoice', declared', slot')
             /\ worker[w].seen.held = "invoice" => slot'.held = "invoice"
  <2>1. worker[w].job = "patch" => slot.held = worker[w].seen.held
    BY <1>2, Reached DEF HasReached
  <2>2. InOrder(invoice', declared', slot')
    BY <1>2, FailedOrder
  <2> QED  BY <1>1, <2>1, <2>2 DEF KnownId
<1> QED  BY <1>1, <1>2, IsDone

-----------------------------------------------------------------------------
(***************************************************************************)
(* The steps of a worker, in their order.                                  *)
(***************************************************************************)
LEMMA ClaimIsKept ==
  ASSUME WorkFits, OrderHolds, NEW w \in Worker, Claim(w)
  PROVE  Kept
<1> DEFINE r == [worker[w] EXCEPT !.pc = "order"]
<1>1. /\ worker[w] \in Work /\ worker[w].pc = "claim" /\ JobFits(worker[w])
      /\ slot \in Slot
  BY DEF Claim, WorkFits, SlotFits
<1>2. r \in Work /\ JobFits(r) /\ r.job = worker[w].job /\ r.job # "none"
      /\ r.pc = "order" /\ r.job # "patch"
  BY <1>1 DEF Work, JobFits
<1>3. Moves(w, r)
  BY DEF Claim, Step, Moves, WorkFits
<1>4. SlotFits(slot') /\ slot'.held = "pending"
  BY <1>1 DEF Claim, SlotFits, Slot, Held
<1>5. /\ UNCHANGED <<invoice, declared, jobs, invoiceFaults, invoiceCauses>>
  BY DEF Claim, providerVars, accountVars
<1>6. "raced" \notin invoiceCauses
         => InOrder(invoice', declared', slot') /\ HasReached(r, invoice', declared', slot')
  BY <1>2, <1>4, <1>5, Reached DEF InOrder, HasReached
<1> HIDE DEF r
<1> QED  BY <1>2, <1>3, <1>4, <1>5, <1>6, GoesOn DEF WorkFits

LEMMA FetchOrderIsKept ==
  ASSUME WorkFits, OrderHolds, NEW w \in Worker, FetchOrder(w)
  PROVE  Kept
<1>1. /\ worker[w] \in Work /\ worker[w].pc = "order" /\ JobFits(worker[w])
      /\ worker[w].job \in {"request", "poll"} /\ slot \in Slot
      /\ UNCHANGED <<invoice, declared, jobs, invoiceCauses>>
  BY DEF FetchOrder, WorkFits, SlotFits, providerVars, JobFits, Work
<1>2. CASE Step(w, "lookup") /\ UNCHANGED <<slot, invoiceFaults>>
  <2> DEFINE r == [worker[w] EXCEPT !.pc = "lookup"]
  <2>1. r \in Work /\ JobFits(r) /\ r.job = worker[w].job /\ r.pc = "lookup"
    BY <1>1 DEF Work, JobFits
  <2>2. Moves(w, r)
    BY <1>2 DEF Step, Moves, WorkFits
  <2>3. "raced" \notin invoiceCauses
           => InOrder(invoice', declared', slot') /\ HasReached(r, invoice', declared', slot')
    BY <1>1, <1>2, <2>1, Reached DEF InOrder, HasReached
  <2> HIDE DEF r
  <2> QED  BY <1>1, <1>2, <2>1, <2>2, <2>3, GoesOn DEF WorkFits
<1>3. ASSUME InvoiceFault, NEW failed \in BOOLEAN,
             slot' = [slot EXCEPT !.held = worker[w].seen.held,
                                  !.error = failed \/ worker[w].seen.error],
             worker' = [worker EXCEPT ![w] = Waiting]
      PROVE  Kept
  <2>1. Moves(w, Waiting) /\ invoiceFaults' \in 0..MaxInvoiceFaults
    BY <1>3 DEF Moves, InvoiceFault, WorkFits
  <2>2. worker[w].seen \in SlotSeen
        /\ (worker[w].seen.held = "none" \/ worker[w].seen.error)
        /\ worker[w].seen.held # "pending"
    BY <1>1 DEF Work, JobFits
  <2>3. /\ slot'.held = worker[w].seen.held /\ slot' \in Slot
        /\ slot'.held = "invoice" => slot'.error
    BY <1>1, <1>3, <2>2 DEF Slot, SlotSeen
  <2>4. "raced" \notin invoiceCauses => InOrder(invoice', declared', slot')
    BY <1>1, <2>3, Reached DEF InOrder
  <2> QED  BY <1>1, <2>1, <2>2, <2>3, <2>4, IsDone DEF WorkFits, SlotFits
<1> QED  BY <1>2, <1>3 DEF FetchOrder

LEMMA LookupIsKept ==
  ASSUME WorkFits, OrderHolds, NEW w \in Worker, Lookup(w)
  PROVE  Kept
<1>1. /\ worker[w] \in Work /\ worker[w].pc = "lookup" /\ JobFits(worker[w])
      /\ worker[w].job \in {"request", "poll"}
      /\ UNCHANGED <<invoice, declared, jobs, invoiceCauses>>
      /\ invoice.exists \in BOOLEAN
  BY DEF Lookup, WorkFits, providerVars, JobFits, Work
<1>2. ASSUME worker' = [worker EXCEPT ![w].resuming = invoice.exists,
                           ![w].pc = IF invoice.exists THEN "row" ELSE "create"],
             UNCHANGED <<slot, invoiceFaults>>
      PROVE  Kept
  <2> DEFINE r == [worker[w] EXCEPT !.resuming = invoice.exists,
                           !.pc = IF invoice.exists THEN "row" ELSE "create"]
  <2>1. /\ r \in Work /\ JobFits(r) /\ r.job = worker[w].job
        /\ r.resuming = invoice.exists /\ r.pc \in {"row", "create"}
        /\ r.pc = "row" => invoice.exists
    BY <1>1 DEF Work, JobFits
  <2>2. Moves(w, r)
    BY <1>2 DEF Moves, WorkFits
  <2> HIDE DEF r
  <2>3. "raced" \notin invoiceCauses
           => InOrder(invoice', declared', slot') /\ HasReached(r, invoice', declared', slot')
    BY <1>1, <1>2, <2>1, Reached DEF InOrder, HasReached
  <2> QED  BY <1>1, <1>2, <2>1, <2>2, <2>3, GoesOn DEF WorkFits
<1>3. CASE Fails(w, FALSE)
  BY <1>1, <1>3, GivesUp, Reached DEF WorkFits
<1> QED  BY <1>2, <1>3 DEF Lookup

LEMMA CreateIsKept ==
  ASSUME WorkFits, OrderHolds, NEW w \in Worker, Create(w)
  PROVE  Kept
<1>1. /\ worker[w] \in Work /\ worker[w].pc = "create" /\ JobFits(worker[w])
      /\ worker[w].job \in {"request", "poll"}
      /\ UNCHANGED <<declared, jobs, invoiceCauses>>
  BY DEF Create, WorkFits, JobFits, Work
<1>2. invoice' \in {invoice, [invoice EXCEPT !.exists = TRUE]}
  BY DEF Create
<1>3. /\ invoice' \in [exists : BOOLEAN, deposits : 0..2, paid : -1..2]
      /\ invoice'.deposits = invoice.deposits /\ invoice'.paid = invoice.paid
      /\ invoice.exists => invoice'.exists
      /\ declared' \in [number : 0..2, files : SUBSET (1..2)]
  BY <1>1, <1>2 DEF WorkFits
<1>4. "raced" \notin invoiceCauses => InOrder(invoice', declared', slot)
  BY <1>1, <1>3, Reached DEF InOrder, Complete
<1>5. CASE /\ ~invoice.exists /\ invoice' = [invoice EXCEPT !.exists = TRUE]
           /\ Step(w, "row") /\ UNCHANGED <<slot, invoiceFaults>>
  <2> DEFINE r == [worker[w] EXCEPT !.pc = "row"]
  <2>1. r \in Work /\ JobFits(r) /\ r.job = worker[w].job /\ r.pc = "row"
    BY <1>1 DEF Work, JobFits
  <2>2. Moves(w, r)
    BY <1>5 DEF Step, Moves, WorkFits
  <2> HIDE DEF r
  <2>3. invoice'.exists
    BY <1>5 DEF WorkFits
  <2>4. "raced" \notin invoiceCauses
           => InOrder(invoice', declared', slot') /\ HasReached(r, invoice', declared', slot')
    BY <1>1, <1>4, <1>5, <2>1, <2>3, Reached DEF InOrder, HasReached
  <2> QED  BY <1>1, <1>3, <1>5, <2>1, <2>2, <2>4, GoesOn DEF WorkFits
<1>6. CASE invoice.exists /\ Ends(w, KnownId(w, FALSE), TRUE)
           /\ UNCHANGED <<invoice, invoiceFaults>>
  <2>1. KnownId(w, FALSE) \in Held /\ KnownId(w, FALSE) = worker[w].seen.held
        /\ KnownId(w, FALSE) # "pending"
    BY <1>1 DEF KnownId, Work, SlotSeen, JobFits
  <2>2. /\ Moves(w, Waiting) /\ SlotFits(slot')
        /\ slot'.held = worker[w].seen.held /\ slot'.error
    BY <1>1, <1>6, <2>1, EndsFact
  <2>3. "raced" \notin invoiceCauses => InOrder(invoice', declared', slot')
    BY <1>4, <2>2 DEF InOrder
  <2> QED  BY <1>1, <1>3, <1>6, <2>2, <2>3, IsDone DEF WorkFits
<1>7. CASE Fails(w, FALSE)
  BY <1>1, <1>3, <1>4, <1>7, GivesUp
<1> QED  BY <1>5, <1>6, <1>7 DEF Create

\* a patch is done and leaves the draft as it found it
LEMMA PatchIsDone ==
  ASSUME WorkFits, OrderHolds, NEW w \in Worker, worker[w].job = "patch",
         Moves(w, Waiting),
         invoice' \in [exists : BOOLEAN, deposits : 0..2, paid : -1..2],
         UNCHANGED <<slot, declared, invoiceFaults, jobs, invoiceCauses>>,
         "raced" \notin invoiceCauses => InOrder(invoice', declared', slot)
  PROVE  Kept
<1>1. "raced" \notin invoiceCauses /\ worker[w].seen.held = "invoice"
         => slot'.held = "invoice"
  BY Reached DEF HasReached
<1> QED  BY <1>1, IsDone DEF WorkFits

LEMMA ReadRowIsKept ==
  ASSUME WorkFits, OrderHolds, NEW w \in Worker, ReadRow(w)
  PROVE  Kept
<1>1. /\ worker[w] \in Work /\ worker[w].pc = "row" /\ JobFits(worker[w])
      /\ worker[w].job # "none"
      /\ UNCHANGED <<invoice, declared, jobs, invoiceCauses>>
      /\ invoice.deposits \in 0..2
  BY DEF ReadRow, WorkFits, providerVars, JobFits, Work
<1>2. CASE /\ ~HasDeposit(w)
           /\ worker' = [worker EXCEPT ![w].pc = "put", ![w].rows = invoice.deposits]
           /\ UNCHANGED <<slot, invoiceFaults>>
  <2> DEFINE r == [worker[w] EXCEPT !.pc = "put", !.rows = invoice.deposits]
  <2>1. r \in Work /\ JobFits(r) /\ r.job = worker[w].job /\ r.pc = "put"
        /\ r.rows = 0 /\ r.resuming = worker[w].resuming /\ r.seen = worker[w].seen
        /\ invoice.deposits = 0
    <3>1. invoice.deposits = 0
      BY <1>1, <1>2 DEF HasDeposit
    <3> QED  BY <1>1, <3>1 DEF Work, JobFits
  <2>2. Moves(w, r)
    BY <1>2 DEF Moves, WorkFits
  <2> HIDE DEF r
  <2>3. "raced" \notin invoiceCauses
           => InOrder(invoice', declared', slot') /\ HasReached(r, invoice', declared', slot')
    BY <1>1, <1>2, <2>1, Reached DEF InOrder, HasReached
  <2> QED  BY <1>1, <1>2, <2>1, <2>2, <2>3, GoesOn DEF WorkFits
<1>3. CASE /\ HasDeposit(w) /\ UNCHANGED <<slot, invoiceFaults>>
           /\ worker' = IF worker[w].job = "patch"
                        THEN [worker EXCEPT ![w] = Waiting]
                        ELSE [worker EXCEPT ![w].pc = "pay"]
  <2>1. CASE worker[w].job = "patch"
    BY <1>1, <1>3, <2>1, PatchIsDone, Reached DEF Moves, WorkFits
  <2>2. CASE worker[w].job # "patch"
    <3> DEFINE r == [worker[w] EXCEPT !.pc = "pay"]
    <3>1. r \in Work /\ JobFits(r) /\ r.job = worker[w].job /\ r.pc = "pay"
          /\ r.resuming = worker[w].resuming
      BY <1>1, <2>2 DEF Work, JobFits
    <3>2. Moves(w, r)
      BY <1>3, <2>2 DEF Moves, WorkFits
    <3> HIDE DEF r
    <3>3. "raced" \notin invoiceCauses
             => InOrder(invoice', declared', slot') /\ HasReached(r, invoice', declared', slot')
      BY <1>1, <1>3, <2>2, <3>1, Reached DEF InOrder, HasReached, HasDeposit
    <3> QED  BY <1>1, <1>3, <3>1, <3>2, <3>3, GoesOn DEF WorkFits
  <2> QED  BY <2>1, <2>2
<1>4. CASE Fails(w, TRUE)
  BY <1>1, <1>4, GivesUp, Reached DEF WorkFits
<1> QED  BY <1>2, <1>3, <1>4 DEF ReadRow

LEMMA PutRowIsKept ==
  ASSUME WorkFits, OrderHolds, NEW w \in Worker, PutRow(w)
  PROVE  Kept
<1>1. /\ worker[w] \in Work /\ worker[w].pc = "put" /\ JobFits(worker[w])
      /\ worker[w].job # "none" /\ UNCHANGED <<declared, jobs, invoiceCauses>>
      /\ invoice \in [exists : BOOLEAN, deposits : 0..2, paid : -1..2]
      /\ declared' \in [number : 0..2, files : SUBSET (1..2)]
  BY DEF PutRow, WorkFits, JobFits, Work
<1>2. PICK n \in {worker[w].rows + 1, invoice.deposits + 1} :
         n <= 2 /\ invoice' = [invoice EXCEPT !.deposits = n]
  BY DEF PutRow
<1>3. /\ invoice' \in [exists : BOOLEAN, deposits : 0..2, paid : -1..2]
      /\ invoice'.deposits = n /\ invoice'.exists = invoice.exists
      /\ invoice'.paid = invoice.paid
  BY <1>1, <1>2 DEF Work
<1>4. ASSUME "raced" \notin invoiceCauses
      PROVE  /\ InOrder(invoice', declared', slot)
             /\ invoice'.exists /\ invoice'.deposits = 1
  <2>1. HasReached(worker[w], invoice, declared, slot) /\ InOrder(invoice, declared, slot)
    BY <1>4, Reached
  <2>2. invoice.exists /\ invoice.deposits = 0 /\ worker[w].rows = 0
    BY <1>1, <2>1 DEF HasReached
  <2>3. n = 1
    BY <1>2, <2>2
  <2> QED  BY <1>1, <1>3, <2>1, <2>2, <2>3 DEF InOrder, Complete
<1>5. CASE /\ worker' = IF worker[w].job = "patch"
                        THEN [worker EXCEPT ![w] = Waiting]
                        ELSE [worker EXCEPT ![w].pc = "pay"]
           /\ UNCHANGED <<slot, invoiceFaults>>
  <2>1. CASE worker[w].job = "patch"
    BY <1>1, <1>3, <1>4, <1>5, <2>1, PatchIsDone DEF Moves
  <2>2. CASE worker[w].job # "patch"
    <3> DEFINE r == [worker[w] EXCEPT !.pc = "pay"]
    <3>1. r \in Work /\ JobFits(r) /\ r.job = worker[w].job /\ r.pc = "pay"
          /\ r.resuming = worker[w].resuming
      BY <1>1, <2>2 DEF Work, JobFits
    <3>2. Moves(w, r)
      BY <1>5, <2>2 DEF Moves, WorkFits
    <3> HIDE DEF r
    <3>3. "raced" \notin invoiceCauses
             => InOrder(invoice', declared', slot') /\ HasReached(r, invoice', declared', slot')
      BY <1>1, <1>4, <1>5, <2>2, <3>1, Reached DEF HasReached
    <3> QED  BY <1>1, <1>3, <1>5, <3>1, <3>2, <3>3, GoesOn DEF WorkFits
  <2> QED  BY <2>1, <2>2
<1>6. CASE Fails(w, TRUE)
  BY <1>1, <1>3, <1>4, <1>6, GivesUp
<1> QED  BY <1>5, <1>6 DEF PutRow

LEMMA PayIsKept ==
  ASSUME WorkFits, OrderHolds, NEW w \in Worker, Pay(w)
  PROVE  Kept
<1>1. /\ worker[w] \in Work /\ worker[w].pc = "pay" /\ JobFits(worker[w])
      /\ worker[w].job \in {"request", "poll"}
      /\ UNCHANGED <<declared, jobs, invoiceCauses>>
      /\ invoice \in [exists : BOOLEAN, deposits : 0..2, paid : -1..2]
  BY DEF Pay, WorkFits, JobFits, Work
<1>2. CASE /\ invoice' = [invoice EXCEPT !.paid = invoice.deposits]
           /\ Step(w, IF worker[w].resuming THEN "list" ELSE "declare")
           /\ UNCHANGED <<slot, invoiceFaults>>
  <2> DEFINE r == [worker[w] EXCEPT !.pc = IF worker[w].resuming
                                           THEN "list" ELSE "declare"]
  <2>1. /\ r \in Work /\ JobFits(r) /\ r.job = worker[w].job
        /\ r.pc = (IF worker[w].resuming THEN "list" ELSE "declare")
    BY <1>1 DEF Work, JobFits
  <2>2. Moves(w, r)
    BY <1>2 DEF Step, Moves, WorkFits
  <2> HIDE DEF r
  <2>3. /\ invoice' \in [exists : BOOLEAN, deposits : 0..2, paid : -1..2]
        /\ invoice'.deposits = invoice.deposits /\ invoice'.exists = invoice.exists
        /\ invoice'.paid = invoice.deposits
    BY <1>1, <1>2
  <2>4. "raced" \notin invoiceCauses
           => InOrder(invoice', declared', slot') /\ HasReached(r, invoice', declared', slot')
    BY <1>1, <1>2, <2>1, <2>3, Reached DEF InOrder, HasReached, Complete
  <2> QED  BY <1>1, <1>2, <2>1, <2>2, <2>3, <2>4, GoesOn DEF WorkFits
<1>3. CASE Fails(w, TRUE) /\ UNCHANGED invoice
  BY <1>1, <1>3, GivesUp, Reached DEF WorkFits
<1> QED  BY <1>2, <1>3 DEF Pay

LEMMA ListIsKept ==
  ASSUME WorkFits, OrderHolds, NEW w \in Worker, List(w)
  PROVE  Kept
<1>1. /\ worker[w] \in Work /\ worker[w].pc = "list" /\ JobFits(worker[w])
      /\ worker[w].job \in {"request", "poll"}
      /\ UNCHANGED <<invoice, declared, jobs, invoiceCauses>>
      /\ declared.number \in 0..2
  BY DEF List, WorkFits, providerVars, JobFits, Work
<1>2. CASE /\ Step(w, IF FindDeclaration THEN "upload" ELSE "declare")
           /\ UNCHANGED <<slot, invoiceFaults>>
  <2> DEFINE r == [worker[w] EXCEPT !.pc = IF FindDeclaration
                                           THEN "upload" ELSE "declare"]
  <2>1. /\ r \in Work /\ JobFits(r) /\ r.job = worker[w].job
        /\ r.pc = (IF declared.number > 0 THEN "upload" ELSE "declare")
    BY <1>1 DEF Work, JobFits, FindDeclaration
  <2>2. Moves(w, r)
    BY <1>2 DEF Step, Moves, WorkFits
  <2> HIDE DEF r
  <2>3. "raced" \notin invoiceCauses
           => InOrder(invoice', declared', slot') /\ HasReached(r, invoice', declared', slot')
    BY <1>1, <1>2, <2>1, Reached DEF InOrder, HasReached
  <2> QED  BY <1>1, <1>2, <2>1, <2>2, <2>3, GoesOn DEF WorkFits
<1>3. CASE Fails(w, TRUE)
  BY <1>1, <1>3, GivesUp, Reached DEF WorkFits
<1> QED  BY <1>2, <1>3 DEF List

LEMMA DeclareIsKept ==
  ASSUME WorkFits, OrderHolds, NEW w \in Worker, Declare(w)
  PROVE  Kept
<1>1. /\ worker[w] \in Work /\ worker[w].pc = "declare" /\ JobFits(worker[w])
      /\ worker[w].job \in {"request", "poll"}
      /\ UNCHANGED <<invoice, jobs, invoiceCauses>>
      /\ declared \in [number : 0..2, files : SUBSET (1..2)]
  BY DEF Declare, WorkFits, JobFits, Work
<1>2. /\ \/ declared' = declared
         \/ /\ declared' = [declared EXCEPT !.number = @ + 1]
            /\ declared.number < 2
  BY DEF Declare
<1>3. /\ declared' \in [number : 0..2, files : SUBSET (1..2)]
      /\ declared'.files = declared.files
      /\ declared'.number \in {declared.number, declared.number + 1}
  BY <1>1, <1>2
<1>4. ASSUME "raced" \notin invoiceCauses
      PROVE  InOrder(invoice', declared', slot) /\ declared.number = 0
             /\ HasReached(worker[w], invoice, declared, slot)
  <2>1. HasReached(worker[w], invoice, declared, slot) /\ InOrder(invoice, declared, slot)
    BY <1>4, Reached
  <2>2. declared.number = 0 /\ invoice.exists
    BY <1>1, <2>1 DEF HasReached
  <2>3. declared.files \subseteq 1..declared'.number
    BY <1>3, <2>1, <2>2 DEF InOrder
  <2> QED  BY <1>1, <1>3, <2>1, <2>2, <2>3 DEF InOrder, Complete
<1>5. CASE /\ declared' = [declared EXCEPT !.number = @ + 1]
           /\ Step(w, "upload") /\ UNCHANGED <<slot, invoiceFaults>>
  <2> DEFINE r == [worker[w] EXCEPT !.pc = "upload"]
  <2>1. r \in Work /\ JobFits(r) /\ r.job = worker[w].job /\ r.pc = "upload"
    BY <1>1 DEF Work, JobFits
  <2>2. Moves(w, r)
    BY <1>5 DEF Step, Moves, WorkFits
  <2> HIDE DEF r
  <2>3. declared'.number = declared.number + 1
    BY <1>1, <1>5
  <2>4. "raced" \notin invoiceCauses
           => InOrder(invoice', declared', slot') /\ HasReached(r, invoice', declared', slot')
    BY <1>1, <1>4, <1>5, <2>1, <2>3 DEF HasReached
  <2> QED  BY <1>1, <1>3, <1>5, <2>1, <2>2, <2>4, GoesOn DEF WorkFits
<1>6. CASE Fails(w, TRUE)
  BY <1>1, <1>3, <1>4, <1>6, GivesUp DEF WorkFits
<1> QED  BY <1>5, <1>6 DEF Declare

LEMMA UploadIsKept ==
  ASSUME WorkFits, OrderHolds, NEW w \in Worker, Upload(w)
  PROVE  Kept
<1>1. /\ worker[w] \in Work /\ worker[w].pc = "upload" /\ JobFits(worker[w])
      /\ worker[w].job \in {"request", "poll"}
      /\ UNCHANGED <<invoice, jobs, invoiceCauses>>
      /\ declared \in [number : 0..2, files : SUBSET (1..2)]
  BY DEF Upload, WorkFits, JobFits, Work
<1>2. ASSUME NEW d \in 1..declared.number,
             declared' = [declared EXCEPT !.files = @ \cup {d}],
             Ends(w, "invoice", FALSE), UNCHANGED invoiceFaults
      PROVE  Kept
  <2>1. /\ declared' \in [number : 0..2, files : SUBSET (1..2)]
        /\ declared'.number = declared.number
        /\ declared'.files = declared.files \cup {d}
    BY <1>1, <1>2
  <2>2. /\ Moves(w, Waiting) /\ SlotFits(slot')
        /\ slot'.held = "invoice"
    BY <1>1, <1>2, EndsFact DEF Held
  <2>3. "raced" \notin invoiceCauses => InOrder(invoice', declared', slot')
    BY <1>1, <2>1, Reached DEF InOrder, HasReached, Complete
  <2> QED  BY <1>1, <1>2, <2>1, <2>2, <2>3, IsDone DEF WorkFits
<1>3. CASE Fails(w, TRUE) /\ UNCHANGED declared
  BY <1>1, <1>3, GivesUp, Reached DEF WorkFits
<1> QED  BY <1>2, <1>3 DEF Upload

-----------------------------------------------------------------------------
(***************************************************************************)
(* Beginnings, deaths and the cancellation of the order.                   *)
(***************************************************************************)
LEMMA BeginIsKept ==
  ASSUME WorkFits, OrderHolds, NEW w \in Worker, Request(w) \/ Poll(w) \/ Patch(w)
  PROVE  Kept
<1> DEFINE now == [held |-> slot.held, error |-> slot.error, attempts |-> slot.attempts]
<1>1. PICK job \in {"request", "poll", "patch"}, pc \in {"claim", "lookup", "row"} :
         /\ Begin(w, job, pc)
         /\ job = "patch" <=> pc = "row"
         /\ job = "patch" => declared.number > 0
         /\ job # "patch" => slot.held = "none" \/ slot.error
         /\ job = "poll" => slot.attempts < MaxAttempts
  BY DEF Request, Poll, Patch, Retry
<1>2. now \in SlotSeen /\ now.held = slot.held /\ now.error = slot.error
      /\ now.attempts = slot.attempts
      /\ (slot.held = "pending" => ~slot.error)
  BY DEF WorkFits, SlotFits, Slot, SlotSeen
<1> DEFINE s == [Waiting EXCEPT !.job = job, !.pc = pc, !.seen = now]
<1>3. Moves(w, s)
  BY <1>1 DEF Begin, Moves
<1> HIDE DEF now
<1>4. s \in Work /\ s.job = job /\ s.pc = pc /\ s.seen = now
  BY <1>2, WaitingFits DEF Work
<1> HIDE DEF s
<1>5. JobFits(s)
  BY <1>1, <1>2, <1>4 DEF JobFits
<1>6. /\ UNCHANGED <<slot, invoice, declared, invoiceFaults>>
      /\ jobs' \in 0..MaxJobs /\ invoiceCauses' \subseteq InvoiceCause
      /\ worker[w].job = "none"
      /\ \/ "raced" \in invoiceCauses'
         \/ \A v \in Worker \ {w} : worker[v].job = "none"
      /\ invoiceCauses \subseteq invoiceCauses'
  BY <1>1 DEF Begin, providerVars, WorkFits, InvoiceCause, Others
<1>7. WorkFits'
  BY <1>3, <1>4, <1>5, <1>6, WorkStep DEF WorkFits
<1>8. ASSUME "raced" \notin invoiceCauses'
      PROVE  OrderHolds'
  <2>1. InOrder(invoice', declared', slot')
    BY <1>6, <1>8, Reached
  <2>2. worker'[w] = s /\ \A v \in Worker \ {w} : worker'[v] = worker[v]
    BY <1>3 DEF Moves, WorkFits
  <2>3. HasReached(s, invoice', declared', slot')
    BY <1>1, <1>2, <1>4, <1>6, <2>1 DEF HasReached, InOrder
  <2>4. \A v \in Worker \ {w} : HasReached(worker'[v], invoice', declared', slot')
    BY <1>6, <1>8, <2>2 DEF OrderHolds
  <2>5. OneAtATime'
    BY <1>6, <1>8, <2>2 DEF OneAtATime
  <2> QED  BY <2>1, <2>2, <2>3, <2>4, <2>5 DEF OrderHolds
<1>9. OrderHolds'
  BY <1>8 DEF OrderHolds
<1>10. IdStep
  <2>1. s # Waiting
    BY <1>1, <1>4 DEF Waiting
  <2> QED  BY <1>3, <1>4, <2>1, IdOfOne
<1> QED  BY <1>7, <1>9, <1>10 DEF Kept

LEMMA DeathIsKept ==
  ASSUME WorkFits, OrderHolds, NEW w \in Worker, WorkerDies(w)
  PROVE  Kept
<1>1. /\ Moves(w, Waiting) /\ worker[w].job # "none"
      /\ UNCHANGED <<slot, invoice, declared, jobs>>
      /\ invoiceFaults' \in 0..MaxInvoiceFaults
      /\ invoiceCauses' = invoiceCauses \cup {"crashed"}
  BY DEF WorkerDies, Moves, InvoiceFault, WorkFits, providerVars
<1>2. WorkFits'
  BY <1>1, WorkStep, WaitingFits DEF WorkFits, InvoiceCause
<1>3. OrderHolds'
  <2>1. CASE "raced" \in invoiceCauses
    BY <1>1, <2>1 DEF OrderHolds
  <2>2. CASE "raced" \notin invoiceCauses
    <3>1. Waiting \in Work /\ Waiting.job = "none"
          /\ HasReached(Waiting, invoice', declared', slot')
      BY WaitingFits DEF Waiting
    <3>2. InOrder(invoice', declared', slot')
      BY <1>1, <2>2, Reached
    <3> QED  BY <1>1, <2>2, <3>1, <3>2, OrderStep
  <2> QED  BY <2>1, <2>2
<1> QED  BY <1>1, <1>2, <1>3 DEF Kept

LEMMA CancelIsKept ==
  ASSUME WorkFits, OrderHolds, CancelOrder
  PROVE  Kept
<1>1. /\ slot' \in Slot /\ slot'.held = slot.held /\ slot'.error = slot.error
      /\ UNCHANGED <<invoice, declared, worker, jobs, invoiceFaults, invoiceCauses>>
  BY DEF CancelOrder, WorkFits, SlotFits, Slot, providerVars, accountVars
<1>2. WorkFits'
  BY <1>1 DEF WorkFits, SlotFits
<1>3. OrderHolds'
  BY <1>1 DEF OrderHolds, OneAtATime, HasReached, InOrder
<1>4. IdStep
  BY <1>1 DEF IdStep, Waiting
<1> QED  BY <1>2, <1>3, <1>4 DEF Kept

LEMMA StepIsKept ==
  ASSUME InvoiceInv, InvoicingNext
  PROVE  Kept
BY ClaimIsKept, FetchOrderIsKept, LookupIsKept, CreateIsKept, ReadRowIsKept,
   PutRowIsKept, PayIsKept, ListIsKept, DeclareIsKept, UploadIsKept, BeginIsKept,
   DeathIsKept, CancelIsKept DEF InvoiceInv, InvoicingNext

-----------------------------------------------------------------------------
(***************************************************************************)
(* The invariant, and what follows from it.                                *)
(***************************************************************************)
LEMMA InvoicingHoldsFirst == InvoicingInit => InvoiceInv
<1> SUFFICES ASSUME InvoicingInit
             PROVE  InvoiceInv
  OBVIOUS
<1>1. worker \in [Worker -> Work] /\ \A w \in Worker : worker[w] = Waiting
  BY WaitingFits DEF InvoicingInit
<1>2. SlotFits(slot) /\ slot.held = "none"
  BY DEF InvoicingInit, SlotFits, Slot, Held
<1>3. /\ invoice \in [exists : BOOLEAN, deposits : 0..2, paid : -1..2]
      /\ declared \in [number : 0..2, files : SUBSET (1..2)]
      /\ invoice.deposits = 0 /\ declared.number <= 1
      /\ declared.files \subseteq 1..declared.number
      /\ ~invoice.exists => declared.number = 0
  <2>1. CASE invoice = NoInvoice /\ declared = [number |-> 0, files |-> {}]
    BY <2>1 DEF NoInvoice, Unpaid
  <2>2. CASE /\ invoice = [NoInvoice EXCEPT !.exists = TRUE, !.paid = 0]
             /\ declared = [number |-> 1, files |-> {1}]
    <3>1. invoice = [exists |-> TRUE, deposits |-> 0, paid |-> 0]
      BY <2>2 DEF NoInvoice
    <3>2. invoice \in [exists : BOOLEAN, deposits : 0..2, paid : -1..2]
      BY <3>1
    <3>3. {1} \in SUBSET (1..2) /\ {1} \subseteq 1..1
      OBVIOUS
    <3>4. /\ declared.number = 1 /\ declared.files = {1}
          /\ declared \in [number : 0..2, files : SUBSET (1..2)]
      BY <2>2, <3>3
    <3> QED  BY <3>1, <3>2, <3>3, <3>4
  <2> QED  BY <2>1, <2>2 DEF InvoicingInit
<1>4. WorkFits
  BY <1>1, <1>2, <1>3, WaitingFits DEF InvoicingInit, WorkFits
<1>5. OrderHolds
  <2>1. OneAtATime
    BY <1>1 DEF OneAtATime, Waiting
  <2>2. InOrder(invoice, declared, slot)
    BY <1>2, <1>3 DEF InOrder
  <2> QED  BY <1>1, <2>1, <2>2, WaitingFits DEF OrderHolds
<1> QED  BY <1>4, <1>5 DEF InvoiceInv

LEMMA InvoiceInvariant == InvoicingSpec => []InvoiceInv
<1>1. InvoiceInv /\ [InvoicingNext]_invoiceVars => InvoiceInv'
  <2> SUFFICES ASSUME InvoiceInv, [InvoicingNext]_invoiceVars
               PROVE  InvoiceInv'
    OBVIOUS
  <2>1. CASE InvoicingNext
    BY <2>1, StepIsKept DEF Kept, InvoiceInv
  <2>2. CASE UNCHANGED invoiceVars
    BY <2>2 DEF invoiceVars, InvoiceInv, WorkFits, OrderHolds, OneAtATime
  <2> QED  BY <2>1, <2>2
<1> QED  BY <1>1, InvoicingHoldsFirst, PTL DEF InvoicingSpec

(***************************************************************************)
(* An order is invoiced once and completely: one deposit, one declaration  *)
(* with its file, and an id no failure forgets, for any number of retries  *)
(* by workers one after the other (allegro_invoicer.py:122).               *)
(***************************************************************************)
THEOREM InvoicedOnceHolds == InvoicingSpec => InvoicedOnce
<1>1. InvoiceInv => InvoicingTypeOK
  <2> SUFFICES ASSUME InvoiceInv
               PROVE  InvoicingTypeOK
    OBVIOUS
  <2>1. \A w \in Worker : worker[w] \in Work
    BY DEF InvoiceInv, WorkFits
  <2> QED  BY <2>1 DEF InvoiceInv, WorkFits, InvoicingTypeOK, SlotFits, Slot,
                       Work, SlotSeen
<1>2. InvoiceInv => FinishedIsComplete /\ OneDeposit /\ OneDeclaration
  BY DEF InvoiceInv, OrderHolds, InOrder, Complete, FinishedIsComplete, OneDeposit,
         OneDeclaration, DespiteInvoice, Finished
<1>3. /\ InvoiceInv /\ [InvoicingNext]_invoiceVars
      => [ \/ invoiceCauses' # {}
           \/ \A w \in Worker : worker[w].seen.held = "invoice" /\ worker'[w] = Waiting
                 => slot'.held = "invoice" ]_invoiceVars
  BY StepIsKept DEF Kept, IdStep
<1> QED  BY <1>1, <1>2, <1>3, InvoiceInvariant, PTL
            DEF InvoicingSpec, InvoicedOnce, IdIsKept

HIDE InvoicingShape
USE DamageShape

-----------------------------------------------------------------------------
(***************************************************************************)
(* What a request holds fits the step it is at: the case it read, and what *)
(* became of that case's drafts since, ps (workflow.py:183-320).           *)
(***************************************************************************)
Draft == Replacement \cup {NoDraft}
Attempt == {"none", "pending", "unknown", "failed", "confirmed"}

Case == [open : BOOLEAN, status : CaseStatus, draft : Draft, letter : Draft,
         attempt : Attempt, sent : BOOLEAN, prints : SUBSET Notice,
         evidence : [Notice -> 0..2]]

Scanning == {"look", "file"}
Mailing == {"claim_mail", "smtp", "accepted", "refused", "unanswered"}
Shipping == {"unreview", "claim", "ship", "record", "shipped"}

Duty == [op : Op \cup {"none"},
         pc : Scanning \cup Mailing \cup Shipping
                \cup {"idle", "decide", "clone", "prepared", "letter", "resolved"},
         seen : Case,
         status : {"none", "needs_review", "pending", "executing",
                   "pending_confirmation", "created", "error", "unlabelled",
                   "labelled", "delivered", "failed"},
         made : Draft, todo : SUBSET Notice]

CaseFits(c, ps) ==
    /\ c \in Case /\ (~c.open => c = NoCase)
    /\ \A n \in Notice : c.evidence[n] <= 1 /\ (n \notin c.prints => c.evidence[n] = 0)
    /\ c.letter # NoDraft => ps[c.letter].shipped > 0

DutyFits(r, ps) ==
    /\ r \in Duty /\ CaseFits(r.seen, ps)
    /\ r.op = "none" <=> r.pc = "idle"
    /\ r.op = "scan" <=> r.pc \in Scanning
    /\ r.op \in {"confirm", "ignore", "close"} <=> r.pc = "decide"
    /\ r.pc \notin Scanning \cup {"idle"} => r.seen.open
    /\ r.pc \in {"clone", "prepared"} => r.seen.draft = NoDraft
    /\ r.pc = "prepared" => r.made # NoDraft
    /\ r.pc \in Shipping \cup {"letter"} => r.seen.draft # NoDraft
    /\ r.pc \in {"shipped", "letter"} => ps[r.seen.draft].shipped > 0
    /\ r.pc = "ship" => r.status \in {"unlabelled", "labelled"}
    /\ r.pc = "ship" /\ r.status = "labelled" => ps[r.seen.draft].shipped > 0
    /\ r.pc \in Mailing => r.seen.letter # NoDraft

ParcelsFit(ps) ==
    /\ ps \in [Replacement ->
                  [status : {"none", "needs_review", "pending", "executing",
                             "pending_confirmation", "created", "error"},
                   shipped : 0..2]]
    /\ \A d \in Replacement : ps[d].status \in {"created", "pending_confirmation"}
                                 => ps[d].shipped > 0

MailFits(ms, ps) ==
    /\ ms \in [Replacement -> 0..2]
    /\ \A d \in Replacement : ms[d] > 0 => ps[d].shipped > 0

\* a notice that came before yesterday is found (damage_detection.py:664)
MailboxFits ==
    /\ received \in [Notice -> 0..NotYet] /\ indexed \subseteq Notice
    /\ today \in 0..MaxDays /\ cursor \in 0..today
    /\ \A n \in Notice : /\ received[n] \in 0..today \cup {NotYet}
                         /\ received[n] + 1 < today => n \in indexed

DeskFits ==
    /\ CaseFits(case, parcel) /\ ParcelsFit(parcel) /\ MailFits(mailed, parcel)
    /\ operator \in [Operator -> Duty]
    /\ \A o \in Operator : DutyFits(operator[o], parcel)
    /\ moves \in 0..MaxMoves /\ damageFaults \in 0..MaxDamageFaults
    /\ damageCauses \subseteq DamageCause

\* before the case is there nobody has read it and nothing was sent
Unopened ==
    ~case.open => /\ \A o \in Operator : ~operator[o].seen.open
                  /\ \A d \in Replacement : mailed[d] = 0

-----------------------------------------------------------------------------
(***************************************************************************)
(* A replacement that somebody has read in the case stays in it.           *)
(***************************************************************************)
Prepared_ == {"replacement_prepared", "replacement_pending", "replacement_created"}

DraftHolds ==
    \/ DespiteDamage({"opened_twice"})
    \/ /\ \A o \in Operator : operator[o].seen.draft # NoDraft => case.draft # NoDraft
       /\ case.status \in Prepared_ => case.draft # NoDraft

(***************************************************************************)
(* What a scan in progress will still file, and what later scans overlook, *)
(* is accounted for.                                                       *)
(***************************************************************************)
NoticesHold ==
    \/ DespiteDamage({"opened_twice"})
    \/ \A n \in Notice :
          /\ received[n] < Since => n \in case.prints
          /\ \A o \in Operator : operator[o].op = "scan" /\ received[n] + 1 < today
                => n \in case.prints \cup operator[o].todo

(***************************************************************************)
(* Only the replacement of the case is shipped, and who is about to ship   *)
(* it for the first time is alone in that (workflow.py:217).               *)
(***************************************************************************)
Unlabelled(r) == r.pc = "ship" /\ r.status = "unlabelled"

ReplacementHolds ==
    \/ DespiteDamage({"opened_twice", "prepared_twice", "reset"})
    \/ /\ \A o \in Operator : operator[o].seen.draft \in {NoDraft, case.draft}
       /\ \A d \in Replacement : /\ parcel[d].shipped <= 1
                                 /\ d # case.draft => parcel[d].shipped = 0
       /\ \A o \in Operator : Unlabelled(operator[o])
             => /\ parcel[operator[o].seen.draft].shipped = 0
                /\ parcel[operator[o].seen.draft].status = "executing"
       /\ \A o, p \in Operator :
             Unlabelled(operator[o]) /\ Unlabelled(operator[p]) => o = p

(***************************************************************************)
(* While a mail is on its way or was refused without a record of it, or    *)
(* once one has gone out, nobody can claim another (workflow.py:337).      *)
(***************************************************************************)
Sending(r) == r.pc \in {"smtp", "refused"}

CanSend(c) == ~c.sent /\ MaySend(c.attempt)

LetterHolds ==
    \/ DespiteDamage({"misjudged", "settled_early", "opened_twice"})
    \/ /\ Mails <= 1
       /\ \A o \in Operator : Sending(operator[o]) => Mails = 0
       /\ \A o, p \in Operator : Sending(operator[o]) /\ Sending(operator[p]) => o = p
       /\ Mails > 0 \/ (\E o \in Operator : Sending(operator[o])) => ~CanSend(case)

DamageInv == /\ DeskFits /\ MailboxFits /\ Unopened /\ DraftHolds /\ NoticesHold
             /\ ReplacementHolds /\ LetterHolds
-----------------------------------------------------------------------------
(***************************************************************************)
(* A step of one operator, and what is left to show of it, part by part of *)
(* the invariant.                                                          *)
(***************************************************************************)
Works(o, r) == operator' = [operator EXCEPT ![o] = r]

LEMMA Worked ==
  ASSUME DeskFits, NEW o \in Operator, NEW r \in Duty, Works(o, r)
  PROVE  /\ operator' \in [Operator -> Duty] /\ operator'[o] = r
         /\ \A p \in Operator \ {o} : operator'[p] = operator[p]
BY DEF DeskFits, Works

LEMMA FreeFits ==
  /\ NoCase \in Case /\ ~NoCase.open /\ NoCase.draft = NoDraft
  /\ NoCase.letter = NoDraft /\ NoCase.prints = {}
  /\ \A n \in Notice : NoCase.evidence[n] = 0
  /\ Free \in Duty /\ Free.op = "none" /\ Free.pc = "idle" /\ Free.seen = NoCase
  /\ \A ps : CaseFits(NoCase, ps) /\ DutyFits(Free, ps)
<1>1. NoCase \in Case /\ ~NoCase.open /\ NoCase.draft = NoDraft
      /\ NoCase.letter = NoDraft /\ NoCase.prints = {}
      /\ \A n \in Notice : NoCase.evidence[n] = 0
  BY DEF NoCase, Case, CaseStatus, Draft, Attempt
<1>2. \A ps : CaseFits(NoCase, ps)
  BY <1>1 DEF CaseFits
<1>3. Free \in Duty /\ Free.op = "none" /\ Free.pc = "idle" /\ Free.seen = NoCase
  BY <1>1 DEF Free, Duty, Draft
<1>4. \A ps : DutyFits(Free, ps)
  BY <1>2, <1>3 DEF DutyFits, Scanning, Mailing, Shipping
<1> QED  BY <1>1, <1>2, <1>3, <1>4

\* a parcel that was shipped stays shipped
Grows(ps, qs) == \A d \in Replacement : ps[d].shipped > 0 => qs[d].shipped > 0

LEMMA CaseGrows ==
  ASSUME NEW ps, NEW qs, Grows(ps, qs), NEW c, CaseFits(c, ps)
  PROVE  CaseFits(c, qs)
<1>1. c.letter \in Draft
  BY DEF CaseFits, Case
<1> QED  BY <1>1 DEF CaseFits, Grows, Draft

LEMMA DutyGrows ==
  ASSUME NEW ps, NEW qs, Grows(ps, qs), NEW r, DutyFits(r, ps)
  PROVE  DutyFits(r, qs)
<1>1. CaseFits(r.seen, qs)
  BY CaseGrows DEF DutyFits
<1>2. r.seen.draft \in Draft
  BY DEF DutyFits, Duty, Case
<1>3. r.pc \in {"shipped", "letter"} => r.seen.draft # NoDraft
  BY DEF DutyFits, Shipping
<1>4. r.pc = "ship" => r.seen.draft # NoDraft
  BY DEF DutyFits, Shipping
<1> QED  BY <1>1, <1>2, <1>3, <1>4 DEF DutyFits, Grows, Draft

LEMMA DeskStep ==
  ASSUME DeskFits, NEW o \in Operator, NEW r, Works(o, r),
         Grows(parcel, parcel'), DutyFits(r, parcel'), CaseFits(case', parcel'),
         ParcelsFit(parcel'), MailFits(mailed', parcel'),
         moves' \in 0..MaxMoves, damageFaults' \in 0..MaxDamageFaults,
         damageCauses' \subseteq DamageCause
  PROVE  DeskFits'
<1>1. r \in Duty
  BY DEF DutyFits
<1>2. \A p \in Operator \ {o} : DutyFits(operator[p], parcel')
  BY DutyGrows DEF DeskFits
<1>3. \A p \in Operator : DutyFits(operator'[p], parcel')
  BY <1>1, <1>2, Worked
<1> QED  BY <1>1, <1>3, Worked DEF DeskFits

LEMMA UnopenedStep ==
  ASSUME DeskFits, Unopened, NEW o \in Operator, NEW r \in Duty, Works(o, r),
         \/ case'.open
         \/ ~case.open /\ ~r.seen.open /\ mailed' = mailed
  PROVE  Unopened'
BY Worked DEF Unopened

LEMMA DraftStep ==
  ASSUME DeskFits, DraftHolds, NEW o \in Operator, NEW r \in Duty, Works(o, r),
         damageCauses \subseteq damageCauses',
         \/ "opened_twice" \in damageCauses'
         \/ /\ case.draft # NoDraft \/ r.seen.draft # NoDraft => case'.draft # NoDraft
            /\ case'.status \in Prepared_ => case'.draft # NoDraft
  PROVE  DraftHolds'
BY Worked DEF DraftHolds, DespiteDamage

LEMMA NoticeStep ==
  ASSUME DeskFits, NoticesHold, NEW o \in Operator, NEW r \in Duty, Works(o, r),
         damageCauses \subseteq damageCauses', UNCHANGED <<received, today>>,
         \/ "opened_twice" \in damageCauses'
         \/ "opened_twice" \notin damageCauses
            => /\ case.prints \subseteq case'.prints
               /\ \A n \in Notice :
                     /\ received[n] < Since' => n \in case'.prints
                     /\ r.op = "scan" /\ received[n] + 1 < today
                           => n \in case'.prints \cup r.todo
  PROVE  NoticesHold'
BY Worked DEF NoticesHold, DespiteDamage

LEMMA ReplacementStep ==
  ASSUME DeskFits, ReplacementHolds, NEW o \in Operator, NEW r \in Duty, Works(o, r),
         damageCauses \subseteq damageCauses',
         \/ DespiteDamage({"opened_twice", "prepared_twice", "reset"})'
         \/ ~DespiteDamage({"opened_twice", "prepared_twice", "reset"})
            => /\ \A p \in Operator \ {o} : operator[p].seen.draft \in {NoDraft, case'.draft}
               /\ r.seen.draft \in {NoDraft, case'.draft}
               /\ \A d \in Replacement : /\ parcel'[d].shipped <= 1
                                         /\ d # case'.draft => parcel'[d].shipped = 0
               /\ \A p \in Operator \ {o} : Unlabelled(operator[p])
                     => /\ parcel'[operator[p].seen.draft].shipped = 0
                        /\ parcel'[operator[p].seen.draft].status = "executing"
                        /\ ~Unlabelled(r)
               /\ Unlabelled(r) => /\ parcel'[r.seen.draft].shipped = 0
                                   /\ parcel'[r.seen.draft].status = "executing"
  PROVE  ReplacementHolds'
<1>1. /\ operator'[o] = r
      /\ \A p \in Operator \ {o} : operator'[p] = operator[p]
  BY Worked
<1>2. CASE DespiteDamage({"opened_twice", "prepared_twice", "reset"})'
  BY <1>2 DEF ReplacementHolds
<1>3. CASE ~DespiteDamage({"opened_twice", "prepared_twice", "reset"})'
  <2>1. ~DespiteDamage({"opened_twice", "prepared_twice", "reset"})
    BY <1>3 DEF DespiteDamage
  <2>2. \A p, q \in Operator : Unlabelled(operator[p]) /\ Unlabelled(operator[q]) => p = q
    BY <2>1 DEF ReplacementHolds
  <2>3. \A p \in Operator : operator'[p].seen.draft \in {NoDraft, case'.draft}
    BY <1>1, <1>3, <2>1
  <2>4. \A p \in Operator : Unlabelled(operator'[p])
             => /\ parcel'[operator'[p].seen.draft].shipped = 0
                /\ parcel'[operator'[p].seen.draft].status = "executing"
    BY <1>1, <1>3, <2>1
  <2>5. \A p, q \in Operator :
             Unlabelled(operator'[p]) /\ Unlabelled(operator'[q]) => p = q
    BY <1>1, <1>3, <2>1, <2>2
  <2>6. \A d \in Replacement : /\ parcel'[d].shipped <= 1
                               /\ d # case'.draft => parcel'[d].shipped = 0
    BY <1>3, <2>1
  <2> QED  BY <2>3, <2>4, <2>5, <2>6 DEF ReplacementHolds, Unlabelled
<1> QED  BY <1>2, <1>3

LEMMA LetterStep ==
  ASSUME DeskFits, LetterHolds, NEW o \in Operator, NEW r \in Duty, Works(o, r),
         damageCauses \subseteq damageCauses',
         \/ DespiteDamage({"misjudged", "settled_early", "opened_twice"})'
         \/ ~DespiteDamage({"misjudged", "settled_early", "opened_twice"})
            => /\ Mails' <= 1
               /\ Sending(r) => Mails' = 0
               /\ \A p \in Operator \ {o} : Sending(operator[p]) => Mails' = 0 /\ ~Sending(r)
               /\ CanSend(case') => /\ Mails' = 0 /\ ~Sending(r)
                                    /\ \A p \in Operator \ {o} : ~Sending(operator[p])
  PROVE  LetterHolds'
<1>1. /\ operator'[o] = r
      /\ \A p \in Operator \ {o} : operator'[p] = operator[p]
  BY Worked
<1>2. CASE DespiteDamage({"misjudged", "settled_early", "opened_twice"})'
  BY <1>2 DEF LetterHolds
<1>3. CASE ~DespiteDamage({"misjudged", "settled_early", "opened_twice"})'
  <2>1. ~DespiteDamage({"misjudged", "settled_early", "opened_twice"})
    BY <1>3 DEF DespiteDamage
  <2>2. \A p, q \in Operator : Sending(operator[p]) /\ Sending(operator[q]) => p = q
    BY <2>1 DEF LetterHolds
  <2>3. \A p \in Operator : Sending(operator'[p]) => Mails' = 0
    BY <1>1, <1>3, <2>1
  <2>4. \A p, q \in Operator : Sending(operator'[p]) /\ Sending(operator'[q]) => p = q
    BY <1>1, <1>3, <2>1, <2>2
  <2>5. Mails' > 0 \/ (\E p \in Operator : Sending(operator'[p])) => ~CanSend(case')
    BY <1>1, <1>3, <2>1
  <2> QED  BY <1>3, <2>1, <2>3, <2>4, <2>5 DEF LetterHolds, Sending, CanSend
<1> QED  BY <1>2, <1>3
-----------------------------------------------------------------------------
\* what the invariant says of one operator
LEMMA OneOf ==
  ASSUME DamageInv, NEW o \in Operator
  PROVE  /\ DutyFits(operator[o], parcel) /\ operator[o] \in Duty
         /\ CaseFits(case, parcel) /\ case \in Case
         /\ CaseFits(operator[o].seen, parcel)
         /\ operator[o].seen.draft \in Draft /\ operator[o].seen.letter \in Draft
         /\ case.draft \in Draft
         /\ DeskFits /\ MailboxFits /\ Unopened /\ DraftHolds /\ NoticesHold
         /\ ReplacementHolds /\ LetterHolds
<1>1. DutyFits(operator[o], parcel) /\ CaseFits(case, parcel)
  BY DEF DamageInv, DeskFits
<1>2. CaseFits(operator[o].seen, parcel) /\ operator[o] \in Duty
  BY <1>1 DEF DutyFits
<1>3. operator[o].seen \in Case /\ case \in Case
  BY <1>1, <1>2 DEF CaseFits
<1>4. operator[o].seen.draft \in Draft /\ operator[o].seen.letter \in Draft
      /\ case.draft \in Draft
  BY <1>3 DEF Case
<1> QED  BY <1>1, <1>2, <1>3, <1>4 DEF DamageInv

(***************************************************************************)
(* The parts that a step keeps which does not touch what they are about.   *)
(***************************************************************************)
\* a case somebody may hold: the one he read, the one there is, or none
CaseHeld(o) == {operator[o].seen, case, NoCase}

LEMMA SameOpen ==
  ASSUME DamageInv, NEW o \in Operator, NEW r \in Duty, Works(o, r),
         r.seen \in CaseHeld(o), case'.open = case.open, mailed' = mailed
  PROVE  Unopened'
<1>1. ~case.open => ~r.seen.open
  BY OneOf, FreeFits DEF CaseHeld, Unopened
<1>2. case'.open \in BOOLEAN /\ case.open \in BOOLEAN
  BY OneOf DEF Case
<1> QED  BY <1>1, <1>2, OneOf, UnopenedStep

LEMMA SameDraft ==
  ASSUME DamageInv, NEW o \in Operator, NEW r \in Duty, Works(o, r),
         r.seen \in CaseHeld(o), case'.draft = case.draft,
         damageCauses \subseteq damageCauses',
         case'.status \in Prepared_ => \/ case.status \in Prepared_
                                       \/ operator[o].seen.draft # NoDraft
  PROVE  DraftHolds'
<1>1. "opened_twice" \notin damageCauses
         => /\ operator[o].seen.draft # NoDraft => case.draft # NoDraft
            /\ case.status \in Prepared_ => case.draft # NoDraft
  BY OneOf DEF DraftHolds, DespiteDamage
<1>2. r.seen.draft # NoDraft => operator[o].seen.draft # NoDraft \/ case.draft # NoDraft
  BY FreeFits DEF CaseHeld
<1>3. DeskFits /\ DraftHolds
  BY OneOf
<1> QED  BY <1>1, <1>2, <1>3, DraftStep

LEMMA SameNotices ==
  ASSUME DamageInv, NEW o \in Operator, NEW r \in Duty, Works(o, r),
         r.op = "scan" => operator[o].op = "scan" /\ r.todo = operator[o].todo,
         case'.prints = case.prints, UNCHANGED mailboxVars,
         damageCauses \subseteq damageCauses'
  PROVE  MailboxFits' /\ NoticesHold'
<1>1. UNCHANGED <<received, indexed, today, cursor>> /\ DeskFits /\ NoticesHold
      /\ MailboxFits
  BY OneOf DEF mailboxVars
<1>2. MailboxFits'
  BY <1>1 DEF MailboxFits
<1>3. "opened_twice" \notin damageCauses
         => /\ case.prints \subseteq case'.prints
            /\ \A n \in Notice :
                  /\ received[n] < Since' => n \in case'.prints
                  /\ r.op = "scan" /\ received[n] + 1 < today
                        => n \in case'.prints \cup r.todo
  BY <1>1 DEF NoticesHold, DespiteDamage, Since
<1> QED  BY <1>1, <1>2, <1>3, NoticeStep

LEMMA SameParcels ==
  ASSUME DamageInv, NEW o \in Operator, NEW r \in Duty, Works(o, r),
         r.seen \in CaseHeld(o), ~Unlabelled(r), case'.draft = case.draft,
         parcel' = parcel, damageCauses \subseteq damageCauses'
  PROVE  ReplacementHolds'
<1>1. ~DespiteDamage({"opened_twice", "prepared_twice", "reset"})
         => /\ \A p \in Operator \ {o} : operator[p].seen.draft \in {NoDraft, case'.draft}
            /\ r.seen.draft \in {NoDraft, case'.draft}
  BY OneOf, FreeFits DEF ReplacementHolds, CaseHeld
<1>2. ~DespiteDamage({"opened_twice", "prepared_twice", "reset"})
         => /\ \A d \in Replacement : /\ parcel'[d].shipped <= 1
                                      /\ d # case'.draft => parcel'[d].shipped = 0
            /\ \A p \in Operator \ {o} : Unlabelled(operator[p])
                  => /\ parcel'[operator[p].seen.draft].shipped = 0
                     /\ parcel'[operator[p].seen.draft].status = "executing"
                     /\ ~Unlabelled(r)
  BY OneOf DEF ReplacementHolds
<1>3. DeskFits /\ ReplacementHolds
  BY OneOf
<1> QED  BY <1>1, <1>2, <1>3, ReplacementStep

LEMMA SameLetter ==
  ASSUME DamageInv, NEW o \in Operator, NEW r \in Duty, Works(o, r),
         ~Sending(r), CanSend(case') => CanSend(case), mailed' = mailed,
         damageCauses \subseteq damageCauses'
  PROVE  LetterHolds'
<1>1. Mails' = Mails
  BY DEF Mails
<1>2. DeskFits /\ LetterHolds
  BY OneOf
<1>3. ~DespiteDamage({"misjudged", "settled_early", "opened_twice"})
         => /\ Mails <= 1
            /\ \A p \in Operator \ {o} : Sending(operator[p]) => Mails = 0 /\ ~CanSend(case)
            /\ CanSend(case) => ~(Mails > 0)
  BY <1>2 DEF LetterHolds
<1>4. Mails \in Nat
  BY <1>2 DEF DeskFits, MailFits, Mails, Replacement
<1> QED  BY <1>1, <1>2, <1>3, <1>4, LetterStep

(***************************************************************************)
(* A request that reads, ends, or writes a status: no draft, letter or     *)
(* notice of the case changes, and no attempt becomes free.                *)
(***************************************************************************)
Calm(o, r) ==
    /\ Works(o, r) /\ r.seen \in CaseHeld(o) /\ ~Unlabelled(r) /\ ~Sending(r)
    /\ r.op = "scan" => operator[o].op = "scan" /\ r.todo = operator[o].todo
    /\ case'.open = case.open /\ case'.draft = case.draft
    /\ case'.prints = case.prints /\ (CanSend(case') => CanSend(case))
    /\ UNCHANGED <<parcel, mailed, mailboxVars, damageCauses>>

LEMMA CalmStep ==
  ASSUME DamageInv, NEW o \in Operator, NEW r, Calm(o, r), DutyFits(r, parcel),
         CaseFits(case', parcel),
         case'.status \in Prepared_ => \/ case.status \in Prepared_
                                       \/ operator[o].seen.draft # NoDraft,
         moves' \in 0..MaxMoves, damageFaults' \in 0..MaxDamageFaults
  PROVE  DamageInv'
<1>1. r \in Duty /\ Works(o, r) /\ r.seen \in CaseHeld(o)
  BY DEF DutyFits, Calm
<1>2. UNCHANGED <<parcel, mailed, mailboxVars, damageCauses>>
      /\ damageCauses \subseteq damageCauses'
  BY DEF Calm
<1>3. DeskFits'
  <2>1. /\ DeskFits /\ Grows(parcel, parcel') /\ ParcelsFit(parcel')
        /\ MailFits(mailed', parcel') /\ damageCauses' \subseteq DamageCause
    BY <1>2 DEF DamageInv, DeskFits, Grows
  <2>2. DutyFits(r, parcel') /\ CaseFits(case', parcel')
    BY <1>2
  <2> QED  BY <1>1, <2>1, <2>2, DeskStep
<1>4. Unopened'
  BY <1>1, <1>2, SameOpen DEF Calm
<1>5. DraftHolds'
  BY <1>1, <1>2, SameDraft DEF Calm
<1>6. MailboxFits' /\ NoticesHold'
  BY <1>1, <1>2, SameNotices DEF Calm
<1>7. ReplacementHolds'
  BY <1>1, <1>2, SameParcels DEF Calm
<1>8. LetterHolds'
  BY <1>1, <1>2, SameLetter DEF Calm
<1> QED  BY <1>3, <1>4, <1>5, <1>6, <1>7, <1>8 DEF DamageInv

(***************************************************************************)
(* How a request begins, and how it writes to the case.                    *)
(***************************************************************************)
Started(op, pc, status, todo) ==
    [op |-> op, pc |-> pc, seen |-> case, status |-> status, made |-> NoDraft,
     todo |-> todo]

LEMMA BeginFact ==
  ASSUME NEW o, NEW op, NEW pc
  PROVE  /\ Begin_(o, op, pc, << >>) => Works(o, Started(op, pc, "none", {}))
         /\ \A s : Begin_(o, op, pc, [status |-> s]) => Works(o, Started(op, pc, s, {}))
         /\ \A t : Begin_(o, op, pc, [todo |-> t]) => Works(o, Started(op, pc, "none", t))
<1>1. DOMAIN Free = {"op", "pc", "seen", "status", "made", "todo"}
  BY DEF Free
<1>2. Begin_(o, op, pc, << >>) => Works(o, Started(op, pc, "none", {}))
  <2>1. Started(op, pc, "none", {}) = [f \in DOMAIN Free |->
           IF f = "op" THEN op ELSE IF f = "pc" THEN pc
           ELSE IF f = "seen" THEN case
           ELSE IF f \in DOMAIN << >> THEN << >>[f] ELSE Free[f]]
    BY DEF Started, Free
  <2> QED  BY <2>1 DEF Begin_, Works
<1>3. ASSUME NEW s, Begin_(o, op, pc, [status |-> s])
      PROVE  Works(o, Started(op, pc, s, {}))
  <2>1. Started(op, pc, s, {}) = [f \in DOMAIN Free |->
           IF f = "op" THEN op ELSE IF f = "pc" THEN pc
           ELSE IF f = "seen" THEN case
           ELSE IF f \in DOMAIN [status |-> s] THEN [status |-> s][f] ELSE Free[f]]
    BY DEF Started, Free
  <2> QED  BY <1>3, <2>1 DEF Begin_, Works
<1>4. ASSUME NEW t, Begin_(o, op, pc, [todo |-> t])
      PROVE  Works(o, Started(op, pc, "none", t))
  <2>1. Started(op, pc, "none", t) = [f \in DOMAIN Free |->
           IF f = "op" THEN op ELSE IF f = "pc" THEN pc
           ELSE IF f = "seen" THEN case
           ELSE IF f \in DOMAIN [todo |-> t] THEN [todo |-> t][f] ELSE Free[f]]
    BY DEF Started, Free
  <2> QED  BY <1>4, <2>1 DEF Begin_, Works
<1> QED  BY <1>2, <1>3, <1>4

LEMMA SaveFact ==
  ASSUME case \in Case, NEW x, NEW y
  PROVE  /\ Save([status |-> x]) => case' = [case EXCEPT !.status = x]
         /\ Save([letter |-> x]) => case' = [case EXCEPT !.letter = x]
         /\ Save([attempt |-> x]) => case' = [case EXCEPT !.attempt = x]
         /\ Save([status |-> x, draft |-> y])
               => case' = [case EXCEPT !.status = x, !.draft = y]
         /\ Save([prints |-> x, evidence |-> y])
               => case' = [case EXCEPT !.prints = x, !.evidence = y]
<1>1. Save([status |-> x]) => case' = [case EXCEPT !.status = x]
  BY DEF Save, Case
<1>2. Save([letter |-> x]) => case' = [case EXCEPT !.letter = x]
  BY DEF Save, Case
<1>3. Save([attempt |-> x]) => case' = [case EXCEPT !.attempt = x]
  BY DEF Save, Case
<1>4. Save([status |-> x, draft |-> y])
         => case' = [case EXCEPT !.status = x, !.draft = y]
  BY DEF Save, Case
<1>5. Save([prints |-> x, evidence |-> y])
         => case' = [case EXCEPT !.prints = x, !.evidence = y]
  BY DEF Save, Case
<1> QED  BY <1>1, <1>2, <1>3, <1>4, <1>5

-----------------------------------------------------------------------------
(***************************************************************************)
(* The beginnings: what a request is for, and the case it read.            *)
(***************************************************************************)
LEMMA BeginStep ==
  ASSUME DamageInv, NEW o \in Operator, NEW op, NEW pc, NEW s,
         Works(o, Started(op, pc, s, {})), UNCHANGED case,
         DutyFits(Started(op, pc, s, {}), parcel),
         op # "scan", pc \notin {"ship", "smtp", "refused"},
         UNCHANGED <<parcel, mailed, mailboxVars, damageFaults, damageCauses>>,
         moves' \in 0..MaxMoves
  PROVE  DamageInv'
<1> DEFINE r == Started(op, pc, s, {})
<1>1. r.seen = case /\ r.op = op /\ r.pc = pc
  BY DEF Started
<1>2. Calm(o, r)
  BY <1>1 DEF Calm, CaseHeld, Unlabelled, Sending
<1>3. /\ CaseFits(case', parcel) /\ damageFaults' \in 0..MaxDamageFaults
      /\ case'.status \in Prepared_ => case.status \in Prepared_
  BY DEF DamageInv, DeskFits
<1> HIDE DEF r
<1> QED  BY <1>2, <1>3, CalmStep DEF r

Begins(o) ==
    Decide(o) \/ Prepare(o) \/ CreateParcel(o) \/ ConfirmParcel(o)
       \/ WriteLetter(o) \/ SendLetter(o) \/ ResolveAttempt(o)

LEMMA BeginsFact ==
  ASSUME DamageInv, NEW o \in Operator, Begins(o)
  PROVE  \E op \in Op \ {"scan"} : \E pc, s :
            /\ \/ Begin_(o, op, pc, << >>) /\ s = "none"
               \/ Begin_(o, op, pc, [status |-> s])
            /\ DutyFits(Started(op, pc, s, {}), parcel)
            /\ pc \notin {"ship", "smtp", "refused"}
<1>1. /\ CaseFits(case, parcel) /\ ParcelsFit(parcel) /\ case.draft \in Draft
      /\ case.letter \in Draft /\ case \in Case
  BY DEF DamageInv, DeskFits, CaseFits, Case
<1>2. ASSUME NEW op, NEW pc, NEW s
      PROVE  LET r == Started(op, pc, s, {}) IN
             /\ r.op = op /\ r.pc = pc /\ r.seen = case /\ r.status = s
             /\ r.made = NoDraft /\ r.todo = {}
             /\ r = [op |-> op, pc |-> pc, seen |-> case, status |-> s,
                     made |-> NoDraft, todo |-> {}]
  BY DEF Started
<1>3. ASSUME NEW op \in {"confirm", "ignore", "close"}
      PROVE  case.open => DutyFits(Started(op, "decide", "none", {}), parcel)
  BY <1>1, <1>2 DEF DutyFits, Duty, Op, Scanning, Mailing, Shipping, Draft
<1>4. case.open /\ case.draft = NoDraft
         => DutyFits(Started("prepare", "clone", "none", {}), parcel)
  BY <1>1, <1>2 DEF DutyFits, Duty, Op, Scanning, Mailing, Shipping, Draft
<1>5. ASSUME NEW pc \in {"record", "unreview", "claim"},
             NEW s \in {"none", "needs_review", "pending", "executing",
                        "pending_confirmation", "created", "error"}
      PROVE  case.open /\ case.draft # NoDraft
                => DutyFits(Started("create", pc, s, {}), parcel)
  BY <1>1, <1>2 DEF DutyFits, Duty, Op, Scanning, Mailing, Shipping, Draft
<1>6. case.open /\ case.draft # NoDraft /\ parcel[case.draft].status = "pending_confirmation"
         => DutyFits(Started("confirm_parcel", "shipped", "none", {}), parcel)
  BY <1>1, <1>2 DEF DutyFits, Duty, Op, Scanning, Mailing, Shipping, Draft, ParcelsFit
<1>7. case.open /\ LetterReady
         => DutyFits(Started("letter", "letter", "none", {}), parcel)
  BY <1>1, <1>2 DEF DutyFits, Duty, Op, Scanning, Mailing, Shipping, Draft, ParcelsFit,
                    LetterReady
<1>8. case.open /\ case.letter # NoDraft
         => DutyFits(Started("send", "claim_mail", "none", {}), parcel)
  BY <1>1, <1>2 DEF DutyFits, Duty, Op, Scanning, Mailing, Shipping, Draft
<1>9. ASSUME NEW s \in {"delivered", "failed"}
      PROVE  case.open => DutyFits(Started("resolve", "resolved", s, {}), parcel)
  BY <1>1, <1>2 DEF DutyFits, Duty, Op, Scanning, Mailing, Shipping, Draft
<1>10. CASE Decide(o)
  BY <1>3, <1>10 DEF Decide, Op
<1>11. CASE Prepare(o)
  BY <1>4, <1>11 DEF Prepare, Preparable, Op
<1>12. CASE CreateParcel(o)
  <2> DEFINE s == parcel[case.draft].status
             pc == CASE s = "created" -> "record" [] s = "needs_review" -> "unreview"
                     [] OTHER -> "claim"
  <2>1. /\ case.open /\ case.draft # NoDraft /\ Begin_(o, "create", pc, [status |-> s])
    BY <1>12 DEF CreateParcel
  <2>2. s \in {"none", "needs_review", "pending", "executing",
               "pending_confirmation", "created", "error"}
    BY <1>1, <2>1 DEF ParcelsFit, Draft
  <2>3. pc \in {"record", "unreview", "claim"}
    OBVIOUS
  <2> HIDE DEF s, pc
  <2> QED  BY <1>5, <2>1, <2>2, <2>3 DEF Op
<1>13. CASE ConfirmParcel(o)
  BY <1>6, <1>13 DEF ConfirmParcel, Op
<1>14. CASE WriteLetter(o)
  BY <1>7, <1>14 DEF WriteLetter, Op
<1>15. CASE SendLetter(o)
  BY <1>8, <1>15 DEF SendLetter, Op
<1>16. CASE ResolveAttempt(o)
  BY <1>9, <1>16 DEF ResolveAttempt, Op
<1> QED  BY <1>10, <1>11, <1>12, <1>13, <1>14, <1>15, <1>16 DEF Begins

LEMMA BeginsKeep ==
  ASSUME DamageInv, NEW o \in Operator, Begins(o)
  PROVE  DamageInv'
<1>1. PICK op \in Op \ {"scan"} : \E pc, s :
            /\ \/ Begin_(o, op, pc, << >>) /\ s = "none"
               \/ Begin_(o, op, pc, [status |-> s])
            /\ DutyFits(Started(op, pc, s, {}), parcel)
            /\ pc \notin {"ship", "smtp", "refused"}
  BY BeginsFact
<1>2. PICK pc, s :
            /\ \/ Begin_(o, op, pc, << >>) /\ s = "none"
               \/ Begin_(o, op, pc, [status |-> s])
            /\ DutyFits(Started(op, pc, s, {}), parcel)
            /\ pc \notin {"ship", "smtp", "refused"}
  BY <1>1
<1>3. Works(o, Started(op, pc, s, {}))
  BY <1>2, BeginFact
<1>4. /\ UNCHANGED <<case, parcel, mailed, mailboxVars, damageFaults, damageCauses>>
      /\ moves' \in 0..MaxMoves
  BY <1>2 DEF Begin_, DamageInv, DeskFits
<1> QED  BY <1>1, <1>2, <1>3, <1>4, BeginStep

-----------------------------------------------------------------------------
(***************************************************************************)
(* The mailbox (damage_detection.py:664).                                  *)
(***************************************************************************)
LEMMA MailboxKeeps ==
  ASSUME DamageInv, Mailbox
  PROVE  DamageInv'
<1>1. /\ UNCHANGED <<case, parcel, mailed, operator, moves, damageFaults, damageCauses,
                     cursor>>
      /\ DeskFits /\ MailboxFits /\ Unopened /\ DraftHolds /\ NoticesHold
      /\ ReplacementHolds /\ LetterHolds
  BY DEF Mailbox, Day, Receive, Index, DamageInv
<1>2. DeskFits' /\ Unopened' /\ DraftHolds'
  BY <1>1 DEF DeskFits, Unopened, DraftHolds, DespiteDamage
<1>3. ReplacementHolds'
  BY <1>1 DEF ReplacementHolds, DespiteDamage
<1>4. LetterHolds'
  BY <1>1 DEF LetterHolds, DespiteDamage, Mails
<1>5. MailboxFits'
  <2>1. CASE Day
    BY <1>1, <2>1 DEF Day, MailboxFits, NotYet
  <2>2. ASSUME NEW n \in Notice, Receive(n)
        PROVE  MailboxFits'
    BY <1>1, <2>2 DEF Receive, MailboxFits, NotYet
  <2>3. ASSUME NEW n \in Notice, Index(n)
        PROVE  MailboxFits'
    BY <1>1, <2>3 DEF Index, MailboxFits
  <2> QED  BY <2>1, <2>2, <2>3 DEF Mailbox
<1>6. NoticesHold'
  <2>1. CASE "opened_twice" \in damageCauses
    BY <1>1, <2>1 DEF NoticesHold, DespiteDamage
  <2>2. CASE "opened_twice" \notin damageCauses
    <3>1. Since' = Since /\ Since <= today /\ Since \in Nat
      BY <1>1 DEF Since, MailboxFits
    <3>2. \A n \in Notice : /\ received[n] < Since => n \in case.prints
                            /\ \A o \in Operator : operator[o].op = "scan" /\ received[n] + 1 < today
                                 => n \in case.prints \cup operator[o].todo
      BY <1>1, <2>2 DEF NoticesHold, DespiteDamage
    <3>3. CASE Day
      BY <1>1, <3>1, <3>2, <3>3 DEF Day, NoticesHold, Since
    <3>4. ASSUME NEW n \in Notice, Receive(n)
          PROVE  NoticesHold'
      <4>1. \A m \in Notice : \/ received'[m] = received[m]
                              \/ received'[m] = today
        BY <1>1, <3>4 DEF Receive, MailboxFits
      <4>2. \A m \in Notice : received[m] \in Nat
        BY <1>1 DEF MailboxFits, NotYet
      <4>3. today' = today /\ today \in Nat
        BY <1>1, <3>4 DEF Receive, MailboxFits
      <4> QED  BY <1>1, <3>1, <3>2, <4>1, <4>2, <4>3 DEF NoticesHold, Since
    <3>5. ASSUME NEW n \in Notice, Index(n)
          PROVE  NoticesHold'
      BY <1>1, <3>1, <3>2, <3>5 DEF Index, NoticesHold, Since
    <3> QED  BY <3>3, <3>4, <3>5 DEF Mailbox
  <2> QED  BY <2>1, <2>2
<1> QED  BY <1>1, <1>2, <1>3, <1>4, <1>5, <1>6 DEF DamageInv
-----------------------------------------------------------------------------
(***************************************************************************)
(* A scan: the notices it was given, one after the other                   *)
(* (damage_detection.py:269, :664).                                        *)
(***************************************************************************)
LEMMA ScanKeeps ==
  ASSUME DamageInv, NEW o \in Operator, Scan(o)
  PROVE  DamageInv'
<1> DEFINE t == {n \in indexed : received[n] >= Since}
           r == Started("scan", "look", "none", t)
<1>1. Begin_(o, "scan", "look", [todo |-> t])
  BY DEF Scan
<1>2. Works(o, r)
  BY <1>1, BeginFact
<1>3. /\ UNCHANGED <<case, parcel, mailed, mailboxVars, damageFaults, damageCauses>>
      /\ moves' \in 0..MaxMoves
  BY <1>1 DEF Begin_, DamageInv, DeskFits
<1>4. UNCHANGED <<received, indexed, today, cursor>>
  BY <1>3 DEF mailboxVars
<1>5. /\ r.op = "scan" /\ r.pc = "look" /\ r.seen = case /\ r.todo = t
      /\ r.status = "none" /\ r.made = NoDraft /\ t \subseteq Notice
      /\ r = [op |-> "scan", pc |-> "look", seen |-> case, status |-> "none",
              made |-> NoDraft, todo |-> t]
  BY OneOf DEF Started, MailboxFits
<1> HIDE DEF r
<1>6. DutyFits(r, parcel) /\ r \in Duty
  BY <1>5, OneOf DEF DutyFits, Duty, Op, Draft, Scanning, Mailing, Shipping
<1>7. DeskFits'
  <2>1. /\ DeskFits /\ Grows(parcel, parcel') /\ ParcelsFit(parcel')
        /\ MailFits(mailed', parcel') /\ DutyFits(r, parcel')
        /\ CaseFits(case', parcel') /\ damageFaults' \in 0..MaxDamageFaults
        /\ damageCauses' \subseteq DamageCause
    BY <1>3, <1>6 DEF DamageInv, DeskFits, Grows
  <2> QED  BY <1>2, <1>3, <2>1, DeskStep
<1>8. MailboxFits'
  BY <1>4, OneOf DEF MailboxFits
<1>9. r.seen \in CaseHeld(o) /\ ~Unlabelled(r) /\ ~Sending(r)
  BY <1>5 DEF CaseHeld, Unlabelled, Sending
<1>10. /\ damageCauses \subseteq damageCauses' /\ case'.open = case.open
       /\ case'.draft = case.draft /\ case'.prints = case.prints
       /\ case'.status = case.status /\ parcel' = parcel /\ mailed' = mailed
       /\ CanSend(case') = CanSend(case)
  BY <1>3
<1>11. NoticesHold'
  <2>1. ASSUME "opened_twice" \notin damageCauses, NEW n \in Notice
        PROVE  /\ received[n] < Since' => n \in case'.prints
               /\ received[n] + 1 < today => n \in case'.prints \cup t
    <3>1. Since' = Since /\ Since \in Nat /\ received[n] \in Nat
      BY <1>4, OneOf DEF Since, MailboxFits, NotYet
    <3>2. received[n] < Since => n \in case.prints
      BY <2>1, OneOf DEF NoticesHold, DespiteDamage
    <3>3. received[n] + 1 < today => n \in indexed
      BY OneOf DEF MailboxFits
    <3> QED  BY <1>3, <3>1, <3>2, <3>3
  <2> HIDE DEF t
  <2> QED  BY <1>2, <1>3, <1>4, <1>5, <1>6, <2>1, OneOf, NoticeStep
<1>12. Unopened'
  BY <1>2, <1>6, <1>9, <1>10, SameOpen
<1>13. DraftHolds'
  BY <1>2, <1>6, <1>9, <1>10, SameDraft
<1>14. ReplacementHolds'
  BY <1>2, <1>6, <1>9, <1>10, SameParcels
<1>15. LetterHolds'
  BY <1>2, <1>6, <1>9, <1>10, SameLetter
<1> QED  BY <1>7, <1>8, <1>11, <1>12, <1>13, <1>14, <1>15 DEF DamageInv
LEMMA LookUpKeeps ==
  ASSUME DamageInv, NEW o \in Operator, LookUp(o)
  PROVE  DamageInv'
<1> DEFINE r == [operator[o] EXCEPT !.pc = "file", !.seen = case]
<1>1. /\ operator[o].pc = "look" /\ operator[o] \in Duty
      /\ DutyFits(operator[o], parcel) /\ CaseFits(case, parcel) /\ case \in Case
      /\ operator \in [Operator -> Duty]
  BY OneOf DEF LookUp, At, DeskFits
<1>2. /\ r \in Duty /\ r.pc = "file" /\ r.seen = case
      /\ r.op = operator[o].op /\ r.todo = operator[o].todo
  BY <1>1 DEF Duty, Scanning
<1>3. Works(o, r)
  BY <1>1 DEF LookUp, Works
<1> HIDE DEF r
<1>4. operator[o].op = "scan"
  BY <1>1 DEF DutyFits, Scanning
<1>5. DutyFits(r, parcel)
  BY <1>1, <1>2, <1>4 DEF DutyFits, Scanning, Mailing, Shipping
<1>6. /\ UNCHANGED <<case, parcel, mailed, mailboxVars, damageCauses>>
      /\ moves' \in 0..MaxMoves /\ damageFaults' \in 0..MaxDamageFaults
  BY OneOf DEF LookUp, DeskFits
<1>7. Calm(o, r)
  BY <1>2, <1>3, <1>4, <1>6 DEF Calm, CaseHeld, Unlabelled, Sending
<1> QED  BY <1>1, <1>5, <1>6, <1>7, CalmStep

LEMMA FiledCase ==
  ASSUME DamageInv, NEW o \in Operator, FileNotice(o)
  PROVE  \E n \in operator[o].todo :
            LET r == [operator[o] EXCEPT !.pc = "look", !.todo = @ \ {n}, !.seen = NoCase] IN
            /\ Works(o, r) /\ CaseFits(case', parcel) /\ case'.open
            /\ Seen(o).open => /\ case'.prints = Seen(o).prints \cup {n}
                               /\ case'.draft = case.draft /\ case'.status = case.status
                               /\ case'.sent = case.sent /\ case'.attempt = case.attempt
            /\ ~Seen(o).open => case'.draft = NoDraft /\ case'.status = "needs_review"
                                /\ case'.prints = {n}
<1> DEFINE s == operator[o].seen
<1>1. /\ operator[o] \in Duty /\ CaseFits(case, parcel) /\ case \in Case
      /\ CaseFits(s, parcel) /\ operator \in [Operator -> Duty]
      /\ s.open => case.open
  BY OneOf DEF DeskFits, Unopened
<1>2. PICK n \in operator[o].todo :
          /\ IF s.open
             THEN Save([prints |-> s.prints \cup {n},
                        evidence |-> IF Fresh(o, n)
                            THEN [s.evidence EXCEPT ![n] = IF @ < 2 THEN @ + 1 ELSE @]
                            ELSE s.evidence])
             ELSE case' = [NoCase EXCEPT !.open = TRUE, !.prints = {n},
                                         !.evidence[n] = 1]
          /\ operator' = [operator EXCEPT ![o].pc = "look", ![o].todo = @ \ {n},
                                          ![o].seen = NoCase]
  BY DEF FileNotice, Seen
<1> DEFINE r == [operator[o] EXCEPT !.pc = "look", !.todo = @ \ {n}, !.seen = NoCase]
<1>3. Works(o, r)
  BY <1>1, <1>2 DEF Works
<1>4. n \in Notice /\ s \in Case
  BY <1>1 DEF Duty, CaseFits
<1>5. CASE s.open
  <2> DEFINE e == IF Fresh(o, n)
                  THEN [s.evidence EXCEPT ![n] = IF @ < 2 THEN @ + 1 ELSE @]
                  ELSE s.evidence
             q == s.prints \cup {n}
  <2>1. Save([prints |-> q, evidence |-> e])
    BY <1>2, <1>5
  <2>2. s.evidence \in [Notice -> 0..2] /\ s.prints \subseteq Notice
    BY <1>4 DEF Case
  <2>3. \A m \in Notice : s.evidence[m] <= 1 /\ (m \notin s.prints => s.evidence[m] = 0)
    BY <1>1 DEF CaseFits
  <2>4. e \in [Notice -> 0..2] /\ q \subseteq Notice
    BY <1>4, <2>2
  <2>5. \A m \in Notice : e[m] <= 1 /\ (m \notin q => e[m] = 0)
    <3>1. Fresh(o, n) <=> n \notin s.prints
      BY DEF Fresh, Seen
    <3>2. CASE n \notin s.prints
      <4>1. s.evidence[n] = 0
        BY <1>4, <2>3, <3>2
      <4>2. e = [s.evidence EXCEPT ![n] = 1]
        BY <3>1, <3>2, <4>1, <2>2, <1>4
      <4> QED  BY <1>4, <2>2, <2>3, <4>2
    <3>3. CASE n \in s.prints
      BY <1>4, <2>2, <2>3, <3>1, <3>3
    <3> QED  BY <3>2, <3>3
  <2> HIDE DEF e, q
  <2>6. case' = [case EXCEPT !.prints = q, !.evidence = e]
    BY <1>1, <2>1, SaveFact
  <2>7. /\ case' \in Case /\ case'.open = case.open /\ case'.draft = case.draft
        /\ case'.letter = case.letter /\ case'.status = case.status
        /\ case'.sent = case.sent /\ case'.attempt = case.attempt
        /\ case'.prints = q /\ case'.evidence = e
    BY <1>1, <2>4, <2>6 DEF Case
  <2>8. case'.open
    BY <1>1, <1>5, <2>7
  <2>9. CaseFits(case', parcel)
    BY <1>1, <2>5, <2>7, <2>8 DEF CaseFits
  <2> QED  BY <1>3, <1>5, <2>7, <2>8, <2>9 DEF Seen, q
<1>6. CASE ~s.open
  <2> DEFINE c == [NoCase EXCEPT !.open = TRUE, !.prints = {n}, !.evidence[n] = 1]
  <2>1. case' = c
    BY <1>2, <1>6
  <2>2. /\ c \in Case /\ c.open /\ c.draft = NoDraft /\ c.letter = NoDraft
        /\ c.prints = {n} /\ c.status = "needs_review"
        /\ c.evidence = [NoCase.evidence EXCEPT ![n] = 1]
    <3>1. NoCase.evidence \in [Notice -> 0..2] /\ {n} \subseteq Notice
      BY <1>4, FreeFits DEF Case
    <3>2. [NoCase.evidence EXCEPT ![n] = 1] \in [Notice -> 0..2]
      BY <3>1
    <3>3. c = [NoCase EXCEPT !.open = TRUE, !.prints = {n},
                  !.evidence = [NoCase.evidence EXCEPT ![n] = 1]]
      BY FreeFits DEF Case
    <3> HIDE DEF c
    <3> QED  BY <3>1, <3>2, <3>3, FreeFits DEF Case, NoCase
  <2>3. NoCase.evidence \in [Notice -> 0..2]
    BY FreeFits DEF Case
  <2> HIDE DEF c
  <2>4. \A m \in Notice : c.evidence[m] <= 1 /\ (m \notin {n} => c.evidence[m] = 0)
    BY <1>4, <2>2, <2>3, FreeFits
  <2>5. CaseFits(c, parcel)
    BY <2>2, <2>4 DEF CaseFits
  <2> QED  BY <1>3, <1>6, <2>1, <2>2, <2>5 DEF Seen
<1> QED  BY <1>5, <1>6

LEMMA FileNoticeKeeps ==
  ASSUME DamageInv, NEW o \in Operator, FileNotice(o)
  PROVE  DamageInv'
<1>1. PICK n \in operator[o].todo :
            LET r == [operator[o] EXCEPT !.pc = "look", !.todo = @ \ {n}, !.seen = NoCase] IN
            /\ Works(o, r) /\ CaseFits(case', parcel) /\ case'.open
            /\ Seen(o).open => /\ case'.prints = Seen(o).prints \cup {n}
                               /\ case'.draft = case.draft /\ case'.status = case.status
                               /\ case'.sent = case.sent /\ case'.attempt = case.attempt
            /\ ~Seen(o).open => case'.draft = NoDraft /\ case'.status = "needs_review"
                                /\ case'.prints = {n}
  BY FiledCase
<1> DEFINE r == [operator[o] EXCEPT !.pc = "look", !.todo = @ \ {n}, !.seen = NoCase]
           s == operator[o].seen
<1>2. /\ operator[o] \in Duty /\ operator[o].pc = "file"
      /\ DutyFits(operator[o], parcel) /\ CaseFits(case, parcel)
      /\ CaseFits(s, parcel) /\ (s.open => case.open)
  BY OneOf DEF FileNotice, At, Unopened
<1>3. operator[o].op = "scan"
  BY <1>2 DEF DutyFits, Scanning
<1>4. /\ r \in Duty /\ r.op = "scan" /\ r.pc = "look" /\ r.seen = NoCase
      /\ r.todo = operator[o].todo \ {n}
  BY <1>2, <1>3, FreeFits DEF Duty, Scanning
<1>5. DutyFits(r, parcel)
  BY <1>4, FreeFits DEF DutyFits, Scanning, Mailing, Shipping
<1>6. /\ Works(o, r) /\ CaseFits(case', parcel) /\ case'.open
      /\ s.open => /\ case'.prints = s.prints \cup {n}
                   /\ case'.draft = case.draft /\ case'.status = case.status
                   /\ case'.sent = case.sent /\ case'.attempt = case.attempt
      /\ ~s.open => case'.draft = NoDraft /\ case'.status = "needs_review"
                    /\ case'.prints = {n}
  BY <1>1 DEF Seen
<1> HIDE DEF r
<1>7. /\ UNCHANGED <<parcel, mailed, moves, damageFaults, received, indexed, today, cursor>>
      /\ damageCauses \subseteq damageCauses' /\ damageCauses' \subseteq DamageCause
      /\ "opened_twice" \notin damageCauses'
            => case.open = s.open /\ case.prints = s.prints
  BY OneOf DEF FileNotice, Owing, Seen, mailboxVars, DeskFits, DamageCause
<1>8. ~s.open => s = NoCase /\ ~Unlabelled(r) /\ ~Sending(r)
  BY <1>2, <1>4 DEF CaseFits, Unlabelled, Sending
<1>9. ~case.open => /\ case = NoCase
                    /\ \A p \in Operator : ~operator[p].seen.open
                    /\ \A d \in Replacement : mailed[d] = 0
  BY <1>2, OneOf DEF CaseFits, Unopened
<1>10. ~case.open => \A p \in Operator : /\ operator[p].seen.draft = NoDraft
                                         /\ ~Unlabelled(operator[p])
                                         /\ ~Sending(operator[p])
  <2>1. ASSUME ~case.open, NEW p \in Operator
        PROVE  /\ operator[p].seen.draft = NoDraft
               /\ ~Unlabelled(operator[p]) /\ ~Sending(operator[p])
    <3>1. CaseFits(operator[p].seen, parcel) /\ DutyFits(operator[p], parcel)
          /\ ~operator[p].seen.open
      BY <1>9, <2>1, OneOf
    <3>2. operator[p].seen = NoCase
      BY <3>1 DEF CaseFits
    <3> QED  BY <3>1, <3>2, FreeFits DEF DutyFits, Unlabelled, Sending, Mailing, Shipping,
                                         Scanning
  <2> QED  BY <2>1
<1>11. DeskFits'
  <2>1. /\ DeskFits /\ Grows(parcel, parcel') /\ ParcelsFit(parcel')
        /\ MailFits(mailed', parcel') /\ DutyFits(r, parcel') /\ CaseFits(case', parcel')
        /\ moves' \in 0..MaxMoves /\ damageFaults' \in 0..MaxDamageFaults
    BY <1>5, <1>6, <1>7 DEF DamageInv, DeskFits, Grows
  <2> QED  BY <1>6, <1>7, <2>1, DeskStep
<1>12. MailboxFits'
  BY <1>7, OneOf DEF MailboxFits
<1>13. Unopened'
  BY <1>4, <1>6, OneOf, UnopenedStep
<1>14. DraftHolds'
  <2>1. CASE "opened_twice" \in damageCauses'
    BY <1>4, <1>6, <1>7, <2>1, OneOf, DraftStep
  <2>2. CASE "opened_twice" \notin damageCauses'
    <3>1. case.status \in Prepared_ => case.draft # NoDraft
      BY <1>7, <2>2, OneOf DEF DraftHolds, DespiteDamage
    <3>2. case.draft # NoDraft => s.open
      BY <1>7, <1>9, <2>2, FreeFits
    <3>3. "needs_review" \notin Prepared_
      BY DEF Prepared_
    <3> QED  BY <1>4, <1>6, <1>7, <3>1, <3>2, <3>3, OneOf, FreeFits, DraftStep
  <2> QED  BY <2>1, <2>2
<1>15. NoticesHold'
  <2>1. CASE "opened_twice" \in damageCauses'
    BY <1>4, <1>6, <1>7, <2>1, OneOf, NoticeStep
  <2>2. CASE "opened_twice" \notin damageCauses'
    <3>1. case.prints \subseteq case'.prints /\ n \in case'.prints
      BY <1>6, <1>7, <1>9, <2>2, FreeFits
    <3>2. \A m \in Notice : /\ received[m] < Since => m \in case.prints
                            /\ received[m] + 1 < today
                                 => m \in case.prints \cup operator[o].todo
      BY <1>3, <1>7, <2>2, OneOf DEF NoticesHold, DespiteDamage
    <3>3. Since' = Since
      BY <1>7 DEF Since
    <3>4. \A m \in Notice : /\ received[m] < Since' => m \in case'.prints
                            /\ received[m] + 1 < today => m \in case'.prints \cup r.todo
      BY <1>4, <3>1, <3>2, <3>3
    <3> QED  BY <1>4, <1>6, <1>7, <3>1, <3>4, OneOf, NoticeStep
  <2> QED  BY <2>1, <2>2
<1>16. ReplacementHolds'
  <2>1. ~Unlabelled(r) /\ r.seen.draft = NoDraft
    BY <1>4, FreeFits DEF Unlabelled
  <2>2. CASE s.open
    BY <1>4, <1>6, <1>7, <2>1, <2>2, SameParcels DEF CaseHeld
  <2>3. CASE "opened_twice" \in damageCauses'
    BY <1>4, <1>6, <1>7, <2>3, OneOf, ReplacementStep DEF DespiteDamage
  <2>4. CASE ~s.open /\ "opened_twice" \notin damageCauses'
    BY <1>4, <1>6, <1>7, <1>9, <2>4, FreeFits, SameParcels, <2>1 DEF CaseHeld
  <2> QED  BY <2>2, <2>3, <2>4
<1>17. LetterHolds'
  <2>1. ~Sending(r)
    BY <1>4 DEF Sending
  <2>2. CASE s.open
    BY <1>4, <1>6, <1>7, <2>1, <2>2, SameLetter DEF CanSend
  <2>3. CASE "opened_twice" \in damageCauses'
    BY <1>4, <1>6, <1>7, <2>3, OneOf, LetterStep DEF DespiteDamage
  <2>4. CASE ~s.open /\ "opened_twice" \notin damageCauses'
    <3>1. CanSend(case)
      BY <1>7, <1>9, <2>4 DEF CanSend, MaySend, NoCase
    <3> QED  BY <1>4, <1>6, <1>7, <2>1, <3>1, SameLetter
  <2> QED  BY <2>2, <2>3, <2>4
<1> QED  BY <1>11, <1>12, <1>13, <1>14, <1>15, <1>16, <1>17 DEF DamageInv

LEMMA EndScanKeeps ==
  ASSUME DamageInv, NEW o \in Operator, EndScan(o)
  PROVE  DamageInv'
<1>1. /\ operator[o].pc = "look" /\ operator[o].todo = {} /\ cursor' = today
      /\ Works(o, Free)
      /\ UNCHANGED <<case, parcel, mailed, received, indexed, today, moves,
                     damageFaults, damageCauses>>
  BY DEF EndScan, At, Free_, Works
<1>2. operator[o].op = "scan"
  BY <1>1, OneOf DEF DutyFits, Scanning
<1>3. /\ Free \in Duty /\ Free.seen \in CaseHeld(o) /\ Free.op = "none"
      /\ ~Unlabelled(Free) /\ ~Sending(Free) /\ DutyFits(Free, parcel)
  BY FreeFits DEF CaseHeld, Unlabelled, Sending
<1>4. /\ damageCauses \subseteq damageCauses' /\ case'.open = case.open
      /\ case'.draft = case.draft /\ case'.prints = case.prints
      /\ case'.status = case.status /\ parcel' = parcel /\ mailed' = mailed
      /\ CanSend(case') = CanSend(case)
  BY <1>1
<1>5. DeskFits'
  <2>1. /\ DeskFits /\ Grows(parcel, parcel') /\ ParcelsFit(parcel')
        /\ MailFits(mailed', parcel') /\ DutyFits(Free, parcel') /\ CaseFits(case', parcel')
        /\ moves' \in 0..MaxMoves /\ damageFaults' \in 0..MaxDamageFaults
        /\ damageCauses' \subseteq DamageCause
    BY <1>1, <1>3 DEF DamageInv, DeskFits, Grows
  <2> QED  BY <1>1, <2>1, DeskStep
<1>6. MailboxFits'
  BY <1>1, OneOf DEF MailboxFits
<1>7. NoticesHold'
  <2>1. ASSUME "opened_twice" \notin damageCauses, NEW n \in Notice, received[n] < Since'
        PROVE  n \in case'.prints
    <3>1. today \in Nat /\ received[n] \in Nat
      BY OneOf DEF MailboxFits, NotYet
    <3>2. received[n] + 1 < today
      BY <1>1, <2>1, <3>1 DEF Since
    <3> QED  BY <1>1, <1>2, <2>1, <3>2, OneOf DEF NoticesHold, DespiteDamage
  <2> QED  BY <1>1, <1>3, <1>4, <2>1, OneOf, NoticeStep
<1>8. Unopened'
  BY <1>1, <1>3, <1>4, SameOpen
<1>9. DraftHolds'
  BY <1>1, <1>3, <1>4, SameDraft
<1>10. ReplacementHolds'
  BY <1>1, <1>3, <1>4, SameParcels
<1>11. LetterHolds'
  BY <1>1, <1>3, <1>4, SameLetter
<1> QED  BY <1>5, <1>6, <1>7, <1>8, <1>9, <1>10, <1>11 DEF DamageInv
-----------------------------------------------------------------------------
(***************************************************************************)
(* A request that ends with a write to the case.                           *)
(***************************************************************************)
LEMMA RequestEnds ==
  ASSUME DamageInv, NEW o \in Operator, Free_(o), CaseFits(case', parcel),
         case'.open = case.open, case'.draft = case.draft, case'.prints = case.prints,
         CanSend(case') => CanSend(case),
         case'.status \in Prepared_ => \/ case.status \in Prepared_
                                       \/ operator[o].seen.draft # NoDraft,
         UNCHANGED <<parcel, mailed, mailboxVars, moves, damageCauses>>,
         damageFaults' \in 0..MaxDamageFaults
  PROVE  DamageInv'
<1>1. Calm(o, Free)
  BY FreeFits DEF Calm, CaseHeld, Free_, Works, Unlabelled, Sending
<1>2. DutyFits(Free, parcel) /\ moves' \in 0..MaxMoves
  BY FreeFits, OneOf DEF DeskFits
<1> QED  BY <1>1, <1>2, CalmStep

\* a case that keeps its drafts, its letter and its evidence
LEMMA CaseKeeps ==
  ASSUME CaseFits(case, parcel), case.open, NEW c \in Case,
         c.open = case.open, c.letter = case.letter,
         c.prints = case.prints, c.evidence = case.evidence
  PROVE  CaseFits(c, parcel)
BY DEF CaseFits

LEMMA StatusFact ==
  ASSUME CaseFits(case, parcel), case.open, NEW s \in CaseStatus, Save([status |-> s])
  PROVE  /\ CaseFits(case', parcel) /\ case'.open = case.open /\ case'.status = s
         /\ case'.draft = case.draft /\ case'.prints = case.prints
         /\ case'.sent = case.sent /\ case'.attempt = case.attempt
<1>1. case \in Case
  BY DEF CaseFits
<1>2. case' = [case EXCEPT !.status = s]
  BY <1>1, SaveFact
<1>3. /\ case' \in Case /\ case'.open = case.open /\ case'.letter = case.letter
      /\ case'.prints = case.prints /\ case'.evidence = case.evidence
      /\ case'.draft = case.draft /\ case'.status = s
      /\ case'.sent = case.sent /\ case'.attempt = case.attempt
  BY <1>1, <1>2 DEF Case
<1> QED  BY <1>3, CaseKeeps

\* who is past its reading has read a case, which is still there
LEMMA StillOpen ==
  ASSUME DamageInv, NEW o \in Operator, operator[o].pc \notin Scanning \cup {"idle"}
  PROVE  operator[o].seen.open /\ case.open
BY OneOf DEF DutyFits, Unopened

LEMMA DecidedKeeps ==
  ASSUME DamageInv, NEW o \in Operator, Decided(o)
  PROVE  DamageInv'
<1>1. operator[o].pc = "decide" /\ operator[o].op \in {"confirm", "ignore", "close"}
      /\ case.open /\ CaseFits(case, parcel)
  BY OneOf, StillOpen DEF Decided, At, DutyFits, Scanning
<1>2. \E s \in {"approved", "ignored", "closed"} : Save([status |-> s])
  BY <1>1 DEF Decided
<1>3. PICK s \in {"approved", "ignored", "closed"} : Save([status |-> s])
  BY <1>2
<1>4. s \in CaseStatus /\ s \notin Prepared_
  BY DEF CaseStatus, Prepared_
<1>5. /\ CaseFits(case', parcel) /\ case'.open = case.open /\ case'.status = s
      /\ case'.draft = case.draft /\ case'.prints = case.prints
      /\ case'.sent = case.sent /\ case'.attempt = case.attempt
  BY <1>1, <1>3, <1>4, StatusFact
<1>6. CanSend(case') => CanSend(case)
  BY <1>5 DEF CanSend
<1>7. /\ UNCHANGED <<parcel, mailed, mailboxVars, moves, damageCauses>>
      /\ damageFaults' \in 0..MaxDamageFaults /\ Free_(o)
  BY OneOf DEF Decided, DeskFits
<1> QED  BY <1>4, <1>5, <1>6, <1>7, RequestEnds

LEMMA RecordKeeps ==
  ASSUME DamageInv, NEW o \in Operator, Record(o)
  PROVE  DamageInv'
<1>1. operator[o].pc = "record" /\ operator[o].seen.draft # NoDraft
      /\ case.open /\ CaseFits(case, parcel)
  BY OneOf, StillOpen DEF Record, At, DutyFits, Scanning, Shipping
<1>2. PICK s \in {"replacement_created", "replacement_pending"} : Save([status |-> s])
  BY DEF Record
<1>3. s \in CaseStatus
  BY DEF CaseStatus
<1>4. /\ CaseFits(case', parcel) /\ case'.open = case.open
      /\ case'.draft = case.draft /\ case'.prints = case.prints
      /\ case'.sent = case.sent /\ case'.attempt = case.attempt
  BY <1>1, <1>2, <1>3, StatusFact
<1>5. CanSend(case') => CanSend(case)
  BY <1>4 DEF CanSend
<1>6. /\ UNCHANGED <<parcel, mailed, mailboxVars, moves, damageCauses>>
      /\ damageFaults' \in 0..MaxDamageFaults /\ Free_(o)
  BY OneOf DEF Record, DeskFits
<1> QED  BY <1>1, <1>4, <1>5, <1>6, RequestEnds

LEMMA SaveLetterKeeps ==
  ASSUME DamageInv, NEW o \in Operator, SaveLetter(o)
  PROVE  DamageInv'
<1> DEFINE d == operator[o].seen.draft
<1>1. /\ operator[o].pc = "letter" /\ d \in Draft /\ parcel[d].shipped > 0
      /\ case.open /\ CaseFits(case, parcel) /\ case \in Case
  BY OneOf, StillOpen DEF SaveLetter, At, DutyFits, Scanning
<1>2. Save([letter |-> d])
  BY DEF SaveLetter, Seen
<1> HIDE DEF d
<1>3. case' = [case EXCEPT !.letter = d]
  BY <1>1, <1>2, SaveFact
<1>4. /\ case' \in Case /\ case'.open = case.open /\ case'.letter = d
      /\ case'.prints = case.prints /\ case'.evidence = case.evidence
      /\ case'.draft = case.draft /\ case'.status = case.status
      /\ case'.sent = case.sent /\ case'.attempt = case.attempt
  BY <1>1, <1>3 DEF Case
<1>5. CaseFits(case', parcel)
  BY <1>1, <1>4 DEF CaseFits
<1>6. CanSend(case') => CanSend(case)
  BY <1>4 DEF CanSend
<1>7. /\ UNCHANGED <<parcel, mailed, mailboxVars, moves, damageCauses>>
      /\ damageFaults' \in 0..MaxDamageFaults /\ Free_(o)
  BY OneOf DEF SaveLetter, DeskFits
<1> QED  BY <1>4, <1>5, <1>6, <1>7, RequestEnds

LEMMA DropKeeps ==
  ASSUME DamageInv, NEW o \in Operator, Drop(o)
  PROVE  DamageInv'
<1>1. /\ UNCHANGED <<case, parcel, mailed, mailboxVars, moves, damageCauses>>
      /\ damageFaults' \in 0..MaxDamageFaults /\ Free_(o)
  BY OneOf DEF Drop, DamageFault, DeskFits
<1>2. CaseFits(case', parcel)
  BY <1>1, OneOf
<1> QED  BY <1>1, <1>2, RequestEnds

-----------------------------------------------------------------------------
(***************************************************************************)
(* The replacement: prepared as a new draft, then shipped by the executor, *)
(* or found shipped (workflow.py:183, :217).                               *)
(***************************************************************************)
\* a step that changes only the parcels and one request, which goes on
LEMMA ParcelStep ==
  ASSUME DamageInv, NEW o \in Operator, NEW r, Works(o, r),
         r.seen \in CaseHeld(o), r.op # "scan",
         DutyFits(r, parcel'), ParcelsFit(parcel'), Grows(parcel, parcel'),
         ~Sending(r), UNCHANGED <<case, mailed, mailboxVars, moves>>,
         damageCauses \subseteq damageCauses', damageCauses' \subseteq DamageCause,
         damageFaults' \in 0..MaxDamageFaults, ReplacementHolds'
  PROVE  DamageInv'
<1>1. r \in Duty
  BY DEF DutyFits
<1>2. DeskFits'
  <2>1. CaseFits(case', parcel')
    BY CaseGrows, OneOf
  <2>2. MailFits(mailed', parcel') /\ moves' \in 0..MaxMoves /\ DeskFits
    BY OneOf DEF DeskFits, MailFits, Grows
  <2> QED  BY <2>1, <2>2, DeskStep
<1>3. /\ case'.open = case.open /\ case'.draft = case.draft
      /\ case'.prints = case.prints /\ case'.status = case.status
      /\ CanSend(case') = CanSend(case) /\ mailed' = mailed
  OBVIOUS
<1>4. Unopened'
  BY <1>1, <1>3, SameOpen
<1>5. DraftHolds'
  BY <1>1, <1>3, SameDraft
<1>6. MailboxFits' /\ NoticesHold'
  BY <1>1, <1>3, SameNotices
<1>7. LetterHolds'
  BY <1>1, <1>3, SameLetter
<1> QED  BY <1>2, <1>4, <1>5, <1>6, <1>7 DEF DamageInv

\* what a step of one parcel, d, has to keep of the replacement
LEMMA OneParcel ==
  ASSUME DamageInv, NEW o \in Operator, NEW r \in Duty, Works(o, r),
         r.seen \in CaseHeld(o), UNCHANGED case,
         damageCauses \subseteq damageCauses', NEW d \in Replacement,
         \A e \in Replacement \ {d} : parcel'[e] = parcel[e],
         \/ DespiteDamage({"opened_twice", "prepared_twice", "reset"})'
         \/ ~DespiteDamage({"opened_twice", "prepared_twice", "reset"})
            => /\ \/ parcel'[d].shipped = parcel[d].shipped
                  \/ d = operator[o].seen.draft /\ parcel'[d].shipped <= 1
               /\ \A p \in Operator \ {o} :
                     Unlabelled(operator[p]) => operator[p].seen.draft # d
               /\ Unlabelled(r) => /\ r.seen.draft = d /\ parcel'[d].shipped = 0
                                   /\ parcel'[d].status = "executing"
  PROVE  ReplacementHolds'
<1>1. CASE DespiteDamage({"opened_twice", "prepared_twice", "reset"})'
  BY <1>1, OneOf, ReplacementStep
<1>2. CASE ~DespiteDamage({"opened_twice", "prepared_twice", "reset"})'
  <2>1. ~DespiteDamage({"opened_twice", "prepared_twice", "reset"})
    BY <1>2 DEF DespiteDamage
  <2>2. /\ \A p \in Operator : operator[p].seen.draft \in {NoDraft, case.draft}
        /\ \A e \in Replacement : /\ parcel[e].shipped <= 1
                                  /\ e # case.draft => parcel[e].shipped = 0
        /\ \A p \in Operator : Unlabelled(operator[p])
              => /\ parcel[operator[p].seen.draft].shipped = 0
                 /\ parcel[operator[p].seen.draft].status = "executing"
    BY <2>1, OneOf DEF ReplacementHolds
  <2>3. /\ \/ parcel'[d].shipped = parcel[d].shipped
           \/ d = operator[o].seen.draft /\ parcel'[d].shipped <= 1
        /\ \A p \in Operator \ {o} :
              Unlabelled(operator[p]) => operator[p].seen.draft # d
        /\ Unlabelled(r) => /\ r.seen.draft = d /\ parcel'[d].shipped = 0
                            /\ parcel'[d].status = "executing"
    BY <1>2, <2>1
  <2>4. \A p \in Operator : Unlabelled(operator[p]) => operator[p].seen.draft \in Replacement
    <3>1. ASSUME NEW p \in Operator, Unlabelled(operator[p])
          PROVE  operator[p].seen.draft \in Replacement
      BY <3>1, OneOf DEF DutyFits, Unlabelled, Shipping, Draft
    <3> QED  BY <3>1
  <2>5. d # NoDraft /\ r.seen.draft \in {NoDraft, case.draft}
    BY <2>2, FreeFits DEF Replacement, NoDraft, CaseHeld
  <2>6. \A e \in Replacement : /\ parcel'[e].shipped <= 1
                               /\ e # case'.draft => parcel'[e].shipped = 0
    <3>1. operator[o].seen.draft \in {NoDraft, case'.draft}
      BY <2>2
    <3>2. /\ parcel'[d].shipped <= 1
          /\ d # case'.draft => parcel'[d].shipped = 0
      BY <2>2, <2>3, <2>5, <3>1
    <3> QED  BY <2>2, <3>2
  <2>7. \A p \in Operator \ {o} : Unlabelled(operator[p])
             => /\ parcel'[operator[p].seen.draft].shipped = 0
                /\ parcel'[operator[p].seen.draft].status = "executing"
    BY <2>2, <2>3, <2>4
  <2>8. \A p \in Operator \ {o} : Unlabelled(operator[p]) => ~Unlabelled(r)
    <3>1. ASSUME NEW p \in Operator \ {o}, Unlabelled(operator[p]), Unlabelled(r)
          PROVE  FALSE
      BY <2>2, <2>3, <2>4, <2>5, <3>1 DEF Replacement, NoDraft
    <3> QED  BY <3>1
  <2> QED  BY <2>2, <2>3, <2>5, <2>6, <2>7, <2>8, OneOf, ReplacementStep
<1> QED  BY <1>1, <1>2
LEMMA CloneKeeps ==
  ASSUME DamageInv, NEW o \in Operator, Clone(o)
  PROVE  DamageInv'
<1>1. PICK d \in Replacement :
          /\ parcel[d].status = "none"
          /\ parcel' = [parcel EXCEPT ![d].status = "needs_review"]
          /\ operator' = [operator EXCEPT ![o].pc = "prepared", ![o].made = d]
  BY DEF Clone
<1> DEFINE r == [operator[o] EXCEPT !.pc = "prepared", !.made = d]
<1>2. /\ operator[o].pc = "clone" /\ operator[o] \in Duty
      /\ DutyFits(operator[o], parcel) /\ ParcelsFit(parcel)
      /\ operator \in [Operator -> Duty]
      /\ operator[o].seen.draft = NoDraft /\ operator[o].seen.open
  BY OneOf DEF Clone, At, DeskFits, DutyFits, Scanning
<1>3. Works(o, r)
  BY <1>1, <1>2 DEF Works
<1>4. /\ r \in Duty /\ r.pc = "prepared" /\ r.seen = operator[o].seen /\ r.made = d
      /\ r.op = operator[o].op /\ d # NoDraft
  <2>1. d \in Draft /\ d # NoDraft
    BY DEF Draft, NoDraft, Replacement
  <2> QED  BY <1>2, <2>1 DEF Duty
<1> HIDE DEF r
<1>5. /\ ParcelsFit(parcel') /\ Grows(parcel, parcel')
      /\ parcel'[d].shipped = parcel[d].shipped
      /\ \A e \in Replacement \ {d} : parcel'[e] = parcel[e]
  BY <1>1, <1>2 DEF ParcelsFit, Grows
<1>6. DutyFits(r, parcel) /\ r.op # "scan"
  BY <1>2, <1>4 DEF DutyFits, Scanning, Mailing, Shipping
<1>7. DutyFits(r, parcel')
  BY <1>5, <1>6, DutyGrows
<1>8. ~Sending(r) /\ ~Unlabelled(r)
  BY <1>4 DEF Sending, Unlabelled
<1>9. /\ UNCHANGED <<case, mailed, mailboxVars, moves, damageFaults, damageCauses>>
      /\ damageCauses' \subseteq DamageCause /\ damageFaults' \in 0..MaxDamageFaults
  BY OneOf DEF Clone, DeskFits
<1>10. ~DespiteDamage({"opened_twice", "prepared_twice", "reset"})
          => \A p \in Operator \ {o} :
                Unlabelled(operator[p]) => operator[p].seen.draft # d
  BY <1>1, OneOf DEF ReplacementHolds
<1>11. ReplacementHolds'
  BY <1>3, <1>4, <1>5, <1>8, <1>9, <1>10, OneParcel DEF CaseHeld
<1> QED  BY <1>3, <1>4, <1>5, <1>6, <1>7, <1>8, <1>9, <1>11, ParcelStep DEF CaseHeld

LEMMA PreparedKeeps ==
  ASSUME DamageInv, NEW o \in Operator, Prepared(o)
  PROVE  DamageInv'
<1> DEFINE d == operator[o].made
<1>1. /\ operator[o].pc = "prepared" /\ d \in Draft /\ d # NoDraft
      /\ operator[o].seen.draft = NoDraft
      /\ case.open /\ CaseFits(case, parcel) /\ case \in Case
  BY OneOf, StillOpen DEF Prepared, At, DutyFits, Scanning, Duty
<1>2. Save([status |-> "replacement_prepared", draft |-> d])
  BY DEF Prepared
<1>3. /\ UNCHANGED <<parcel, mailed, mailboxVars, moves, damageFaults>>
      /\ damageCauses \subseteq damageCauses' /\ damageCauses' \subseteq DamageCause
      /\ "prepared_twice" \notin damageCauses' => case.draft = NoDraft
      /\ Works(o, Free)
  BY <1>1, OneOf DEF Prepared, DeskFits, Owing, DamageCause, Seen, Works, Free_
<1> HIDE DEF d
<1>4. case' = [case EXCEPT !.status = "replacement_prepared", !.draft = d]
  BY <1>1, <1>2, SaveFact
<1>5. /\ case' \in Case /\ case'.open = case.open /\ case'.letter = case.letter
      /\ case'.prints = case.prints /\ case'.evidence = case.evidence
      /\ case'.draft = d /\ case'.sent = case.sent /\ case'.attempt = case.attempt
  BY <1>1, <1>4 DEF Case, CaseStatus
<1>6. CaseFits(case', parcel) /\ CanSend(case') = CanSend(case)
  BY <1>1, <1>5, CaseKeeps DEF CanSend
<1>7. /\ Free \in Duty /\ Free.seen \in CaseHeld(o) /\ Free.op = "none"
      /\ Free.seen.draft = NoDraft
      /\ ~Unlabelled(Free) /\ ~Sending(Free) /\ DutyFits(Free, parcel)
  BY FreeFits DEF CaseHeld, Unlabelled, Sending
<1>8. DeskFits'
  <2>1. /\ DeskFits /\ Grows(parcel, parcel') /\ ParcelsFit(parcel')
        /\ MailFits(mailed', parcel') /\ DutyFits(Free, parcel') /\ CaseFits(case', parcel')
        /\ moves' \in 0..MaxMoves /\ damageFaults' \in 0..MaxDamageFaults
    BY <1>3, <1>6, <1>7 DEF DamageInv, DeskFits, Grows
  <2> QED  BY <1>3, <2>1, DeskStep
<1>9. Unopened'
  BY <1>3, <1>5, <1>7, SameOpen
<1>10. DraftHolds'
  BY <1>1, <1>3, <1>5, <1>7, OneOf, DraftStep
<1>11. MailboxFits' /\ NoticesHold'
  BY <1>3, <1>5, <1>7, SameNotices
<1>12. ReplacementHolds'
  <2>1. CASE "prepared_twice" \in damageCauses'
    BY <1>3, <1>7, <2>1, OneOf, ReplacementStep DEF DespiteDamage
  <2>2. CASE "prepared_twice" \notin damageCauses'
    <3>1. case.draft = NoDraft
      BY <1>3, <2>2
    <3>2. ~DespiteDamage({"opened_twice", "prepared_twice", "reset"})
             => /\ \A p \in Operator : operator[p].seen.draft = NoDraft
                /\ \A e \in Replacement : parcel[e].shipped = 0
                /\ \A p \in Operator : ~Unlabelled(operator[p])
      <4>1. ASSUME ~DespiteDamage({"opened_twice", "prepared_twice", "reset"})
            PROVE  /\ \A p \in Operator : operator[p].seen.draft = NoDraft
                   /\ \A e \in Replacement : parcel[e].shipped = 0
        BY <3>1, <4>1, OneOf DEF ReplacementHolds, Replacement, NoDraft
      <4>2. ASSUME NEW p \in Operator, Unlabelled(operator[p])
            PROVE  operator[p].seen.draft # NoDraft
        BY <4>2, OneOf DEF Unlabelled, DutyFits, Shipping
      <4> QED  BY <4>1, <4>2
    <3> QED  BY <1>3, <1>7, <3>2, OneOf, ReplacementStep
  <2> QED  BY <2>1, <2>2
<1>13. LetterHolds'
  BY <1>3, <1>6, <1>7, SameLetter
<1> QED  BY <1>8, <1>9, <1>10, <1>11, <1>12, <1>13 DEF DamageInv

\* the parcel a request of the executor is about
LEMMA ItsParcel ==
  ASSUME DamageInv, NEW o \in Operator, operator[o].pc \in Shipping
  PROVE  /\ Seen(o).draft \in Replacement /\ operator[o].op \in Op \ {"scan"}
         /\ Seen(o).open /\ DutyFits(operator[o], parcel) /\ ParcelsFit(parcel)
         /\ operator[o] \in Duty /\ operator \in [Operator -> Duty]
<1>1. operator[o].op # "none" /\ operator[o].op # "scan"
  BY OneOf DEF DutyFits, Scanning, Shipping
<1>2. operator[o].seen.draft # NoDraft /\ operator[o].seen.open
  BY OneOf DEF DutyFits, Scanning, Shipping
<1>3. operator[o].op \in Op \cup {"none"}
  BY OneOf DEF Duty
<1> QED  BY <1>1, <1>2, <1>3, OneOf DEF Seen, Draft, DeskFits

LEMMA UnreviewKeeps ==
  ASSUME DamageInv, NEW o \in Operator, Unreview(o)
  PROVE  DamageInv'
<1> DEFINE d == Seen(o).draft
           r == [operator[o] EXCEPT !.pc = "claim"]
<1>1. operator[o].pc = "unreview" /\ operator[o].pc \in Shipping
  BY DEF Unreview, At, Shipping
<1>2. /\ d \in Replacement /\ operator[o].op \in Op \ {"scan"} /\ Seen(o).open
      /\ DutyFits(operator[o], parcel) /\ ParcelsFit(parcel)
      /\ operator[o] \in Duty /\ operator \in [Operator -> Duty]
  BY <1>1, ItsParcel
<1>3. /\ parcel' = [parcel EXCEPT ![d].status = "pending"] /\ Works(o, r)
      /\ UNCHANGED <<case, mailed, mailboxVars, moves, damageFaults>>
      /\ damageCauses \subseteq damageCauses' /\ damageCauses' \subseteq DamageCause
      /\ damageFaults' \in 0..MaxDamageFaults
      /\ "reset" \notin damageCauses' => parcel[d].status = "needs_review"
  BY <1>2, OneOf DEF Unreview, Works, Turn, Owing, DamageCause, DeskFits
<1>4. /\ r \in Duty /\ r.pc = "claim" /\ r.seen = operator[o].seen
      /\ r.op = operator[o].op
  BY <1>2 DEF Duty, Shipping
<1> HIDE DEF r
<1>5. d = operator[o].seen.draft
  BY DEF Seen
<1> HIDE DEF d
<1>6. /\ ParcelsFit(parcel') /\ Grows(parcel, parcel')
      /\ parcel'[d].shipped = parcel[d].shipped
      /\ \A e \in Replacement \ {d} : parcel'[e] = parcel[e]
  BY <1>2, <1>3 DEF ParcelsFit, Grows
<1>7. DutyFits(r, parcel) /\ r.op # "scan"
  BY <1>1, <1>2, <1>4 DEF DutyFits, Scanning, Mailing, Shipping, Op
<1>8. DutyFits(r, parcel')
  BY <1>6, <1>7, DutyGrows
<1>9. ~Sending(r) /\ ~Unlabelled(r)
  BY <1>4 DEF Sending, Unlabelled
<1>10. \/ "reset" \in damageCauses'
       \/ ~DespiteDamage({"opened_twice", "prepared_twice", "reset"})
          => \A p \in Operator \ {o} :
                Unlabelled(operator[p]) => operator[p].seen.draft # d
  BY <1>3, OneOf DEF ReplacementHolds
<1>11. ReplacementHolds'
  BY <1>2, <1>3, <1>4, <1>6, <1>9, <1>10, OneParcel DEF CaseHeld, DespiteDamage
<1> QED  BY <1>3, <1>4, <1>6, <1>7, <1>8, <1>9, <1>11, ParcelStep DEF CaseHeld

LEMMA ClaimParcelKeeps ==
  ASSUME DamageInv, NEW o \in Operator, ClaimParcel(o)
  PROVE  DamageInv'
<1> DEFINE d == Seen(o).draft
           s == IF parcel[d].shipped = 0 THEN "unlabelled" ELSE "labelled"
           r == [operator[o] EXCEPT !.pc = "ship", !.status = s]
<1>1. operator[o].pc = "claim" /\ operator[o].pc \in Shipping
  BY DEF ClaimParcel, At, Shipping
<1>2. /\ d \in Replacement /\ operator[o].op \in Op \ {"scan"} /\ Seen(o).open
      /\ DutyFits(operator[o], parcel) /\ ParcelsFit(parcel)
      /\ operator[o] \in Duty /\ operator \in [Operator -> Duty]
  BY <1>1, ItsParcel
<1>3. UNCHANGED <<case, mailed, mailboxVars, moves, damageFaults, damageCauses>>
      /\ damageFaults' \in 0..MaxDamageFaults /\ damageCauses' \subseteq DamageCause
  BY OneOf DEF ClaimParcel, DeskFits
<1>4. CASE Free_(o) /\ UNCHANGED parcel
  <2>1. CaseFits(case', parcel)
    BY <1>3, OneOf
  <2> QED  BY <1>3, <1>4, <2>1, RequestEnds
<1>5. ASSUME parcel[d].status \in {"pending", "error", "pending_confirmation"},
             parcel' = [parcel EXCEPT ![d].status = "executing"],
             operator' = [operator EXCEPT ![o].pc = "ship", ![o].status = s]
      PROVE  DamageInv'
  <2>1. Works(o, r)
    BY <1>2, <1>5 DEF Works
  <2>2. /\ r \in Duty /\ r.pc = "ship" /\ r.seen = operator[o].seen
        /\ r.op = operator[o].op /\ r.status = s
    BY <1>2 DEF Duty, Shipping
  <2> HIDE DEF r
  <2>3. d = operator[o].seen.draft /\ parcel[d].shipped \in 0..2
    BY <1>2 DEF Seen, ParcelsFit
  <2>4. s \in {"unlabelled", "labelled"} /\ (s = "unlabelled" <=> parcel[d].shipped = 0)
    OBVIOUS
  <2> HIDE DEF d, s
  <2>5. /\ ParcelsFit(parcel') /\ Grows(parcel, parcel')
        /\ parcel'[d].shipped = parcel[d].shipped /\ parcel'[d].status = "executing"
        /\ \A e \in Replacement \ {d} : parcel'[e] = parcel[e]
    BY <1>2, <1>5 DEF ParcelsFit, Grows
  <2>6. s = "labelled" => parcel[d].shipped > 0
    BY <2>3, <2>4
  <2>7. DutyFits(r, parcel) /\ r.op # "scan"
    BY <1>1, <1>2, <2>2, <2>3, <2>4, <2>6 DEF DutyFits, Scanning, Mailing, Shipping, Op
  <2>8. DutyFits(r, parcel')
    BY <2>5, <2>7, DutyGrows
  <2>9. ~Sending(r)
    BY <2>2 DEF Sending
  <2>10. ~DespiteDamage({"opened_twice", "prepared_twice", "reset"})
            => \A p \in Operator \ {o} :
                  Unlabelled(operator[p]) => operator[p].seen.draft # d
    BY <1>5, OneOf DEF ReplacementHolds
  <2>11. Unlabelled(r) => r.seen.draft = d /\ parcel'[d].shipped = 0
    BY <2>2, <2>3, <2>4, <2>5 DEF Unlabelled
  <2>12. ReplacementHolds'
    BY <1>2, <1>3, <2>1, <2>2, <2>5, <2>10, <2>11, OneParcel DEF CaseHeld
  <2> QED  BY <1>3, <2>1, <2>2, <2>5, <2>7, <2>8, <2>9, <2>12, ParcelStep DEF CaseHeld
<1> QED  BY <1>4, <1>5 DEF ClaimParcel
LEMMA ShipKeeps ==
  ASSUME DamageInv, NEW o \in Operator, Ship(o)
  PROVE  DamageInv'
<1> DEFINE d == Seen(o).draft
           more == IF operator[o].status = "unlabelled" THEN 1 ELSE 0
<1>1. operator[o].pc = "ship" /\ operator[o].pc \in Shipping
  BY DEF Ship, At, Shipping
<1>2. /\ d \in Replacement /\ operator[o].op \in Op \ {"scan"} /\ Seen(o).open
      /\ DutyFits(operator[o], parcel) /\ ParcelsFit(parcel)
      /\ operator[o] \in Duty /\ operator \in [Operator -> Duty]
  BY <1>1, ItsParcel
<1>3. /\ UNCHANGED <<case, mailed, mailboxVars, moves, damageCauses>>
      /\ damageCauses' \subseteq DamageCause
  BY OneOf DEF Ship, DeskFits
<1>4. /\ d = operator[o].seen.draft /\ parcel[d].shipped \in 0..2
      /\ operator[o].status \in {"unlabelled", "labelled"}
      /\ operator[o].status = "labelled" => parcel[d].shipped > 0
  BY <1>1, <1>2 DEF Seen, ParcelsFit, DutyFits
\* nobody else is about to ship this parcel for the first time
<1>5. ~DespiteDamage({"opened_twice", "prepared_twice", "reset"})
         => /\ \A p \in Operator \ {o} :
                  Unlabelled(operator[p]) => operator[p].seen.draft # d
            /\ parcel[d].shipped + more <= 1
  <2>1. ASSUME ~DespiteDamage({"opened_twice", "prepared_twice", "reset"})
        PROVE  /\ \A p \in Operator \ {o} :
                     Unlabelled(operator[p]) => operator[p].seen.draft # d
               /\ parcel[d].shipped + more <= 1
    <3>1. /\ \A p \in Operator : Unlabelled(operator[p])
                => parcel[operator[p].seen.draft].shipped = 0
          /\ \A p, q \in Operator :
                Unlabelled(operator[p]) /\ Unlabelled(operator[q]) => p = q
          /\ parcel[d].shipped <= 1
      BY <1>2, <2>1, OneOf DEF ReplacementHolds
    <3>2. CASE operator[o].status = "unlabelled"
      <4>1. Unlabelled(operator[o])
        BY <1>1, <3>2 DEF Unlabelled
      <4> QED  BY <1>4, <3>1, <3>2, <4>1
    <3>3. CASE operator[o].status = "labelled"
      BY <1>4, <3>1, <3>3
    <3> QED  BY <1>4, <3>2, <3>3
  <2> QED  BY <2>1
<1>6. more \in 0..1 /\ (more = 1 => operator[o].status = "unlabelled")
      /\ (operator[o].status = "unlabelled" => more = 1)
  OBVIOUS
<1> HIDE DEF d, more
<1>7. ASSUME NEW s \in {"created", "pending_confirmation"},
             parcel' = [parcel EXCEPT ![d].status = s,
                           ![d].shipped = IF @ < 2 THEN @ + more ELSE @],
             operator' = [operator EXCEPT ![o].pc = "record", ![o].status = s],
             UNCHANGED damageFaults
      PROVE  DamageInv'
  <2> DEFINE r == [operator[o] EXCEPT !.pc = "record", !.status = s]
  <2>1. Works(o, r)
    BY <1>2, <1>7 DEF Works
  <2>2. /\ r \in Duty /\ r.pc = "record" /\ r.seen = operator[o].seen
        /\ r.op = operator[o].op
    BY <1>2 DEF Duty, Shipping
  <2> HIDE DEF r
  <2>3. /\ parcel' \in [Replacement ->
                  [status : {"none", "needs_review", "pending", "executing",
                             "pending_confirmation", "created", "error"},
                   shipped : 0..2]]
        /\ parcel'[d].status = s
        /\ parcel'[d].shipped = IF parcel[d].shipped < 2 THEN parcel[d].shipped + more
                                                         ELSE parcel[d].shipped
        /\ \A e \in Replacement \ {d} : parcel'[e] = parcel[e]
    <3> DEFINE shipped == IF parcel[d].shipped < 2 THEN parcel[d].shipped + more
                          ELSE parcel[d].shipped
    <3>1. shipped \in 0..2
      BY <1>4, <1>6
    <3> DEFINE Parcel_ == [status : {"none", "needs_review", "pending", "executing",
                                     "pending_confirmation", "created", "error"},
                           shipped : 0..2]
               row == [parcel[d] EXCEPT !.status = s, !.shipped = shipped]
    <3>2. parcel \in [Replacement -> Parcel_] /\ parcel[d] \in Parcel_
      BY <1>2 DEF ParcelsFit
    <3>3. parcel' = [parcel EXCEPT ![d] = row]
      BY <1>7, <3>2
    <3> HIDE DEF shipped
    <3>4. row \in Parcel_ /\ row.status = s /\ row.shipped = shipped
      BY <3>1, <3>2
    <3> HIDE DEF row, Parcel_
    <3>5. /\ parcel' \in [Replacement -> Parcel_] /\ parcel'[d] = row
          /\ \A e \in Replacement \ {d} : parcel'[e] = parcel[e]
      BY <1>2, <3>2, <3>3, <3>4
    <3> QED  BY <3>4, <3>5 DEF Parcel_, shipped
  <2>4. parcel'[d].shipped > 0 /\ parcel'[d].shipped >= parcel[d].shipped
    BY <1>4, <1>6, <2>3
  <2>5. ParcelsFit(parcel') /\ Grows(parcel, parcel')
    BY <1>2, <2>3, <2>4 DEF ParcelsFit, Grows
  <2>6. DutyFits(r, parcel) /\ r.op # "scan"
    BY <1>1, <1>2, <2>2 DEF DutyFits, Scanning, Mailing, Shipping, Op
  <2>7. DutyFits(r, parcel')
    BY <2>5, <2>6, DutyGrows
  <2>8. ~Sending(r) /\ ~Unlabelled(r)
    BY <2>2 DEF Sending, Unlabelled
  <2>9. ~DespiteDamage({"opened_twice", "prepared_twice", "reset"})
           => d = operator[o].seen.draft /\ parcel'[d].shipped <= 1
    BY <1>4, <1>5, <1>6, <2>2, <2>3
  <2>10. ReplacementHolds'
    BY <1>2, <1>3, <1>5, <2>1, <2>2, <2>3, <2>8, <2>9, OneParcel DEF CaseHeld
  <2>11. damageFaults' \in 0..MaxDamageFaults
    BY <1>7, OneOf DEF DeskFits
  <2> QED  BY <1>3, <2>1, <2>2, <2>5, <2>6, <2>7, <2>8, <2>10, <2>11, ParcelStep DEF CaseHeld
<1>8. ASSUME DamageFault, Free_(o), parcel' = [parcel EXCEPT ![d].status = "error"]
      PROVE  DamageInv'
  <2>1. /\ Works(o, Free) /\ Free.seen \in CaseHeld(o) /\ Free.op # "scan"
        /\ Free \in Duty /\ ~Sending(Free) /\ ~Unlabelled(Free)
        /\ DutyFits(Free, parcel') /\ damageFaults' \in 0..MaxDamageFaults
    BY <1>8, OneOf, FreeFits
       DEF DamageFault, DeskFits, Free_, Works, CaseHeld, Sending, Unlabelled
  <2>2. /\ ParcelsFit(parcel') /\ Grows(parcel, parcel')
        /\ parcel'[d].shipped = parcel[d].shipped
        /\ \A e \in Replacement \ {d} : parcel'[e] = parcel[e]
    BY <1>2, <1>8 DEF ParcelsFit, Grows
  <2>3. ReplacementHolds'
    BY <1>2, <1>3, <1>5, <2>1, <2>2, OneParcel
  <2> QED  BY <1>3, <2>1, <2>2, <2>3, ParcelStep
<1> QED  BY <1>7, <1>8 DEF Ship, d, more

LEMMA ConfirmShippedKeeps ==
  ASSUME DamageInv, NEW o \in Operator, ConfirmShipped(o)
  PROVE  DamageInv'
<1> DEFINE d == Seen(o).draft
<1>1. operator[o].pc = "shipped" /\ operator[o].pc \in Shipping
  BY DEF ConfirmShipped, At, Shipping
<1>2. /\ d \in Replacement /\ operator[o].op \in Op \ {"scan"} /\ Seen(o).open
      /\ DutyFits(operator[o], parcel) /\ ParcelsFit(parcel)
      /\ operator[o] \in Duty /\ operator \in [Operator -> Duty]
  BY <1>1, ItsParcel
<1>3. /\ UNCHANGED <<case, mailed, mailboxVars, moves, damageFaults, damageCauses>>
      /\ damageCauses' \subseteq DamageCause /\ damageFaults' \in 0..MaxDamageFaults
  BY OneOf DEF ConfirmShipped, DeskFits
<1>4. d = operator[o].seen.draft /\ parcel[d].shipped > 0
  BY <1>1, <1>2 DEF Seen, DutyFits
<1>5. PICK s \in {"created", "pending_confirmation"} :
          /\ parcel' = [parcel EXCEPT ![d].status = s]
          /\ operator' = [operator EXCEPT ![o].pc = "record", ![o].status = s]
  BY DEF ConfirmShipped
<1> HIDE DEF d
<1> DEFINE r == [operator[o] EXCEPT !.pc = "record", !.status = s]
<1>6. Works(o, r)
  BY <1>2, <1>5 DEF Works
<1>7. /\ r \in Duty /\ r.pc = "record" /\ r.seen = operator[o].seen
      /\ r.op = operator[o].op
  BY <1>2 DEF Duty, Shipping
<1> HIDE DEF r
<1>8. /\ ParcelsFit(parcel') /\ Grows(parcel, parcel')
      /\ parcel'[d].shipped = parcel[d].shipped
      /\ \A e \in Replacement \ {d} : parcel'[e] = parcel[e]
  BY <1>2, <1>4, <1>5 DEF ParcelsFit, Grows
<1>9. DutyFits(r, parcel) /\ r.op # "scan"
  BY <1>1, <1>2, <1>7 DEF DutyFits, Scanning, Mailing, Shipping, Op
<1>10. DutyFits(r, parcel')
  BY <1>8, <1>9, DutyGrows
<1>11. ~Sending(r) /\ ~Unlabelled(r)
  BY <1>7 DEF Sending, Unlabelled
<1>12. ~DespiteDamage({"opened_twice", "prepared_twice", "reset"})
          => \A p \in Operator \ {o} :
                Unlabelled(operator[p]) => operator[p].seen.draft # d
  BY <1>4, OneOf DEF ReplacementHolds
<1>13. ReplacementHolds'
  BY <1>2, <1>3, <1>6, <1>7, <1>8, <1>11, <1>12, OneParcel DEF CaseHeld
<1> QED  BY <1>3, <1>6, <1>7, <1>8, <1>9, <1>10, <1>11, <1>13, ParcelStep DEF CaseHeld
-----------------------------------------------------------------------------
(***************************************************************************)
(* The mail to the customer: claimed, handed over, and what came of it     *)
(* written down, or found out (workflow.py:320-375).                       *)
(***************************************************************************)
LEMMA AttemptFact ==
  ASSUME CaseFits(case, parcel), case.open, NEW a \in Attempt, NEW s \in BOOLEAN,
         NEW t \in CaseStatus,
         case' = [case EXCEPT !.attempt = a, !.sent = s, !.status = t]
  PROVE  /\ CaseFits(case', parcel) /\ case'.open = case.open /\ case'.draft = case.draft
         /\ case'.prints = case.prints /\ case'.attempt = a /\ case'.sent = s
         /\ case'.status = t
<1>1. case \in Case
  BY DEF CaseFits
<1>2. /\ case' \in Case /\ case'.open = case.open /\ case'.letter = case.letter
      /\ case'.prints = case.prints /\ case'.evidence = case.evidence
      /\ case'.draft = case.draft /\ case'.attempt = a /\ case'.sent = s
      /\ case'.status = t
  BY <1>1 DEF Case
<1> QED  BY <1>2, CaseKeeps

\* an attempt alone
LEMMA OnlyAttempt ==
  ASSUME CaseFits(case, parcel), case.open, NEW a \in Attempt, Save([attempt |-> a])
  PROVE  /\ CaseFits(case', parcel) /\ case'.open = case.open /\ case'.draft = case.draft
         /\ case'.prints = case.prints /\ case'.attempt = a /\ case'.sent = case.sent
         /\ case'.status = case.status
<1>1. case \in Case /\ case.sent \in BOOLEAN /\ case.status \in CaseStatus
  BY DEF CaseFits, Case
<1>2. case' = [case EXCEPT !.attempt = a]
  BY <1>1, SaveFact
<1>3. case' = [case EXCEPT !.attempt = a, !.sent = case.sent, !.status = case.status]
  BY <1>1, <1>2 DEF Case
<1> QED  BY <1>1, <1>3, AttemptFact

\* an attempt that is settled: the customer was told
LEMMA OnlySettled ==
  ASSUME CaseFits(case, parcel), case.open
  PROVE  Save([attempt |-> "confirmed", sent |-> TRUE, status |-> "customer_notified"])
            => /\ CaseFits(case', parcel) /\ case'.open = case.open
               /\ case'.draft = case.draft /\ case'.prints = case.prints
               /\ case'.sent /\ case'.status = "customer_notified"
<1>1. case \in Case
  BY DEF CaseFits
<1>2. Save([attempt |-> "confirmed", sent |-> TRUE, status |-> "customer_notified"])
         => case' = [case EXCEPT !.attempt = "confirmed", !.sent = TRUE,
                                 !.status = "customer_notified"]
  BY <1>1 DEF Save, Case
<1>3. case' = [case EXCEPT !.attempt = "confirmed", !.sent = TRUE,
                           !.status = "customer_notified"]
         => /\ case' \in Case /\ case'.open = case.open /\ case'.letter = case.letter
            /\ case'.prints = case.prints /\ case'.evidence = case.evidence
            /\ case'.draft = case.draft /\ case'.sent
            /\ case'.status = "customer_notified"
  BY <1>1 DEF Case, Attempt, CaseStatus
<1> QED  BY <1>2, <1>3, CaseKeeps

\* a step that changes only the letter's attempt, the mails and one request
LEMMA MailStep ==
  ASSUME DamageInv, NEW o \in Operator, NEW r, Works(o, r), r.seen \in CaseHeld(o),
         r.op # "scan", ~Unlabelled(r), DutyFits(r, parcel), CaseFits(case', parcel),
         case.open, case'.open = case.open, case'.draft = case.draft,
         case'.prints = case.prints,
         case'.status \in Prepared_ => case.status \in Prepared_,
         MailFits(mailed', parcel), damageFaults' \in 0..MaxDamageFaults,
         UNCHANGED <<parcel, mailboxVars, moves>>,
         damageCauses \subseteq damageCauses', damageCauses' \subseteq DamageCause,
         LetterHolds'
  PROVE  DamageInv'
<1>1. r \in Duty
  BY DEF DutyFits
<1>2. DeskFits'
  <2>1. /\ DeskFits /\ Grows(parcel, parcel') /\ ParcelsFit(parcel')
        /\ MailFits(mailed', parcel') /\ DutyFits(r, parcel') /\ CaseFits(case', parcel')
        /\ moves' \in 0..MaxMoves
    BY DEF DamageInv, DeskFits, Grows
  <2> QED  BY <2>1, DeskStep
<1>3. Unopened'
  BY <1>1, OneOf, UnopenedStep
<1>4. DraftHolds'
  BY <1>1, SameDraft
<1>5. MailboxFits' /\ NoticesHold'
  BY <1>1, SameNotices
<1>6. ReplacementHolds'
  BY <1>1, SameParcels
<1> QED  BY <1>2, <1>3, <1>4, <1>5, <1>6 DEF DamageInv

\* what the invariant says of the mails while nothing excuses a second one
LEMMA MailsOf ==
  ASSUME DamageInv, ~DespiteDamage({"misjudged", "settled_early", "opened_twice"})
  PROVE  /\ Mails \in 0..1
         /\ \A o \in Operator : Sending(operator[o]) => Mails = 0 /\ ~CanSend(case)
         /\ \A o, p \in Operator : Sending(operator[o]) /\ Sending(operator[p]) => o = p
         /\ CanSend(case) => Mails = 0
<1>1. Mails \in Nat
  BY DEF DamageInv, DeskFits, MailFits, Mails, Replacement
<1> QED  BY <1>1 DEF DamageInv, LetterHolds

LEMMA ClaimMailKeeps ==
  ASSUME DamageInv, NEW o \in Operator, ClaimMail(o)
  PROVE  DamageInv'
<1>1. /\ operator[o].pc = "claim_mail" /\ operator[o] \in Duty /\ case.open
      /\ DutyFits(operator[o], parcel) /\ CaseFits(case, parcel)
      /\ operator \in [Operator -> Duty]
  BY OneOf, StillOpen DEF ClaimMail, At, Scanning, DeskFits
<1>2. UNCHANGED <<parcel, mailed, mailboxVars, moves, damageFaults, damageCauses>>
      /\ damageCauses' \subseteq DamageCause /\ damageFaults' \in 0..MaxDamageFaults
      /\ MailFits(mailed', parcel)
  BY OneOf DEF ClaimMail, DeskFits
<1>3. CASE Free_(o) /\ UNCHANGED case
  BY <1>1, <1>2, <1>3, RequestEnds
<1>4. CASE ~case.sent /\ MaySend(case.attempt) /\ Save([attempt |-> "pending"])
           /\ Turn(o, "smtp")
  <2> DEFINE r == [operator[o] EXCEPT !.pc = "smtp"]
  <2>1. Works(o, r)
    BY <1>1, <1>4 DEF Works, Turn
  <2>2. /\ r \in Duty /\ r.pc = "smtp" /\ r.seen = operator[o].seen
        /\ r.op = operator[o].op
    BY <1>1 DEF Duty, Mailing
  <2> HIDE DEF r
  <2>3. DutyFits(r, parcel) /\ r.op # "scan" /\ ~Unlabelled(r)
    BY <1>1, <2>2 DEF DutyFits, Scanning, Mailing, Shipping, Unlabelled
  <2>4. "pending" \in Attempt
    BY DEF Attempt
  <2>5. /\ CaseFits(case', parcel) /\ case'.open = case.open /\ case'.draft = case.draft
        /\ case'.prints = case.prints /\ case'.attempt = "pending"
        /\ case'.status = case.status
    BY <1>1, <1>4, <2>4, OnlyAttempt
  <2>6. CanSend(case) /\ ~CanSend(case')
    BY <1>4, <2>5 DEF CanSend, MaySend
  <2>7. Mails' = Mails
    BY <1>2 DEF Mails
  <2>8. ~DespiteDamage({"misjudged", "settled_early", "opened_twice"})
            => /\ Mails' = 0
               /\ \A p \in Operator \ {o} : ~Sending(operator[p])
    BY <2>6, <2>7, MailsOf
  <2>9. LetterHolds'
    BY <1>2, <2>1, <2>2, <2>6, <2>8, OneOf, LetterStep
  <2> QED  BY <1>1, <1>2, <2>1, <2>2, <2>3, <2>5, <2>9, MailStep DEF CaseHeld
<1> QED  BY <1>3, <1>4 DEF ClaimMail

LEMMA SmtpKeeps ==
  ASSUME DamageInv, NEW o \in Operator, Smtp(o)
  PROVE  DamageInv'
<1> DEFINE l == Seen(o).letter
           counted == [mailed EXCEPT ![l] = IF @ < 2 THEN @ + 1 ELSE @]
<1>1. /\ operator[o].pc = "smtp" /\ operator[o] \in Duty /\ case.open
      /\ DutyFits(operator[o], parcel) /\ CaseFits(case, parcel)
      /\ operator \in [Operator -> Duty] /\ MailFits(mailed, parcel)
  BY OneOf, StillOpen DEF Smtp, At, Scanning, DeskFits
<1>2. l \in Replacement /\ parcel[l].shipped > 0
  BY <1>1, OneOf DEF DutyFits, CaseFits, Mailing, Draft, Seen
<1>3. /\ UNCHANGED <<case, parcel, mailboxVars, moves, damageCauses>>
      /\ damageCauses' \subseteq DamageCause /\ damageFaults' \in 0..MaxDamageFaults
  BY OneOf DEF Smtp, DamageFault, DeskFits
<1>4. MailFits(counted, parcel)
      /\ (Mails = 0 => counted[1] + counted[2] = 1)
  <2>1. mailed \in [Replacement -> 0..2]
    BY <1>1 DEF MailFits
  <2>2. counted \in [Replacement -> 0..2]
    BY <1>2, <2>1
  <2>3. \A d \in Replacement : counted[d] > 0 => parcel[d].shipped > 0
    BY <1>1, <1>2, <2>1 DEF MailFits
  <2>4. Mails = 0 => counted[1] + counted[2] = 1
    <3>1. l \in {1, 2} /\ mailed[1] \in Nat /\ mailed[2] \in Nat
      BY <1>2, <2>1 DEF Replacement
    <3>2. mailed = [d \in {1, 2} |-> mailed[d]]
      BY <2>1 DEF Replacement
    <3> QED  BY <3>1, <3>2 DEF Mails
  <2> QED  BY <2>2, <2>3, <2>4 DEF MailFits
<1>5. PICK pc \in {"accepted", "refused", "unanswered"} :
          /\ Turn(o, pc) /\ mailed' \in {mailed, counted}
          /\ pc = "refused" => mailed' = mailed
  BY DEF Smtp
<1> HIDE DEF counted, l
<1> DEFINE r == [operator[o] EXCEPT !.pc = pc]
<1>6. Works(o, r)
  BY <1>1, <1>5 DEF Works, Turn
<1>7. /\ r \in Duty /\ r.pc = pc /\ r.seen = operator[o].seen
      /\ r.op = operator[o].op
  BY <1>1 DEF Duty, Mailing
<1> HIDE DEF r
<1>8. DutyFits(r, parcel) /\ r.op # "scan" /\ ~Unlabelled(r)
  BY <1>1, <1>7 DEF DutyFits, Scanning, Mailing, Shipping, Unlabelled
<1>9. MailFits(mailed', parcel)
  BY <1>1, <1>4, <1>5
<1>10. Sending(operator[o]) /\ (Sending(r) <=> pc = "refused")
  BY <1>1, <1>5, <1>7 DEF Sending
<1>11. ~DespiteDamage({"misjudged", "settled_early", "opened_twice"})
          => /\ Mails' <= 1 /\ (Sending(r) => Mails' = 0) /\ ~CanSend(case)
             /\ \A p \in Operator \ {o} : ~Sending(operator[p])
  <2>1. ASSUME ~DespiteDamage({"misjudged", "settled_early", "opened_twice"})
        PROVE  /\ Mails' <= 1 /\ (Sending(r) => Mails' = 0) /\ ~CanSend(case)
               /\ \A p \in Operator \ {o} : ~Sending(operator[p])
    <3>1. Mails = 0 /\ ~CanSend(case) /\ \A p \in Operator \ {o} : ~Sending(operator[p])
      BY <1>10, <2>1, MailsOf
    <3>2. mailed' = mailed => Mails' = 0
      BY <3>1 DEF Mails
    <3>3. mailed' = counted => Mails' = 1
      BY <1>4, <3>1 DEF Mails
    <3> QED  BY <1>5, <1>10, <3>1, <3>2, <3>3
  <2> QED  BY <2>1
<1>12. LetterHolds'
  BY <1>3, <1>6, <1>7, <1>11, OneOf, LetterStep
<1> QED  BY <1>1, <1>3, <1>6, <1>7, <1>8, <1>9, <1>12, MailStep DEF CaseHeld

LEMMA SettleKeeps ==
  ASSUME DamageInv, NEW o \in Operator, Settle(o)
  PROVE  DamageInv'
<1>1. /\ operator[o].pc \in {"accepted", "refused", "unanswered"} /\ case.open
      /\ CaseFits(case, parcel) /\ Free_(o)
      /\ UNCHANGED <<parcel, mailed, mailboxVars, moves, damageFaults, damageCauses>>
      /\ damageCauses' \subseteq DamageCause /\ damageFaults' \in 0..MaxDamageFaults
      /\ MailFits(mailed', parcel)
  BY OneOf, StillOpen DEF Settle, At, Scanning, DeskFits
<1>2. CASE operator[o].pc = "accepted"
  <2>1. Save([status |-> "customer_notified", sent |-> TRUE, attempt |-> "confirmed"])
    BY <1>2 DEF Settle, At
  <2>2. Save([attempt |-> "confirmed", sent |-> TRUE, status |-> "customer_notified"])
    BY <2>1 DEF Save
  <2>3. /\ CaseFits(case', parcel) /\ case'.open = case.open /\ case'.draft = case.draft
        /\ case'.prints = case.prints /\ case'.sent
        /\ case'.status = "customer_notified"
    BY <1>1, <2>2, OnlySettled
  <2>4. ~CanSend(case') /\ case'.status \notin Prepared_
    BY <2>3 DEF CanSend, Prepared_
  <2> QED  BY <1>1, <2>3, <2>4, RequestEnds
<1>3. CASE operator[o].pc = "unanswered"
  <2>1. Save([attempt |-> "pending"]) /\ "pending" \in Attempt
    BY <1>3 DEF Settle, At, Attempt
  <2>2. /\ CaseFits(case', parcel) /\ case'.open = case.open /\ case'.draft = case.draft
        /\ case'.prints = case.prints /\ case'.attempt = "pending"
        /\ case'.status = case.status
    BY <1>1, <2>1, OnlyAttempt
  <2>3. ~CanSend(case')
    BY <2>2 DEF CanSend, MaySend
  <2> QED  BY <1>1, <2>2, <2>3, RequestEnds
<1>4. CASE operator[o].pc = "refused"
  <2>1. Save([attempt |-> "failed"]) /\ "failed" \in Attempt
    BY <1>4 DEF Settle, At, Attempt
  <2>2. /\ CaseFits(case', parcel) /\ case'.open = case.open /\ case'.draft = case.draft
        /\ case'.prints = case.prints /\ case'.status = case.status
    BY <1>1, <2>1, OnlyAttempt
  <2>3. Works(o, Free) /\ Free.seen \in CaseHeld(o) /\ Free.op # "scan" /\ Free \in Duty
        /\ ~Unlabelled(Free) /\ ~Sending(Free) /\ DutyFits(Free, parcel)
    BY <1>1, FreeFits DEF Free_, Works, CaseHeld, Unlabelled, Sending
  <2>4. Sending(operator[o]) /\ Mails' = Mails
    BY <1>1, <1>4 DEF Sending, Mails
  <2>5. ~DespiteDamage({"misjudged", "settled_early", "opened_twice"})
           => Mails' = 0 /\ \A p \in Operator \ {o} : ~Sending(operator[p])
    BY <2>4, MailsOf
  <2>6. LetterHolds'
    BY <1>1, <2>3, <2>5, OneOf, LetterStep
  <2> QED  BY <1>1, <2>2, <2>3, <2>6, MailStep
<1> QED  BY <1>1, <1>2, <1>3, <1>4

LEMMA ResolvedKeeps ==
  ASSUME DamageInv, NEW o \in Operator, Resolved(o)
  PROVE  DamageInv'
<1>1. /\ operator[o].pc = "resolved" /\ case.open /\ CaseFits(case, parcel) /\ Free_(o)
      /\ UNCHANGED <<parcel, mailed, mailboxVars, moves, damageFaults>>
      /\ damageFaults' \in 0..MaxDamageFaults /\ MailFits(mailed', parcel)
  BY OneOf, StillOpen DEF Resolved, At, Scanning, DeskFits
<1>2. CASE operator[o].status = "delivered"
  <2>1. Save([attempt |-> "confirmed", sent |-> TRUE, status |-> "customer_notified"])
    BY <1>2 DEF Resolved
  <2>2. damageCauses' = damageCauses
    BY <1>2 DEF Resolved, Owing
  <2>3. /\ CaseFits(case', parcel) /\ case'.open = case.open /\ case'.draft = case.draft
        /\ case'.prints = case.prints /\ case'.sent
        /\ case'.status = "customer_notified"
    BY <1>1, <2>1, OnlySettled
  <2>4. ~CanSend(case') /\ case'.status \notin Prepared_
    BY <2>3 DEF CanSend, Prepared_
  <2> QED  BY <1>1, <2>2, <2>3, <2>4, RequestEnds
<1>3. CASE operator[o].status # "delivered"
  <2>1. Save([attempt |-> "failed"]) /\ "failed" \in Attempt
    BY <1>3 DEF Resolved, Attempt
  <2>2. /\ CaseFits(case', parcel) /\ case'.open = case.open /\ case'.draft = case.draft
        /\ case'.prints = case.prints /\ case'.status = case.status
    BY <1>1, <2>1, OnlyAttempt
  <2>3. Works(o, Free) /\ Free.seen \in CaseHeld(o) /\ Free.op # "scan" /\ Free \in Duty
        /\ ~Unlabelled(Free) /\ ~Sending(Free) /\ DutyFits(Free, parcel)
    BY <1>1, FreeFits DEF Free_, Works, CaseHeld, Unlabelled, Sending
  <2>4. /\ damageCauses \subseteq damageCauses' /\ damageCauses' \subseteq DamageCause
        /\ "misjudged" \notin damageCauses'
              => /\ ~\E d \in Replacement : mailed[d] > 0
                 /\ ~\E p \in Operator : At(p, "smtp")
        /\ "settled_early" \notin damageCauses' => ~\E p \in Operator : At(p, "refused")
    BY <1>3, OneOf DEF Resolved, Owing, DeskFits, DamageCause
  <2>5. \/ DespiteDamage({"misjudged", "settled_early", "opened_twice"})'
        \/ Mails' = 0 /\ \A p \in Operator \ {o} : ~Sending(operator[p])
    <3>1. ASSUME "misjudged" \notin damageCauses', "settled_early" \notin damageCauses'
          PROVE  Mails' = 0 /\ \A p \in Operator \ {o} : ~Sending(operator[p])
      <4>1. mailed \in [Replacement -> 0..2] /\ 1 \in Replacement /\ 2 \in Replacement
        BY OneOf DEF DeskFits, MailFits, Replacement
      <4>2. Mails' = 0
        BY <1>1, <2>4, <3>1, <4>1 DEF Mails
      <4> QED  BY <2>4, <3>1, <4>2 DEF Sending, At
    <3> QED  BY <3>1 DEF DespiteDamage
  <2>6. LetterHolds'
    BY <2>3, <2>4, <2>5, OneOf, LetterStep
  <2> QED  BY <1>1, <2>2, <2>3, <2>4, <2>6, MailStep
<1> QED  BY <1>2, <1>3

LEMMA AgeKeeps ==
  ASSUME DamageInv, AgeAttempt
  PROVE  DamageInv'
<1>1. /\ UNCHANGED <<parcel, mailed, mailboxVars, operator, moves, damageFaults,
                     damageCauses>>
      /\ case.attempt = "pending" /\ Save([attempt |-> "unknown"])
      /\ CaseFits(case, parcel) /\ case \in Case /\ "unknown" \in Attempt
  BY DEF AgeAttempt, DamageInv, DeskFits, CaseFits, Attempt
<1>2. case.open
  BY <1>1 DEF CaseFits, NoCase
<1>3. /\ CaseFits(case', parcel) /\ case'.open = case.open /\ case'.draft = case.draft
      /\ case'.prints = case.prints /\ case'.attempt = "unknown"
      /\ case'.status = case.status
  BY <1>1, <1>2, OnlyAttempt
<1>4. UNCHANGED <<received, indexed, today, cursor>>
  BY <1>1 DEF mailboxVars
<1>5. DeskFits' /\ MailboxFits' /\ Unopened'
  BY <1>1, <1>3, <1>4 DEF DamageInv, DeskFits, MailboxFits, Unopened
<1>6. DraftHolds' /\ NoticesHold'
  BY <1>1, <1>3, <1>4 DEF DamageInv, DraftHolds, NoticesHold, DespiteDamage, Since
<1>7. ReplacementHolds'
  BY <1>1, <1>3 DEF DamageInv, ReplacementHolds, DespiteDamage
<1>8. LetterHolds'
  <2>1. ~CanSend(case')
    BY <1>3 DEF CanSend, MaySend
  <2> QED  BY <1>1, <2>1 DEF DamageInv, LetterHolds, DespiteDamage, Mails
<1> QED  BY <1>5, <1>6, <1>7, <1>8 DEF DamageInv

-----------------------------------------------------------------------------
(***************************************************************************)
(* The invariant, and what follows from it.                                *)
(***************************************************************************)
LEMMA StepKeeps ==
  ASSUME DamageInv, DamageNext
  PROVE  DamageInv'
<1>1. ASSUME NEW o \in Operator,
             \/ Scan(o) \/ LookUp(o) \/ FileNotice(o) \/ EndScan(o)
             \/ Begins(o) \/ Decided(o) \/ Clone(o) \/ Prepared(o)
      PROVE  DamageInv'
  BY <1>1, ScanKeeps, LookUpKeeps, FileNoticeKeeps, EndScanKeeps, BeginsKeep,
     DecidedKeeps, CloneKeeps, PreparedKeeps
<1>2. ASSUME NEW o \in Operator,
             \/ Unreview(o) \/ ClaimParcel(o) \/ Ship(o) \/ ConfirmShipped(o)
             \/ Record(o) \/ SaveLetter(o) \/ ClaimMail(o) \/ Smtp(o) \/ Settle(o)
             \/ Resolved(o) \/ Drop(o)
      PROVE  DamageInv'
  BY <1>2, UnreviewKeeps, ClaimParcelKeeps, ShipKeeps, ConfirmShippedKeeps,
     RecordKeeps, SaveLetterKeeps, ClaimMailKeeps, SmtpKeeps, SettleKeeps,
     ResolvedKeeps, DropKeeps
<1> QED  BY <1>1, <1>2, MailboxKeeps, AgeKeeps DEF DamageNext, Begins

LEMMA DamageInitHolds == DamageInit => DamageInv
<1> SUFFICES ASSUME DamageInit
             PROVE  DamageInv
  OBVIOUS
<1>1. /\ case = NoCase /\ damageCauses = {} /\ today = 0 /\ cursor = 0 /\ indexed = {}
      /\ operator \in [Operator -> Duty] /\ \A o \in Operator : operator[o] = Free
      /\ moves = 0 /\ damageFaults = 0
      /\ mailed \in [Replacement -> 0..2] /\ \A d \in Replacement : mailed[d] = 0
      /\ \A n \in Notice : received[n] = NotYet
  BY FreeFits DEF DamageInit
<1>2. ParcelsFit(parcel) /\ \A d \in Replacement : parcel[d].shipped = 0
  BY DEF DamageInit, ParcelsFit
<1>3. DeskFits
  BY <1>1, <1>2, FreeFits DEF DeskFits, MailFits
<1>4. MailboxFits
  BY DEF DamageInit, MailboxFits, NotYet
<1>5. Unopened
  BY <1>1, FreeFits DEF Unopened
<1>6. DraftHolds
  BY <1>1, FreeFits DEF DraftHolds, NoCase, Prepared_
<1>7. NoticesHold
  BY <1>1 DEF NoticesHold, Since, NotYet
<1>8. ReplacementHolds
  BY <1>1, <1>2, FreeFits DEF ReplacementHolds, Unlabelled
<1>9. LetterHolds
  <2>1. Mails = 0
    BY <1>1 DEF Mails, Replacement
  <2> QED  BY <1>1, <2>1, FreeFits DEF LetterHolds, Sending
<1> QED  BY <1>3, <1>4, <1>5, <1>6, <1>7, <1>8, <1>9 DEF DamageInv

LEMMA DamageInvariant == DamageSpec => []DamageInv
<1>1. DamageInv /\ [DamageNext]_damageVars => DamageInv'
  <2> SUFFICES ASSUME DamageInv, [DamageNext]_damageVars
               PROVE  DamageInv'
    OBVIOUS
  <2>1. CASE DamageNext
    BY <2>1, StepKeeps
  <2>2. CASE UNCHANGED damageVars
    <3>1. DeskFits' /\ MailboxFits' /\ Unopened'
      BY <2>2 DEF damageVars, DamageInv, DeskFits, MailboxFits, Unopened
    <3>2. DraftHolds' /\ NoticesHold' /\ ReplacementHolds' /\ LetterHolds'
      BY <2>2 DEF damageVars, DamageInv, DraftHolds, NoticesHold, ReplacementHolds,
                  LetterHolds, DespiteDamage, Since, Mails
    <3> QED  BY <3>1, <3>2 DEF DamageInv
  <2> QED  BY <2>1, <2>2
<1> QED  BY <1>1, DamageInitHolds, PTL DEF DamageSpec

(***************************************************************************)
(* A damaged parcel is settled once, with the excuses each part names: one *)
(* replacement and one letter, of a parcel that was shipped, and every     *)
(* notice on file once, for any number of operators, notices, days and     *)
(* faults (damage/application/workflow.py:183-375, damage_detection.py:664).*)
(***************************************************************************)
THEOREM SettledOnceHolds == DamageSpec => []SettledOnce
<1>1. DamageInv => SettledOnce
  <2> SUFFICES ASSUME DamageInv
               PROVE  SettledOnce
    OBVIOUS
  <2>1. case \in Case /\ \A n \in Notice : case.evidence[n] <= 1
    BY DEF DamageInv, DeskFits, CaseFits
  <2>2. DamageTypeOK
    <3>1. /\ case.status \in CaseStatus /\ case.open \in BOOLEAN
          /\ {case.draft, case.letter} \subseteq Replacement \cup {NoDraft}
          /\ case.attempt \in {"none", "pending", "unknown", "failed", "confirmed"}
          /\ case.sent \in BOOLEAN
          /\ case.prints \subseteq Notice /\ case.evidence \in [Notice -> 0..2]
      BY <2>1 DEF Case, Draft, Attempt
    <3>2. case.status \in {"replacement_prepared", "replacement_pending",
                           "replacement_created"}
             => case.draft # NoDraft \/ "opened_twice" \in damageCauses
      BY DEF DamageInv, DraftHolds, DespiteDamage, Prepared_
    <3>3. \A d \in Replacement :
             /\ parcel[d].status \in {"none", "needs_review", "pending", "executing",
                                      "pending_confirmation", "created", "error"}
             /\ parcel[d].shipped \in 0..2
      BY DEF DamageInv, DeskFits, ParcelsFit
    <3>4. /\ received \in [Notice -> 0..NotYet] /\ indexed \subseteq Notice
          /\ today \in 0..MaxDays /\ cursor \in 0..MaxDays
      BY DEF DamageInv, MailboxFits
    <3>5. \A o \in Operator : operator[o].op \in Op \cup {"none"}
      BY DEF DamageInv, DeskFits, Duty
    <3> QED  BY <3>1, <3>2, <3>3, <3>4, <3>5
                DEF DamageInv, DeskFits, MailFits, DamageTypeOK
  <2>3. OneLetter
    BY DEF DamageInv, LetterHolds, OneLetter
  <2>4. LetterNamesParcel
    BY DEF DamageInv, DeskFits, MailFits, LetterNamesParcel
  <2>5. OneReplacement
    <3>1. CASE ~DespiteDamage({"opened_twice", "prepared_twice", "reset"})
      <4>1. \A d \in Replacement : /\ parcel[d].shipped \in 0..1
                                   /\ d # case.draft => parcel[d].shipped = 0
        BY <3>1 DEF DamageInv, ReplacementHolds, DeskFits, ParcelsFit
      <4>2. 1 \in Replacement /\ 2 \in Replacement
        BY DEF Replacement
      <4> QED  BY <4>1, <4>2 DEF OneReplacement
    <3> QED  BY <3>1 DEF OneReplacement
  <2>6. NoticesAreFiled
    BY DEF DamageInv, NoticesHold, NoticesAreFiled
  <2> QED  BY <2>1, <2>2, <2>3, <2>4, <2>5, <2>6 DEF SettledOnce, EvidenceOnce
<1> QED  BY <1>1, DamageInvariant, PTL

HIDE DamageShape

-----------------------------------------------------------------------------
(***************************************************************************)
(* The discovery of numbers.  A draft is due after as many older drafts as *)
(* the cursor has before it.  What it has waited and is due for is bounded *)
(* by what has come and gone: a round brings it nearer by what it costs,   *)
(* and only a draft that comes or goes can throw it back.                  *)
(***************************************************************************)
PlaceIn(S, d) == Cardinality({e \in S : e > d})
OlderOf(S) == IF Cardinality(S) > Recent THEN Cardinality(S) - Recent ELSE 0

\* drafts before the i-th of n when the cursor is at c
Ahead(i, c, n) == IF i >= c THEN i - c ELSE i - c + n

DueIn(S, t, d) ==
    IF PlaceIn(S, d) >= Recent THEN Ahead(PlaceIn(S, d) - Recent, t % OlderOf(S), OlderOf(S))
    ELSE 0

\* what N drafts that have come, M of them still there, can make one wait
Patience(N, M) == 2 * N * (N - 1) - M * (M - 1)

DiscoveryShape ==
    /\ arrived \in 0..MaxBacklog /\ backlog \subseteq 1..arrived /\ turn \in 0..MaxBacklog
    /\ waited \in [1..MaxBacklog -> Nat]
    /\ \A d \in (1..MaxBacklog) \ backlog : waited[d] = 0

WaitIsPaid ==
    \A d \in backlog :
       2 * (waited[d] + DueIn(backlog, turn, d)) <= Patience(arrived, Cardinality(backlog))

DiscoveryInv == DiscoveryShape /\ WaitIsPaid

-----------------------------------------------------------------------------
LEMMA Modulo ==
    ASSUME NEW n \in Nat \ {0}, NEW a \in Nat
    PROVE  /\ a % n \in 0..(n - 1)
           /\ a < n => a % n = a /\ (a + n) % n = a
  OBVIOUS

LEMMA ModuloTwice ==
    ASSUME NEW n \in Nat \ {0}, NEW a \in Nat, a < 2 * n
    PROVE  a % n = IF a < n THEN a ELSE a - n
<1>1. CASE a < n
  BY <1>1, Modulo
<1>2. CASE a >= n
  <2> DEFINE b == a - n
  <2>1. b \in Nat /\ b < n /\ a = b + n
    BY <1>2
  <2> HIDE DEF b
  <2>2. (b + n) % n = b
    BY <2>1, Modulo
  <2> QED  BY <1>2, <2>1, <2>2
<1> QED  BY <1>1, <1>2

\* A place the cursor does not pass in a round comes nearer by the whole of it.
LEMMA ComesNearer ==
    ASSUME NEW n \in Nat \ {0}, NEW i \in 0..(n - 1), NEW t \in Nat, NEW size \in 1..n,
           \A k \in 0..(size - 1) : i # ((t % n) + k) % n
    PROVE  LET after == ((t % n) + size) % n
           IN  /\ Ahead(i, t % n, n) >= size
               /\ Ahead(i, after % n, n) = Ahead(i, t % n, n) - size
<1> DEFINE c == t % n
           after == (c + size) % n
<1>1. c \in 0..(n - 1)
  BY Modulo
<1> HIDE DEF c
<1>2. Ahead(i, c, n) \in 0..(n - 1)
  BY <1>1 DEF Ahead
<1>3. (c + Ahead(i, c, n)) % n = i
  <2>1. CASE i >= c
    <3>1. Ahead(i, c, n) = i - c
      BY <2>1 DEF Ahead
    <3>2. c + Ahead(i, c, n) = i
      BY <1>1, <3>1
    <3> QED  BY <3>2, Modulo
  <2>2. CASE i < c
    <3>1. Ahead(i, c, n) = (i - c) + n
      BY <1>1, <2>2 DEF Ahead
    <3>2. c + Ahead(i, c, n) = i + n
      BY <1>1, <3>1
    <3> QED  BY <3>2, Modulo
  <2> QED  BY <1>1, <2>1, <2>2
<1>4. Ahead(i, c, n) >= size
  <2> SUFFICES ASSUME Ahead(i, c, n) < size PROVE FALSE
    BY <1>2
  <2>1. Ahead(i, c, n) \in 0..(size - 1)
    BY <1>2
  <2> QED  BY <1>3, <2>1 DEF c
<1>5. after = IF c + size < n THEN c + size ELSE (c + size) - n
  <2> DEFINE a == c + size
  <2>1. a \in Nat /\ a < 2 * n
    BY <1>1
  <2> HIDE DEF a
  <2>2. a % n = IF a < n THEN a ELSE a - n
    BY <2>1, ModuloTwice
  <2> QED  BY <2>2 DEF a
<1> HIDE DEF after
<1>6. after \in 0..(n - 1)
  BY <1>1, <1>5
<1>7. after % n = after
  BY <1>6, Modulo
<1>8. Ahead(i, after, n) = Ahead(i, c, n) - size
  BY <1>1, <1>4, <1>5 DEF Ahead
<1> QED  BY <1>4, <1>7, <1>8 DEF c, after

LEMMA PlacesOf ==
    ASSUME NEW S, IsFiniteSet(S), NEW d \in S, S \subseteq Nat
    PROVE  /\ Cardinality(S) \in Nat \ {0}
           /\ PlaceIn(S, d) \in 0..(Cardinality(S) - 1)
<1> DEFINE newer == {e \in S : e > d}
<1>1. newer \subseteq S \ {d}
  OBVIOUS
<1>2. IsFiniteSet(S \ {d}) /\ Cardinality(S \ {d}) = Cardinality(S) - 1
  BY FS_RemoveElement
<1>3. Cardinality(S) \in Nat /\ Cardinality(S \ {d}) \in Nat
  BY <1>2, FS_CardinalityType
<1>4. IsFiniteSet(newer) /\ Cardinality(newer) <= Cardinality(S \ {d})
  BY <1>1, <1>2, FS_Subset
<1>5. Cardinality(newer) \in Nat
  BY <1>4, FS_CardinalityType
<1> QED  BY <1>2, <1>3, <1>4, <1>5 DEF PlaceIn

LEMMA DueOf ==
    ASSUME NEW S, IsFiniteSet(S), NEW d \in S, S \subseteq Nat, NEW t \in Nat
    PROVE  /\ DueIn(S, t, d) \in 0..(Cardinality(S) - 1)
           /\ PlaceIn(S, d) >= Recent =>
                OlderOf(S) \in Nat \ {0} /\ PlaceIn(S, d) - Recent \in 0..(OlderOf(S) - 1)
<1> DEFINE n == OlderOf(S)
           i == PlaceIn(S, d) - Recent
<1>1. Cardinality(S) \in Nat \ {0} /\ PlaceIn(S, d) \in 0..(Cardinality(S) - 1) /\ Recent \in Nat
  BY PlacesOf, CorrelationShape
<1>2. CASE PlaceIn(S, d) >= Recent
  <2>1. n \in Nat \ {0} /\ n <= Cardinality(S) /\ i \in 0..(n - 1)
    BY <1>1, <1>2 DEF OlderOf
  <2>2. t % n \in 0..(n - 1)
    BY <2>1, Modulo
  <2> HIDE DEF n, i
  <2>3. Ahead(i, t % n, n) \in 0..(n - 1)
    BY <2>1, <2>2 DEF Ahead
  <2>4. DueIn(S, t, d) = Ahead(i, t % n, n)
    BY <1>2 DEF DueIn, n, i
  <2>5. DueIn(S, t, d) \in 0..(Cardinality(S) - 1)
    BY <1>1, <2>1, <2>3, <2>4
  <2> QED  BY <2>1, <2>5 DEF n, i
<1>3. CASE ~(PlaceIn(S, d) >= Recent)
  BY <1>1, <1>3 DEF DueIn
<1> QED  BY <1>2, <1>3

LEMMA PatienceIsEnough ==
    ASSUME NEW N \in Nat, NEW M \in 0..N
    PROVE  /\ Patience(N, M) \in Nat
           /\ M > 0 => 2 * (M - 1) <= Patience(N, M)
           /\ Patience(N, M) + 2 * M <= Patience(N + 1, M + 1)
           /\ \A K \in Nat : K < M => Patience(N, M) + 2 * (M - 1) <= Patience(N, K)
           /\ Patience(N, M) <= 2 * (N * (N - 1))
  BY DEF Patience
-----------------------------------------------------------------------------
LEMMA BacklogIsFinite ==
    ASSUME NEW S, NEW N \in Nat, S \subseteq 1..N
    PROVE  /\ IsFiniteSet(S) /\ S \subseteq Nat /\ Cardinality(S) \in 0..N
           /\ \A T \in SUBSET S : IsFiniteSet(T) /\ T \subseteq Nat /\ Cardinality(T) \in 0..N
                 /\ (T # S => Cardinality(T) < Cardinality(S))
<1>1. IsFiniteSet(1..N) /\ Cardinality(1..N) = N
  BY FS_Interval
<1>2. IsFiniteSet(S) /\ Cardinality(S) <= N
  BY <1>1, FS_Subset
<1>3. Cardinality(S) \in Nat
  BY <1>2, FS_CardinalityType
<1>4. ASSUME NEW T \in SUBSET S
      PROVE  IsFiniteSet(T) /\ T \subseteq Nat /\ Cardinality(T) \in 0..N
             /\ (T # S => Cardinality(T) < Cardinality(S))
  <2>1. IsFiniteSet(T) /\ Cardinality(T) <= Cardinality(S)
        /\ (Cardinality(T) = Cardinality(S) => S = T)
    BY <1>2, FS_Subset
  <2>2. Cardinality(T) \in Nat
    BY <2>1, FS_CardinalityType
  <2> QED  BY <1>2, <1>3, <2>1, <2>2
<1> QED  BY <1>2, <1>3, <1>4

LEMMA DiscoveryFirst == CorrelationInit => DiscoveryInv
  BY CorrelationShape DEF CorrelationInit, DiscoveryInv, DiscoveryShape, WaitIsPaid

LEMMA DiscoveryApart ==
    ASSUME DiscoveryInv, UNCHANGED discoveryVars
    PROVE  DiscoveryInv'
  BY DEF discoveryVars, DiscoveryInv, DiscoveryShape, WaitIsPaid

LEMMA DraftArrives ==
    ASSUME DiscoveryInv, Arrives
    PROVE  DiscoveryInv'
<1> DEFINE N == arrived
           M == Cardinality(backlog)
<1>1. /\ arrived \in Nat /\ arrived < MaxBacklog /\ backlog \subseteq 1..arrived
      /\ arrived' = arrived + 1 /\ backlog' = backlog \cup {arrived + 1}
      /\ UNCHANGED <<turn, waited>> /\ MaxBacklog \in Nat
  BY CorrelationShape DEF DiscoveryInv, DiscoveryShape, Arrives
<1>2. DiscoveryShape'
  <2>1. backlog' \subseteq 1..arrived'
    BY <1>1
  <2> QED  BY <1>1, <2>1 DEF DiscoveryInv, DiscoveryShape
<1>3. /\ IsFiniteSet(backlog) /\ M \in 0..N /\ arrived + 1 \notin backlog
      /\ IsFiniteSet(backlog') /\ backlog' \subseteq Nat /\ Cardinality(backlog') = M + 1
  <2>1. IsFiniteSet(backlog) /\ M \in 0..N /\ arrived + 1 \notin backlog
    <3>1. IsFiniteSet(backlog) /\ Cardinality(backlog) \in 0..arrived
      BY <1>1, BacklogIsFinite
    <3>2. arrived + 1 \notin backlog
      BY <1>1
    <3> QED  BY <3>1, <3>2
  <2>2. IsFiniteSet(backlog') /\ Cardinality(backlog') = M + 1
    BY <1>1, <2>1, FS_AddElement
  <2> QED  BY <1>1, <2>1, <2>2
<1>4. ASSUME NEW d \in backlog'
      PROVE  2 * (waited'[d] + DueIn(backlog', turn', d)) <= Patience(N + 1, M + 1)
  <2> DEFINE due == DueIn(backlog', turn', d)
  <2>1. due \in 0..M
    <3>1. turn' \in Nat
      BY <1>2 DEF DiscoveryShape
    <3>2. DueIn(backlog', turn', d) \in 0..(Cardinality(backlog') - 1)
      BY <1>3, <1>4, <3>1, DueOf
    <3> QED  BY <1>3, <3>2
  <2>2. 2 * waited[d] <= Patience(N, M) /\ waited[d] \in Nat
    <3>1. CASE d \in backlog
      <4>1. DueIn(backlog, turn, d) \in 0..(M - 1)
        <5>1. turn \in Nat /\ backlog \subseteq Nat
          BY <1>1 DEF DiscoveryInv, DiscoveryShape
        <5> QED  BY <1>3, <3>1, <5>1, DueOf
      <4>2. waited[d] \in Nat
        BY <1>1, <3>1 DEF DiscoveryInv, DiscoveryShape
      <4>3. Patience(N, M) \in Nat
        BY <1>1, <1>3, PatienceIsEnough
      <4> QED  BY <1>3, <3>1, <4>1, <4>2, <4>3 DEF DiscoveryInv, WaitIsPaid
    <3>2. CASE d = arrived + 1
      <4>1. waited[d] = 0
        BY <1>1, <1>3, <3>2 DEF DiscoveryInv, DiscoveryShape
      <4>2. Patience(N, M) \in Nat
        BY <1>1, <1>3, PatienceIsEnough
      <4> QED  BY <4>1, <4>2
    <3> QED  BY <1>1, <1>4, <3>1, <3>2
  <2>3. Patience(N, M) + 2 * M <= Patience(N + 1, M + 1) /\ Patience(N, M) \in Nat
        /\ Patience(N + 1, M + 1) \in Nat
    <3>1. N + 1 \in Nat /\ M + 1 \in 0..(N + 1)
      BY <1>1, <1>3
    <3> QED  BY <1>1, <1>3, <3>1, PatienceIsEnough
  <2> HIDE DEF due
  <2>4. 2 * (waited[d] + due) <= Patience(N + 1, M + 1)
    BY <1>3, <2>1, <2>2, <2>3
  <2> QED  BY <1>1, <2>4 DEF due
<1>5. WaitIsPaid'
  BY <1>1, <1>3, <1>4 DEF WaitIsPaid
<1> QED  BY <1>2, <1>5 DEF DiscoveryInv

\* A backlog that has lost a draft pays for any turn, and for one round more.
LEMMA LossIsPaid ==
    ASSUME DiscoveryInv, NEW d \in backlog, NEW T, T \subseteq backlog, T # backlog, d \in T,
           NEW t \in Nat
    PROVE  2 * (waited[d] + 1 + DueIn(T, t, d)) <= Patience(arrived, Cardinality(T))
<1> DEFINE N == arrived
           M == Cardinality(backlog)
           K == Cardinality(T)
           due == DueIn(T, t, d)
           was == DueIn(backlog, turn, d)
<1>1. /\ N \in Nat /\ backlog \subseteq 1..N /\ waited[d] \in Nat /\ turn \in Nat
  BY CorrelationShape DEF DiscoveryInv, DiscoveryShape
<1>2. /\ IsFiniteSet(backlog) /\ backlog \subseteq Nat /\ M \in 0..N
      /\ IsFiniteSet(T) /\ T \subseteq Nat /\ K \in 0..N /\ K < M
  BY <1>1, BacklogIsFinite
<1>3. due \in 0..(K - 1) /\ was \in 0..(M - 1)
  BY <1>1, <1>2, DueOf
<1>4. /\ Patience(N, M) + 2 * (M - 1) <= Patience(N, K)
      /\ Patience(N, M) \in Nat /\ Patience(N, K) \in Nat
  BY <1>1, <1>2, PatienceIsEnough
<1>5. 2 * (waited[d] + was) <= Patience(N, M)
  BY DEF DiscoveryInv, WaitIsPaid
<1> HIDE DEF due, was, N, M, K
<1>6. 2 * (waited[d] + 1 + due) <= Patience(N, K)
  BY <1>1, <1>2, <1>3, <1>4, <1>5
<1> QED  BY <1>6 DEF due, N, K

LEMMA DraftLeaves ==
    ASSUME DiscoveryInv, NEW g \in backlog, Leaves(g)
    PROVE  DiscoveryInv'
<1>1. /\ backlog' = backlog \ {g} /\ waited' = [waited EXCEPT ![g] = 0]
      /\ UNCHANGED <<arrived, turn>>
  BY DEF Leaves
<1>2. g \in 1..MaxBacklog
  BY CorrelationShape DEF DiscoveryInv, DiscoveryShape
<1>3. DiscoveryShape'
  BY <1>1, <1>2 DEF DiscoveryInv, DiscoveryShape
<1>4. ASSUME NEW d \in backlog'
      PROVE  2 * (waited'[d] + DueIn(backlog', turn', d))
                <= Patience(arrived', Cardinality(backlog'))
  <2>1. d \in backlog /\ d # g /\ backlog' \subseteq backlog /\ backlog' # backlog
    BY <1>1
  <2>2. d \in 1..MaxBacklog /\ waited'[d] = waited[d] /\ waited[d] \in Nat /\ turn \in Nat
    BY <1>1, <2>1, CorrelationShape DEF DiscoveryInv, DiscoveryShape
  <2>3. 2 * (waited[d] + 1 + DueIn(backlog', turn, d)) <= Patience(arrived, Cardinality(backlog'))
    BY <1>4, <2>1, <2>2, LossIsPaid
  <2>4. DueIn(backlog', turn, d) \in Int /\ Patience(arrived, Cardinality(backlog')) \in Int
    <3>1. arrived \in Nat /\ backlog \subseteq 1..arrived
      BY DEF DiscoveryInv, DiscoveryShape
    <3>2. IsFiniteSet(backlog') /\ backlog' \subseteq Nat /\ Cardinality(backlog') \in 0..arrived
      BY <2>1, <3>1, BacklogIsFinite
    <3>3. DueIn(backlog', turn, d) \in 0..(Cardinality(backlog') - 1)
      BY <1>4, <2>2, <3>2, DueOf
    <3>4. Patience(arrived, Cardinality(backlog')) \in Nat
      BY <3>1, <3>2, PatienceIsEnough
    <3> QED  BY <3>3, <3>4
  <2> QED  BY <1>1, <2>2, <2>3, <2>4
<1> QED  BY <1>3, <1>4 DEF DiscoveryInv, WaitIsPaid
\* A round without a find: who is asked starts afresh, who is not comes nearer.
LEMMA RoundPasses ==
    ASSUME DiscoveryInv, Discover, backlog' = backlog
    PROVE  DiscoveryInv'
<1> DEFINE N == arrived
           M == Cardinality(backlog)
           n == OlderOf(backlog)
           asked == (backlog \ Older) \cup (IF OlderCount = 0 THEN {} ELSE SelectedOlder)
<1>1. /\ UNCHANGED <<arrived, backlog>> /\ turn' = NextTurn
      /\ waited' = [d \in 1..MaxBacklog |-> IF d \in backlog \ asked THEN waited[d] + 1 ELSE 0]
  BY DEF Discover
<1>2. /\ N \in 0..MaxBacklog /\ MaxBacklog \in Nat /\ backlog \subseteq 1..N /\ turn \in Nat
      /\ turn \in 0..MaxBacklog /\ Recent \in Nat /\ Turn_ \in Nat \ {0} /\ N \in Nat
      /\ \A d \in backlog : d \in 1..MaxBacklog /\ waited[d] \in Nat
  BY CorrelationShape DEF DiscoveryInv, DiscoveryShape
<1>3. /\ IsFiniteSet(backlog) /\ backlog \subseteq Nat /\ M \in 0..N
  BY <1>2, BacklogIsFinite
<1>4. /\ n \in 0..M /\ OlderCount = n
      /\ \A d \in backlog : d \in Older <=> PlaceIn(backlog, d) >= Recent
      /\ \A d \in backlog : Place(d) = PlaceIn(backlog, d)
  BY <1>2, <1>3 DEF OlderOf, OlderCount, Older, Place, PlaceIn
<1>5. n > 0 => TurnSize \in 1..n /\ turn' = ((turn % n) + TurnSize) % n /\ turn' \in 0..(n - 1)
  <2> SUFFICES ASSUME n > 0
               PROVE  TurnSize \in 1..n /\ turn' = ((turn % n) + TurnSize) % n
                      /\ turn' \in 0..(n - 1)
    OBVIOUS
  <2> HIDE DEF n
  <2>1. TurnSize \in 1..n
    BY <1>2, <1>4 DEF TurnSize
  <2>2. turn' = ((turn % n) + TurnSize) % n
    BY <1>1, <1>4 DEF NextTurn, Cursor
  <2>3. turn % n \in Nat /\ n \in Nat \ {0}
    BY <1>2, <1>3, <1>4, Modulo
  <2>4. ((turn % n) + TurnSize) % n \in 0..(n - 1)
    <3> DEFINE a == (turn % n) + TurnSize
    <3>1. a \in Nat
      BY <2>1, <2>3
    <3> HIDE DEF a
    <3>2. a % n \in 0..(n - 1)
      BY <2>3, <3>1, Modulo
    <3> QED  BY <3>2 DEF a
  <2> QED  BY <2>1, <2>2, <2>4
<1>6. turn' \in 0..MaxBacklog
  <2>1. CASE n > 0
    <3> HIDE DEF n
    <3> QED  BY <1>2, <1>3, <1>4, <1>5, <2>1
  <2>2. CASE ~(n > 0)
    BY <1>1, <1>2, <1>4, <2>2 DEF NextTurn
  <2> QED  BY <2>1, <2>2
<1>7. waited' \in [1..MaxBacklog -> Nat]
      /\ \A d \in 1..MaxBacklog : waited'[d] = IF d \in backlog \ asked THEN waited[d] + 1 ELSE 0
  <2> HIDE DEF asked
  <2> QED  BY <1>1, <1>2
<1>8. DiscoveryShape'
  <2> HIDE DEF asked
  <2> QED  BY <1>1, <1>2, <1>6, <1>7 DEF DiscoveryShape
<1>9. ASSUME NEW d \in backlog
      PROVE  2 * (waited'[d] + DueIn(backlog, turn', d)) <= Patience(N, M)
  <2>1. /\ DueIn(backlog, turn, d) \in 0..(M - 1) /\ DueIn(backlog, turn', d) \in 0..(M - 1)
    <3>1. turn' \in Nat
      BY <1>6, <1>2
    <3> QED  BY <1>2, <1>3, <3>1, DueOf
  <2>2. Patience(N, M) \in Nat /\ (M > 0 => 2 * (M - 1) <= Patience(N, M))
    BY <1>2, <1>3, PatienceIsEnough
  <2>3. M > 0
    BY <1>3, <2>1
  <2>4. d \in 1..MaxBacklog /\ waited[d] \in Nat
    BY <1>2
  <2>5. CASE d \in asked
    <3>1. waited'[d] = 0
      BY <1>7, <2>4, <2>5
    <3> HIDE DEF asked, M, N
    <3> QED  BY <1>3, <2>1, <2>2, <2>3, <3>1
  <2>6. CASE d \notin asked
    <3>1. d \in Older /\ n > 0 /\ d \notin SelectedOlder /\ PlaceIn(backlog, d) >= Recent
      <4>1. d \in Older
        BY <2>6
      <4>2. PlaceIn(backlog, d) >= Recent
        BY <1>4, <4>1
      <4>3. n > 0
        <5>1. OlderOf(backlog) \in Nat \ {0}
          BY <1>2, <1>3, <4>2, DueOf
        <5> QED  BY <5>1
      <4>4. d \notin SelectedOlder
        BY <1>4, <2>6, <4>3
      <4> QED  BY <4>1, <4>2, <4>3, <4>4
    <3> DEFINE i == PlaceIn(backlog, d) - Recent
    <3>2. n \in Nat \ {0} /\ i \in 0..(n - 1) /\ TurnSize \in 1..n
      BY <1>2, <1>3, <1>5, <3>1, DueOf
    <3>3. \A k \in 0..(TurnSize - 1) : i # ((turn % n) + k) % n
      BY <1>4, <3>1 DEF SelectedOlder, Cursor
    <3>4. /\ DueIn(backlog, turn, d) = Ahead(i, turn % n, n)
          /\ DueIn(backlog, turn', d) = Ahead(i, turn' % n, n)
      BY <3>1 DEF DueIn
    <3> HIDE DEF i, n
    <3>5. Ahead(i, turn' % n, n) = Ahead(i, turn % n, n) - TurnSize
      <4>1. turn' = ((turn % n) + TurnSize) % n
        BY <1>5, <3>1
      <4> QED  BY <1>2, <3>2, <3>3, <4>1, ComesNearer
    <3>6. waited'[d] = waited[d] + 1
      BY <1>7, <2>4, <2>6
    <3>7. 2 * (waited[d] + DueIn(backlog, turn, d)) <= Patience(N, M)
      BY DEF DiscoveryInv, WaitIsPaid
    <3> HIDE DEF asked, M, N
    <3> QED  BY <2>1, <2>2, <2>4, <3>2, <3>4, <3>5, <3>6, <3>7
  <2> QED  BY <2>5, <2>6
<1> QED  BY <1>1, <1>8, <1>9 DEF DiscoveryInv, WaitIsPaid
LEMMA RoundFinds ==
    ASSUME DiscoveryInv, Discover, backlog' # backlog
    PROVE  DiscoveryInv'
<1> DEFINE N == arrived
           asked == (backlog \ Older) \cup (IF OlderCount = 0 THEN {} ELSE SelectedOlder)
<1>1. /\ UNCHANGED arrived /\ turn' = NextTurn /\ backlog' \subseteq backlog
      /\ waited' = [d \in 1..MaxBacklog |-> IF d \in backlog \ asked THEN waited[d] + 1 ELSE 0]
      /\ backlog \ backlog' \subseteq asked
  BY DEF Discover
<1> HIDE DEF asked
<1>2. /\ N \in 0..MaxBacklog /\ MaxBacklog \in Nat /\ backlog \subseteq 1..N /\ turn \in Nat
      /\ turn \in 0..MaxBacklog /\ Recent \in Nat /\ Turn_ \in Nat \ {0} /\ N \in Nat
      /\ \A d \in backlog : d \in 1..MaxBacklog /\ waited[d] \in Nat
  BY CorrelationShape DEF DiscoveryInv, DiscoveryShape
<1>3. /\ IsFiniteSet(backlog) /\ Cardinality(backlog) \in 0..N
      /\ backlog' \subseteq Nat /\ IsFiniteSet(backlog') /\ Cardinality(backlog') \in 0..N
  BY <1>1, <1>2, BacklogIsFinite
<1>4. turn' \in 0..MaxBacklog
  <2>1. CASE OlderCount = 0
    BY <1>1, <1>2, <2>1 DEF NextTurn
  <2>2. CASE OlderCount # 0
    <3> DEFINE a == Cursor + TurnSize
               n == OlderCount
    <3>1. n \in Nat \ {0} /\ n <= MaxBacklog
      BY <1>2, <1>3, <2>2 DEF OlderCount
    <3>2. Cursor \in Nat
      <4> HIDE DEF n
      <4>1. turn % n \in 0..(n - 1)
        BY <1>2, <3>1, Modulo
      <4> QED  BY <3>1, <4>1 DEF Cursor, n
    <3>3. a \in Nat
      BY <1>2, <3>1, <3>2 DEF TurnSize
    <3> HIDE DEF a, n
    <3>4. a % n \in 0..(n - 1)
      BY <3>1, <3>3, Modulo
    <3>5. turn' = a % n
      BY <1>1, <2>2 DEF NextTurn, a, n
    <3> QED  BY <1>2, <3>1, <3>4, <3>5
  <2> QED  BY <2>1, <2>2
<1>5. waited' \in [1..MaxBacklog -> Nat]
      /\ \A d \in 1..MaxBacklog : waited'[d] = IF d \in backlog \ asked THEN waited[d] + 1 ELSE 0
  BY <1>1, <1>2
<1>6. DiscoveryShape'
  BY <1>1, <1>2, <1>4, <1>5 DEF DiscoveryShape
<1>7. ASSUME NEW d \in backlog'
      PROVE  2 * (waited'[d] + DueIn(backlog', turn', d)) <= Patience(N, Cardinality(backlog'))
  <2>1. d \in backlog /\ turn' \in Nat /\ d \in 1..MaxBacklog /\ waited[d] \in Nat
    BY <1>1, <1>2, <1>4
  <2>2. 2 * (waited[d] + 1 + DueIn(backlog', turn', d)) <= Patience(N, Cardinality(backlog'))
    BY <1>1, <1>7, <2>1, LossIsPaid
  <2>3. DueIn(backlog', turn', d) \in 0..(Cardinality(backlog') - 1)
    BY <1>3, <1>7, <2>1, DueOf
  <2>4. Patience(N, Cardinality(backlog')) \in Nat
    BY <1>2, <1>3, PatienceIsEnough
  <2>5. waited'[d] \in Nat /\ waited'[d] <= waited[d] + 1
    BY <1>5, <2>1
  <2> QED  BY <2>1, <2>2, <2>3, <2>4, <2>5
<1> QED  BY <1>1, <1>6, <1>7 DEF DiscoveryInv, WaitIsPaid

LEMMA NobodyStarves ==
    ASSUME DiscoveryInv
    PROVE  AskedInTurn
<1> SUFFICES ASSUME NEW d \in backlog
             PROVE  waited[d] <= arrived * (arrived - 1)
  BY DEF AskedInTurn
<1>1. /\ arrived \in Nat /\ backlog \subseteq 1..arrived /\ turn \in Nat /\ waited[d] \in Nat
  BY CorrelationShape DEF DiscoveryInv, DiscoveryShape
<1>2. /\ IsFiniteSet(backlog) /\ backlog \subseteq Nat /\ Cardinality(backlog) \in 0..arrived
  BY <1>1, BacklogIsFinite
<1>3. DueIn(backlog, turn, d) \in 0..(Cardinality(backlog) - 1)
  BY <1>1, <1>2, DueOf
<1>4. Patience(arrived, Cardinality(backlog)) <= 2 * (arrived * (arrived - 1))
      /\ Patience(arrived, Cardinality(backlog)) \in Nat
  BY <1>1, <1>2, PatienceIsEnough
<1>5. 2 * (waited[d] + DueIn(backlog, turn, d)) <= Patience(arrived, Cardinality(backlog))
  BY DEF DiscoveryInv, WaitIsPaid
<1>6. arrived * (arrived - 1) \in Int
  BY <1>1
<1> QED  BY <1>1, <1>3, <1>4, <1>5, <1>6
-----------------------------------------------------------------------------
(***************************************************************************)
(* The scans.  Whatever a scan holds of a parcel and a draft, the view it  *)
(* has read, the draft it is about to write, was right when it was read,   *)
(* and stays so: only a parcel that was guessed is ever another's.         *)
(***************************************************************************)
Rightly(guessed, p, d) == p \in guessed \/ d = NoOrder \/ d = Waybill[p].of

RightNumber(guessed, p, d) == p = NoParcel \/ p \in guessed \/ Waybill[p].of = d

ScanShape ==
    /\ tracked \in [Order_ -> Parcel \cup {NoParcel}] /\ told \subseteq Parcel
    /\ link \in [Parcel -> [open : BOOLEAN, draft : Order_ \cup {NoOrder}]]
    /\ corrFaults \in 0..MaxCorrFaults /\ corrScans \in 0..(MaxScans + MaxRounds)
    /\ corrCauses = [guessed |-> corrCauses.guessed, stale |-> corrCauses.stale]
    /\ scanner = [pc |-> scanner.pc, todo |-> scanner.todo, view |-> scanner.view,
                  list |-> scanner.list, parcel |-> scanner.parcel, draft |-> scanner.draft,
                  found |-> scanner.found]
    /\ scanner.pc \in {"idle", "message", "track", "file"} /\ scanner.todo \subseteq told

ScanIsRight ==
    /\ \A p \in Parcel : /\ Rightly(corrCauses.guessed, p, link[p].draft)
                         /\ link[p].draft # NoOrder => link[p].open
    /\ \A d \in Order_ : RightNumber(corrCauses.guessed, tracked[d], d)
    /\ scanner.pc # "idle" =>
          /\ scanner.view \in [Order_ -> Parcel \cup {NoParcel}]
          /\ \A d \in Order_ : RightNumber(corrCauses.guessed, scanner.view[d], d)
    /\ scanner.pc \in {"track", "file"} =>
          /\ scanner.parcel \in Parcel /\ scanner.draft \in Order_ \cup {NoOrder}
          /\ Rightly(corrCauses.guessed, scanner.parcel, scanner.draft)

ScanInv == ScanShape /\ ScanIsRight

\* A match that is not a choice between equals is the parcel's own order.
LEMMA MatchIsTheirs ==
    ASSUME NEW p \in Parcel
    PROVE  /\ Match[p] \in Order_ \cup {NoOrder}
           /\ Match[p] # NoOrder /\ ~Nearest(p) => Match[p] = Waybill[p].of
<1>1. CASE Referenced(p) # {}
  <2>1. \A d \in Referenced(p) : d \in Order_ /\ d = Waybill[p].of
    BY DEF Referenced
  <2>2. Match[p] \in Referenced(p)
    BY <1>1 DEF Match
  <2> QED  BY <2>1, <2>2
<1>2. CASE Referenced(p) = {} /\ Cardinality(Best(p)) = 1
  <2>1. Best(p) # {}
    BY <1>2, FS_EmptySet
  <2>2. Match[p] \in Best(p)
    BY <1>2, <2>1 DEF Match
  <2>3. Match[p] \in Candidates(p) /\ \A e \in Candidates(p) : ~Better(p, e, Match[p])
    BY <2>2 DEF Best
  <2>4. Match[p] \in Order_
    BY <2>3 DEF Candidates
  <2>5. ASSUME Match[p] # Waybill[p].of
        PROVE  Nearest(p)
    <3> DEFINE own == Waybill[p].of
               mine == Score(MatchedFields(p, own))
               his == Score(MatchedFields(p, Match[p]))
    <3>1. own \in Candidates(p) /\ his <= mine
      BY <2>3, ReceiversAreKnown
    <3>2. ~(mine > his)
      BY <2>3, <3>1 DEF Better
    <3>3. mine \in Int /\ his \in Int
      BY DEF Score, Weight
    <3> HIDE DEF mine, his
    <3>4. mine = his
      BY <3>1, <3>2, <3>3
    <3> QED  BY <1>2, <2>5, <3>1, <3>4 DEF Nearest, mine, his
  <2> QED  BY <2>4, <2>5
<1>3. CASE Referenced(p) = {} /\ Cardinality(Best(p)) # 1
  BY <1>3 DEF Match
<1> QED  BY <1>1, <1>2, <1>3

LEMMA LinkedTo ==
    ASSUME NEW row \in [open : BOOLEAN, draft : Order_ \cup {NoOrder}],
           NEW d \in Order_ \cup {NoOrder}
    PROVE  /\ Linked_(row, d) \in [open : BOOLEAN, draft : Order_ \cup {NoOrder}]
           /\ Linked_(row, d).open = TRUE
           /\ Linked_(row, d).draft = row.draft \/ Linked_(row, d).draft = d
  BY DEF Linked_

LEMMA ScanFirst == CorrelationInit => ScanInv
<1> SUFFICES ASSUME CorrelationInit PROVE ScanInv
  OBVIOUS
<1>1. ScanShape
  BY CorrelationShape DEF CorrelationInit, ScanShape, NoCaseYet, IdleScanner
<1>2. ScanIsRight
  BY DEF CorrelationInit, ScanIsRight, NoCaseYet, IdleScanner, Rightly, RightNumber
<1> QED  BY <1>1, <1>2 DEF ScanInv

\* What was right stays right: a guess is not taken back.
LEMMA StaysRight ==
    ASSUME NEW G, NEW H, G \subseteq H
    PROVE  \A p, d : /\ Rightly(G, p, d) => Rightly(H, p, d)
                     /\ RightNumber(G, p, d) => RightNumber(H, p, d)
  BY DEF Rightly, RightNumber

LEMMA NumberIsOrdered ==
    ASSUME ScanInv, NEW p \in Parcel, Ordered(p)
    PROVE  ScanInv'
<1>1. /\ tracked' = [tracked EXCEPT ![Waybill[p].of] = p] /\ Waybill[p].of \in Order_
      /\ UNCHANGED <<told, link, scanner, corrFaults, corrScans, corrCauses>>
  BY CorrelationShape DEF Ordered, NoOrder
<1>2. ScanShape'
  BY <1>1 DEF ScanInv, ScanShape
<1>3. \A d \in Order_ : tracked'[d] = tracked[d] \/ (tracked'[d] = p /\ Waybill[p].of = d)
  BY <1>1 DEF ScanInv, ScanShape
<1>4. ScanIsRight'
  BY <1>1, <1>3 DEF ScanInv, ScanIsRight, Rightly, RightNumber
<1> QED  BY <1>2, <1>4 DEF ScanInv

LEMMA NoticeComes ==
    ASSUME ScanInv, NEW p \in Parcel, Notice_(p)
    PROVE  ScanInv'
<1>1. /\ UNCHANGED <<tracked, link, scanner, corrFaults, corrScans, corrCauses>>
      /\ told' = told \cup {p}
  BY DEF Notice_
<1>2. ScanShape'
  BY <1>1 DEF ScanInv, ScanShape
<1> QED  BY <1>1, <1>2 DEF ScanInv, ScanIsRight, Rightly, RightNumber

LEMMA ScanBegins ==
    ASSUME ScanInv, BeginCorrelation
    PROVE  ScanInv'
<1>1. /\ UNCHANGED <<tracked, told, link, corrFaults, corrCauses>>
      /\ corrScans < MaxScans /\ corrScans' = corrScans + 1
  BY DEF BeginCorrelation
<1>2. scanner' = [pc |-> "message", todo |-> told, view |-> tracked, list |-> "unread",
                  parcel |-> NoParcel, draft |-> NoOrder, found |-> FALSE]
  BY DEF BeginCorrelation, IdleScanner
<1>3. ScanShape'
  BY <1>1, <1>2, CorrelationShape DEF ScanInv, ScanShape
<1>4. scanner'.pc = "message" /\ scanner'.view = tracked
  BY <1>2
<1>5. ScanIsRight'
  BY <1>1, <1>4 DEF ScanInv, ScanShape, ScanIsRight, Rightly, RightNumber
<1> QED  BY <1>3, <1>5 DEF ScanInv

\* The draft a number, or a case, already names is the right one.
LEMMA LocalIsRight ==
    ASSUME ScanInv, NEW p \in Parcel, scanner.pc # "idle"
    PROVE  LocalDraft(p) \in Order_ \cup {NoOrder} /\ Rightly(corrCauses.guessed, p, LocalDraft(p))
<1> DEFINE of == {d \in Order_ : scanner.view[d] = p}
<1>1. CASE of # {}
  <2>1. PICK d \in Order_ : scanner.view[d] = p /\ LocalDraft(p) = d
    BY <1>1 DEF LocalDraft
  <2>2. RightNumber(corrCauses.guessed, p, d) /\ p # NoParcel
    BY <2>1, CorrelationShape DEF ScanInv, ScanIsRight, NoParcel
  <2> QED  BY <2>1, <2>2 DEF RightNumber, Rightly
<1>2. CASE of = {}
  <2>1. LocalDraft(p) = link[p].draft
    BY <1>2 DEF LocalDraft
  <2> QED  BY <2>1 DEF ScanInv, ScanIsRight, ScanShape
<1> QED  BY <1>1, <1>2

\* A step that takes up a parcel with a draft that is right for it.
LEMMA TakesUp ==
    ASSUME ScanInv, scanner.pc = "message", NEW p \in Parcel, NEW pc \in {"track", "file"},
           NEW list, NEW draft \in Order_ \cup {NoOrder}, NEW found,
           scanner' = [scanner EXCEPT !.pc = pc, !.todo = @ \ {p}, !.list = list, !.parcel = p,
                                      !.draft = draft, !.found = found],
           NEW guessed, corrCauses' = [corrCauses EXCEPT !.guessed = guessed],
           corrCauses.guessed \subseteq guessed, Rightly(corrCauses'.guessed, p, draft),
           UNCHANGED <<tracked, told, link, corrScans>>, corrFaults' \in 0..MaxCorrFaults
    PROVE  ScanInv'
<1>1. scanner' = [pc |-> pc, todo |-> scanner.todo \ {p}, view |-> scanner.view, list |-> list,
                  parcel |-> p, draft |-> draft, found |-> found]
  BY DEF ScanInv, ScanShape
<1>2. corrCauses' = [guessed |-> guessed, stale |-> corrCauses.stale]
  BY DEF ScanInv, ScanShape
<1>3. /\ scanner'.pc = pc /\ scanner'.view = scanner.view /\ scanner'.parcel = p
      /\ scanner'.draft = draft
  BY <1>1
<1>4. ScanShape'
  <2>1. /\ scanner' = [pc |-> scanner'.pc, todo |-> scanner'.todo, view |-> scanner'.view,
                       list |-> scanner'.list, parcel |-> scanner'.parcel,
                       draft |-> scanner'.draft, found |-> scanner'.found]
        /\ scanner'.todo \subseteq scanner.todo
    BY <1>1
  <2>2. corrCauses' = [guessed |-> corrCauses'.guessed, stale |-> corrCauses'.stale]
    BY <1>2
  <2> QED  BY <1>3, <2>1, <2>2 DEF ScanInv, ScanShape
<1>5. corrCauses.guessed \subseteq corrCauses'.guessed
  BY <1>2
<1>6. ScanIsRight'
  <2>1. \A q \in Parcel : Rightly(corrCauses'.guessed, q, link'[q].draft)
                        /\ (link'[q].draft # NoOrder => link'[q].open)
    BY <1>5, StaysRight DEF ScanInv, ScanIsRight
  <2>2. \A d \in Order_ : RightNumber(corrCauses'.guessed, tracked'[d], d)
    BY <1>5, StaysRight DEF ScanInv, ScanIsRight
  <2>3. /\ scanner'.view \in [Order_ -> Parcel \cup {NoParcel}]
        /\ \A d \in Order_ : RightNumber(corrCauses'.guessed, scanner'.view[d], d)
    BY <1>3, <1>5, StaysRight DEF ScanInv, ScanIsRight
  <2>4. Rightly(corrCauses'.guessed, scanner'.parcel, scanner'.draft)
    BY <1>3
  <2> QED  BY <1>3, <2>1, <2>2, <2>3, <2>4 DEF ScanIsRight
<1> QED  BY <1>4, <1>6 DEF ScanInv

LEMMA ParcelIsLookedUp ==
    ASSUME ScanInv, NEW p \in Parcel, LookUpParcel(p)
    PROVE  ScanInv'
<1> DEFINE ask == LocalDraft(p) = NoOrder
           known(list) == Waybill[p].by = "inpost" \/ (Waybill[p].by = "apaczka" /\ list = "read")
           list == IF ask /\ Waybill[p].by # "inpost" /\ scanner.list = "unread"
                   THEN "read" ELSE scanner.list
           guessed == IF Match[p] # NoOrder /\ Nearest(p) THEN corrCauses.guessed \cup {p}
                      ELSE corrCauses.guessed
<1>1. /\ UNCHANGED <<tracked, told, link, corrFaults, corrScans>> /\ scanner.pc = "message"
      /\ corrFaults' \in 0..MaxCorrFaults
  BY DEF LookUpParcel, ScanInv, ScanShape
<1>2. CASE ask /\ known(list)
  <2>1. /\ ToTrack(p, list, Match[p]) /\ corrCauses' = [corrCauses EXCEPT !.guessed = guessed]
    BY <1>2 DEF LookUpParcel
  <2> HIDE DEF list, guessed
  <2>2. scanner' = [scanner EXCEPT !.pc = "track", !.todo = @ \ {p}, !.list = list, !.parcel = p,
                                   !.draft = Match[p], !.found = TRUE]
    BY <2>1 DEF ToTrack
  <2>3. corrCauses.guessed \subseteq guessed /\ Match[p] \in Order_ \cup {NoOrder}
    BY MatchIsTheirs DEF guessed
  <2>4. Rightly(corrCauses'.guessed, p, Match[p])
    <3>1. corrCauses'.guessed = guessed
      BY <2>1 DEF ScanInv, ScanShape
    <3>2. p \in guessed \/ Match[p] = NoOrder \/ Match[p] = Waybill[p].of
      BY MatchIsTheirs DEF guessed
    <3> QED  BY <3>1, <3>2 DEF Rightly
  <2> QED  BY <1>1, <2>1, <2>2, <2>3, <2>4, TakesUp
<1>3. CASE ~(ask /\ known(list))
  <2>1. /\ scanner' = [scanner EXCEPT !.pc = "file", !.todo = @ \ {p}, !.list = list,
                                 !.parcel = p, !.draft = LocalDraft(p), !.found = FALSE]
        /\ UNCHANGED corrCauses
    BY <1>3 DEF LookUpParcel
  <2>2. LocalDraft(p) \in Order_ \cup {NoOrder} /\ Rightly(corrCauses.guessed, p, LocalDraft(p))
    BY <1>1, LocalIsRight
  <2> DEFINE draft == LocalDraft(p)
  <2>3. scanner' = [scanner EXCEPT !.pc = "file", !.todo = @ \ {p}, !.list = list,
                                 !.parcel = p, !.draft = draft, !.found = FALSE]
        /\ draft \in Order_ \cup {NoOrder} /\ Rightly(corrCauses'.guessed, p, draft)
    BY <2>1, <2>2
  <2>4. corrCauses' = [corrCauses EXCEPT !.guessed = corrCauses.guessed]
    BY <2>1 DEF ScanInv, ScanShape
  <2> HIDE DEF list, draft
  <2> QED  BY <1>1, <2>3, <2>4, TakesUp
<1> QED  BY <1>2, <1>3
LEMMA LookUpHasFailed ==
    ASSUME ScanInv, NEW p \in Parcel, LookUpFails(p)
    PROVE  ScanInv'
<1> DEFINE list == IF Waybill[p].by # "inpost" /\ scanner.list = "unread" THEN "broken"
                   ELSE scanner.list
           none == NoOrder
           lost == FALSE
<1>1. /\ UNCHANGED <<tracked, told, link, corrScans, corrCauses>> /\ scanner.pc = "message"
  BY DEF LookUpFails
<1>2. corrFaults' \in 0..MaxCorrFaults
  <2>1. corrFaults < MaxCorrFaults /\ corrFaults' = corrFaults + 1
    BY DEF LookUpFails, CorrFault
  <2> QED  BY <2>1, CorrelationShape DEF ScanInv, ScanShape
<1>3. scanner' = [scanner EXCEPT !.pc = "file", !.todo = @ \ {p}, !.list = list, !.parcel = p,
                                 !.draft = none, !.found = lost]
  <2>1. scanner' = [scanner EXCEPT !.pc = "file", !.todo = @ \ {p}, !.parcel = p,
                      !.draft = NoOrder, !.found = FALSE,
                      !.list = IF Waybill[p].by # "inpost" /\ @ = "unread" THEN "broken" ELSE @]
    BY DEF LookUpFails
  <2> QED  BY <2>1 DEF ScanInv, ScanShape
<1>4. /\ none \in Order_ \cup {NoOrder} /\ Rightly(corrCauses'.guessed, p, none)
      /\ corrCauses' = [corrCauses EXCEPT !.guessed = corrCauses.guessed]
  BY <1>1 DEF Rightly, ScanInv, ScanShape
<1> HIDE DEF list, none, lost
<1> QED  BY <1>1, <1>2, <1>3, <1>4, TakesUp

\* The number of a draft that was without one is that of its own parcel.
LEMMA NumberIsWritten ==
    ASSUME ScanInv, WriteNumber
    PROVE  /\ ScanInv'
           /\ \A d \in Order_ : tracked[d] # NoParcel =>
                 tracked'[d] = tracked[d] \/ d \in corrCauses'.stale
<1> DEFINE d == scanner.draft
           p == scanner.parcel
<1>1. /\ UNCHANGED <<told, link, corrScans>> /\ scanner.pc = "track" /\ p \in Parcel
      /\ d \in Order_ \cup {NoOrder} /\ Rightly(corrCauses.guessed, p, d)
      /\ scanner.view \in [Order_ -> Parcel \cup {NoParcel}]
      /\ \A e \in Order_ : RightNumber(corrCauses.guessed, scanner.view[e], e)
  BY DEF WriteNumber, ScanInv, ScanIsRight
<1>2. CASE /\ d \in Order_ /\ NumberMissing(d) /\ UNCHANGED corrFaults
           /\ tracked' = [tracked EXCEPT ![d] = p]
           /\ scanner' = [scanner EXCEPT !.pc = "file", !.view[d] = p]
           /\ corrCauses' = [corrCauses EXCEPT !.stale =
                        IF tracked[d] \in {NoParcel, scanner.view[d]} THEN @ ELSE @ \cup {d}]
  <2>1. scanner' = [pc |-> "file", todo |-> scanner.todo, view |-> [scanner.view EXCEPT ![d] = p],
                    list |-> scanner.list, parcel |-> p, draft |-> d, found |-> scanner.found]
    BY <1>2 DEF ScanInv, ScanShape
  <2>2. /\ corrCauses'.guessed = corrCauses.guessed
        /\ corrCauses' = [guessed |-> corrCauses'.guessed, stale |-> corrCauses'.stale]
        /\ tracked[d] \notin {NoParcel, scanner.view[d]} => d \in corrCauses'.stale
    BY <1>2 DEF ScanInv, ScanShape
  <2>3. /\ scanner'.pc = "file" /\ scanner'.view = [scanner.view EXCEPT ![d] = p]
        /\ scanner'.parcel = p /\ scanner'.draft = d
    BY <2>1
  <2>4. ScanShape'
    BY <1>1, <1>2, <2>1, <2>2 DEF ScanInv, ScanShape
  <2>5. RightNumber(corrCauses.guessed, p, d)
    BY <1>1, <1>2, CorrelationShape DEF Rightly, RightNumber, NoOrder
  <2>6. \A e \in Order_ : /\ tracked'[e] = IF e = d THEN p ELSE tracked[e]
                          /\ scanner'.view[e] = IF e = d THEN p ELSE scanner.view[e]
    BY <1>1, <1>2, <2>3 DEF ScanInv, ScanShape
  <2>7. scanner'.view \in [Order_ -> Parcel \cup {NoParcel}]
    BY <1>1, <2>3
  <2>8. \A e \in Order_ : /\ RightNumber(corrCauses'.guessed, tracked'[e], e)
                          /\ RightNumber(corrCauses'.guessed, scanner'.view[e], e)
    BY <1>1, <2>2, <2>5, <2>6 DEF ScanInv, ScanIsRight
  <2>9. ScanIsRight'
    BY <1>1, <2>2, <2>3, <2>7, <2>8 DEF ScanInv, ScanIsRight
  <2>10. ASSUME NEW e \in Order_, tracked[e] # NoParcel
         PROVE  tracked'[e] = tracked[e] \/ e \in corrCauses'.stale
    BY <1>2, <2>2, <2>6, <2>10 DEF NumberMissing
  <2> QED  BY <2>4, <2>9, <2>10 DEF ScanInv
<1>3. CASE /\ scanner' = [scanner EXCEPT !.pc = "file"] /\ UNCHANGED <<tracked, corrCauses>>
           /\ corrFaults' \in 0..MaxCorrFaults
  <2>1. scanner' = [pc |-> "file", todo |-> scanner.todo, view |-> scanner.view,
                    list |-> scanner.list, parcel |-> p, draft |-> d, found |-> scanner.found]
    BY <1>3 DEF ScanInv, ScanShape
  <2>2. /\ scanner'.pc = "file" /\ scanner'.view = scanner.view
        /\ scanner'.parcel = p /\ scanner'.draft = d
    BY <2>1
  <2>3. ScanShape'
    BY <1>1, <1>3, <2>1 DEF ScanInv, ScanShape
  <2>4. ScanIsRight'
    BY <1>1, <1>3, <2>2 DEF ScanInv, ScanIsRight
  <2> QED  BY <1>3, <2>3, <2>4 DEF ScanInv
<1>4. \/ /\ d \in Order_ /\ NumberMissing(d) /\ UNCHANGED corrFaults
         /\ tracked' = [tracked EXCEPT ![d] = p]
         /\ scanner' = [scanner EXCEPT !.pc = "file", !.view[d] = p]
         /\ corrCauses' = [corrCauses EXCEPT !.stale =
                        IF tracked[d] \in {NoParcel, scanner.view[d]} THEN @ ELSE @ \cup {d}]
      \/ /\ scanner' = [scanner EXCEPT !.pc = "file"] /\ UNCHANGED <<tracked, corrCauses>>
         /\ corrFaults' \in 0..MaxCorrFaults
  <2>1. CorrFault \/ UNCHANGED corrFaults => corrFaults' \in 0..MaxCorrFaults
    BY CorrelationShape DEF CorrFault, ScanInv, ScanShape
  <2>2. CASE d # NoOrder /\ NumberMissing(d)
    BY <1>1, <2>1, <2>2 DEF WriteNumber
  <2>3. CASE ~(d # NoOrder /\ NumberMissing(d))
    BY <2>1, <2>3 DEF WriteNumber
  <2> QED  BY <2>2, <2>3
<1> QED  BY <1>2, <1>3, <1>4

LEMMA LinkIsFiled ==
    ASSUME ScanInv, FileLink
    PROVE  ScanInv'
<1> DEFINE d == scanner.draft
           p == scanner.parcel
<1>1. /\ UNCHANGED <<tracked, told, corrFaults, corrScans, corrCauses>> /\ scanner.pc = "file"
      /\ p \in Parcel /\ d \in Order_ \cup {NoOrder} /\ Rightly(corrCauses.guessed, p, d)
      /\ link' = [link EXCEPT ![p] = Linked_(link[p], d)]
      /\ scanner.view \in [Order_ -> Parcel \cup {NoParcel}]
      /\ \A e \in Order_ : RightNumber(corrCauses.guessed, scanner.view[e], e)
  BY DEF FileLink, ScanInv, ScanIsRight
<1>2. /\ link[p] \in [open : BOOLEAN, draft : Order_ \cup {NoOrder}]
  BY <1>1 DEF ScanInv, ScanShape
<1> DEFINE row == Linked_(link[p], d)
<1>3. /\ row \in [open : BOOLEAN, draft : Order_ \cup {NoOrder}]
      /\ row.open = TRUE /\ (row.draft = link[p].draft \/ row.draft = d)
  BY <1>1, <1>2, LinkedTo
<1> HIDE DEF row
<1>4. /\ link' \in [Parcel -> [open : BOOLEAN, draft : Order_ \cup {NoOrder}]]
      /\ link'[p] = row /\ \A q \in Parcel : q # p => link'[q] = link[q]
  BY <1>1, <1>3 DEF row, ScanInv, ScanShape
<1>5. Rightly(corrCauses.guessed, p, row.draft)
  BY <1>1, <1>3 DEF ScanInv, ScanIsRight
<1>6. \A q \in Parcel : /\ Rightly(corrCauses'.guessed, q, link'[q].draft)
                        /\ link'[q].draft # NoOrder => link'[q].open
  <2> TAKE q \in Parcel
  <2>1. CASE q = p
    <3>1. link'[q] = row /\ corrCauses'.guessed = corrCauses.guessed
      BY <1>1, <1>4, <2>1
    <3> QED  BY <1>3, <1>5, <2>1, <3>1
  <2>2. CASE q # p
    <3>1. link'[q] = link[q] /\ corrCauses'.guessed = corrCauses.guessed
      BY <1>1, <1>4, <2>2
    <3> QED  BY <3>1 DEF ScanInv, ScanIsRight
  <2> QED  BY <2>1, <2>2
<1>7. CASE scanner' = IdleScanner
  <2>1. ScanShape'
    BY <1>1, <1>4, <1>7 DEF ScanInv, ScanShape, IdleScanner
  <2>2. scanner'.pc = "idle"
    BY <1>7 DEF IdleScanner
  <2> QED  BY <1>1, <1>6, <2>1, <2>2 DEF ScanInv, ScanIsRight
<1>8. CASE scanner' = [scanner EXCEPT !.pc = "message", !.parcel = NoParcel,
                                      !.draft = NoOrder, !.found = FALSE]
  <2>1. scanner' = [pc |-> "message", todo |-> scanner.todo, view |-> scanner.view,
                    list |-> scanner.list, parcel |-> NoParcel, draft |-> NoOrder, found |-> FALSE]
    BY <1>8 DEF ScanInv, ScanShape
  <2>2. scanner'.pc = "message" /\ scanner'.view = scanner.view
    BY <2>1
  <2>3. ScanShape'
    BY <1>1, <1>4, <2>1 DEF ScanInv, ScanShape
  <2> QED  BY <1>1, <1>6, <2>2, <2>3 DEF ScanInv, ScanIsRight
<1> QED  BY <1>7, <1>8 DEF FileLink
LEMMA AllegroIsScanned ==
    ASSUME ScanInv, NEW d \in Order_, AllegroScan(d)
    PROVE  /\ ScanInv'
           /\ \A e \in Order_ : tracked[e] # NoParcel => tracked'[e] = tracked[e]
<1>1. UNCHANGED <<told, scanner, corrFaults, corrScans, corrCauses>>
      /\ corrCauses'.guessed = corrCauses.guessed
  BY DEF AllegroScan
<1>2. \A p \in Parcel : LET row == Linked_(link[p], d)
                        IN  /\ row \in [open : BOOLEAN, draft : Order_ \cup {NoOrder}]
                            /\ row.open = TRUE
                            /\ row.draft = link[p].draft \/ row.draft = d
  <2> TAKE p \in Parcel
  <2>1. link[p] \in [open : BOOLEAN, draft : Order_ \cup {NoOrder}]
    BY DEF ScanInv, ScanShape
  <2> QED  BY <2>1, LinkedTo
<1>3. ASSUME NEW p \in Parcel, p \in corrCauses.guessed \/ Waybill[p].of = d
      PROVE  /\ Rightly(corrCauses.guessed, p, Linked_(link[p], d).draft)
             /\ Linked_(link[p], d).open
  <2>1. Rightly(corrCauses.guessed, p, link[p].draft)
    BY DEF ScanInv, ScanIsRight
  <2>2. Rightly(corrCauses.guessed, p, d)
    BY <1>3 DEF Rightly
  <2>3. Linked_(link[p], d).draft = link[p].draft \/ Linked_(link[p], d).draft = d
    BY <1>2
  <2>4. Linked_(link[p], d).open = TRUE
    BY <1>2
  <2> QED  BY <2>1, <2>2, <2>3, <2>4
<1>4. PICK ps \in SUBSET {p \in Parcel : p \in corrCauses.guessed \/ Waybill[p].of = d} :
        /\ link' = [p \in Parcel |-> IF p \in ps THEN Linked_(link[p], d) ELSE link[p]]
        /\ \/ UNCHANGED tracked
           \/ /\ tracked[d] = NoParcel
              /\ \E last \in Parcel :
                    Waybill[last].of = d /\ tracked' = [tracked EXCEPT ![d] = last]
  <2>1. CASE tracked[d] = NoParcel
    <3>1. PICK ps \in SUBSET {p \in Parcel : Waybill[p].by = "allegro" /\ Waybill[p].of = d} :
            \E last \in ps :
               /\ tracked' = [tracked EXCEPT ![d] = last]
               /\ link' = [p \in Parcel |-> IF p \in ps THEN Linked_(link[p], d) ELSE link[p]]
      BY <2>1 DEF AllegroScan
    <3>2. ps \in SUBSET {p \in Parcel : p \in corrCauses.guessed \/ Waybill[p].of = d}
      OBVIOUS
    <3>3. \E last \in Parcel : Waybill[last].of = d /\ tracked' = [tracked EXCEPT ![d] = last]
      BY <3>1
    <3> QED  BY <2>1, <3>1, <3>2, <3>3
  <2>2. CASE tracked[d] # NoParcel
    <3> DEFINE p == tracked[d]
    <3>1. p \in Parcel /\ (p \in corrCauses.guessed \/ Waybill[p].of = d)
      BY <2>2 DEF ScanInv, ScanShape, ScanIsRight, RightNumber
    <3>2. UNCHANGED tracked /\ link' = [link EXCEPT ![p] = Linked_(link[p], d)]
      BY <2>2 DEF AllegroScan
    <3> HIDE DEF p
    <3>3. link' = [q \in Parcel |-> IF q \in {p} THEN Linked_(link[q], d) ELSE link[q]]
      BY <3>1, <3>2 DEF ScanInv, ScanShape
    <3> QED  BY <3>1, <3>2, <3>3
  <2> QED  BY <2>1, <2>2
<1>5. \A p \in Parcel : link'[p] = IF p \in ps THEN Linked_(link[p], d) ELSE link[p]
  BY <1>4
<1>6. link' \in [Parcel -> [open : BOOLEAN, draft : Order_ \cup {NoOrder}]]
  <2>1. \A p \in Parcel : (IF p \in ps THEN Linked_(link[p], d) ELSE link[p])
                            \in [open : BOOLEAN, draft : Order_ \cup {NoOrder}]
    BY <1>2 DEF ScanInv, ScanShape
  <2> QED  BY <1>4, <2>1
<1>7. \A p \in Parcel : /\ Rightly(corrCauses'.guessed, p, link'[p].draft)
                        /\ link'[p].draft # NoOrder => link'[p].open
  <2> TAKE p \in Parcel
  <2>1. CASE p \in ps
    <3>1. link'[p] = Linked_(link[p], d) /\ corrCauses'.guessed = corrCauses.guessed
      BY <1>1, <1>5, <2>1
    <3>2. p \in corrCauses.guessed \/ Waybill[p].of = d
      BY <2>1
    <3> QED  BY <1>3, <3>1, <3>2
  <2>2. CASE p \notin ps
    <3>1. link'[p] = link[p] /\ corrCauses'.guessed = corrCauses.guessed
      BY <1>1, <1>5, <2>2
    <3> QED  BY <3>1 DEF ScanInv, ScanIsRight
  <2> QED  BY <2>1, <2>2
<1>8. /\ tracked' \in [Order_ -> Parcel \cup {NoParcel}]
      /\ \A e \in Order_ : /\ RightNumber(corrCauses'.guessed, tracked'[e], e)
                           /\ tracked[e] # NoParcel => tracked'[e] = tracked[e]
  <2>1. CASE UNCHANGED tracked
    BY <1>1, <2>1 DEF ScanInv, ScanShape, ScanIsRight
  <2>2. CASE /\ tracked[d] = NoParcel
             /\ \E last \in Parcel : Waybill[last].of = d /\ tracked' = [tracked EXCEPT ![d] = last]
    <3>1. PICK last \in Parcel : Waybill[last].of = d /\ tracked' = [tracked EXCEPT ![d] = last]
      BY <2>2
    <3>2. /\ tracked' \in [Order_ -> Parcel \cup {NoParcel}]
          /\ \A e \in Order_ : tracked'[e] = IF e = d THEN last ELSE tracked[e]
      BY <3>1 DEF ScanInv, ScanShape
    <3>3. RightNumber(corrCauses.guessed, last, d)
      BY <3>1 DEF RightNumber
    <3> QED  BY <1>1, <2>2, <3>2, <3>3 DEF ScanInv, ScanIsRight
  <2> QED  BY <1>4, <2>1, <2>2
<1>9. ScanShape'
  BY <1>1, <1>6, <1>8 DEF ScanInv, ScanShape
<1>10. ScanIsRight'
  <2>1. scanner'.pc # "idle" =>
          /\ scanner'.view \in [Order_ -> Parcel \cup {NoParcel}]
          /\ \A e \in Order_ : RightNumber(corrCauses'.guessed, scanner'.view[e], e)
    BY <1>1 DEF ScanInv, ScanIsRight
  <2>2. scanner'.pc \in {"track", "file"} =>
          /\ scanner'.parcel \in Parcel /\ scanner'.draft \in Order_ \cup {NoOrder}
          /\ Rightly(corrCauses'.guessed, scanner'.parcel, scanner'.draft)
    BY <1>1 DEF ScanInv, ScanIsRight
  <2>3. \A e \in Order_ : RightNumber(corrCauses'.guessed, tracked'[e], e)
    BY <1>8
  <2> QED  BY <1>7, <2>1, <2>2, <2>3 DEF ScanIsRight
<1>11. \A e \in Order_ : tracked[e] # NoParcel => tracked'[e] = tracked[e]
  BY <1>8
<1> QED  BY <1>9, <1>10, <1>11 DEF ScanInv

\* The discovery shares with the scan of the mailbox only their count.
LEMMA ScanApart ==
    ASSUME ScanInv, UNCHANGED <<tracked, told, link, scanner, corrFaults, corrCauses>>,
           corrScans' \in 0..(MaxScans + MaxRounds)
    PROVE  ScanInv'
<1>1. ScanShape'
  BY DEF ScanInv, ScanShape
<1> QED  BY <1>1 DEF ScanInv, ScanIsRight

LEMMA CorrelationStep ==
    ASSUME ScanInv, CorrelationNext
    PROVE  /\ ScanInv'
           /\ \A d \in Order_ : tracked[d] # NoParcel =>
                 tracked'[d] = tracked[d] \/ d \in corrCauses'.stale
<1>1. ASSUME NEW p \in Parcel, Ordered(p)
      PROVE  ScanInv' /\ \A d \in Order_ : tracked[d] # NoParcel => tracked'[d] = tracked[d]
  <2>1. tracked[Waybill[p].of] = NoParcel /\ tracked' = [tracked EXCEPT ![Waybill[p].of] = p]
    BY <1>1 DEF Ordered
  <2> QED  BY <1>1, <2>1, NumberIsOrdered DEF ScanInv, ScanShape
<1>2. ASSUME NEW p \in Parcel, Notice_(p) \/ LookUpParcel(p) \/ LookUpFails(p)
      PROVE  ScanInv' /\ UNCHANGED tracked
  BY <1>2, NoticeComes, ParcelIsLookedUp, LookUpHasFailed DEF Notice_, LookUpParcel, LookUpFails
<1>3. CASE BeginCorrelation \/ FileLink
  BY <1>3, ScanBegins, LinkIsFiled DEF BeginCorrelation, FileLink
<1>4. CASE WriteNumber
  BY <1>4, NumberIsWritten
<1>5. ASSUME NEW d \in Order_, AllegroScan(d)
      PROVE  ScanInv' /\ \A e \in Order_ : tracked[e] # NoParcel => tracked'[e] = tracked[e]
  BY <1>5, AllegroIsScanned
<1> QED  BY <1>1, <1>2, <1>3, <1>4, <1>5 DEF CorrelationNext

LEMMA DiscoveryStep ==
    ASSUME DiscoveryInv, ScanInv, DiscoveryNext
    PROVE  DiscoveryInv' /\ ScanInv' /\ UNCHANGED tracked
<1>1. UNCHANGED <<tracked, told, link, scanner, corrFaults, corrCauses>>
      /\ (corrScans' = corrScans \/ (corrScans < MaxRounds /\ corrScans' = corrScans + 1))
  BY DEF DiscoveryNext, Arrives, Leaves, Discover, OnlyCorrelation
<1>2. corrScans' \in 0..(MaxScans + MaxRounds)
  BY <1>1, CorrelationShape DEF ScanInv, ScanShape
<1>3. DiscoveryInv'
  BY DraftArrives, DraftLeaves, RoundPasses, RoundFinds DEF DiscoveryNext
<1> QED  BY <1>1, <1>2, <1>3, ScanApart

LEMMA CorrelationInvIsEnough ==
    ASSUME ScanInv, DiscoveryInv
    PROVE  CorrelationTypeOK /\ ParcelsAreTheirOrders /\ AskedInTurn
<1>1. CorrelationTypeOK
  <2>1. /\ \A d \in Order_ : tracked[d] \in Parcel \cup {NoParcel}
        /\ told \subseteq Parcel /\ corrFaults \in 0..MaxCorrFaults
        /\ corrScans \in 0..(MaxScans + MaxRounds)
        /\ scanner.pc \in {"idle", "message", "track", "file"} /\ scanner.todo \subseteq told
    BY DEF ScanInv, ScanShape
  <2>2. \A p \in Parcel : /\ link[p].draft \in Order_ \cup {NoOrder}
                          /\ link[p].draft # NoOrder => link[p].open
    BY DEF ScanInv, ScanShape, ScanIsRight
  <2>3. backlog \subseteq 1..arrived /\ arrived \in 0..MaxBacklog /\ turn \in 0..MaxBacklog
    BY DEF DiscoveryInv, DiscoveryShape
  <2> QED  BY <2>1, <2>2, <2>3 DEF CorrelationTypeOK
<1>2. ParcelsAreTheirOrders
  BY DEF ScanInv, ScanIsRight, Rightly, RightNumber, ParcelsAreTheirOrders
<1> QED  BY <1>1, <1>2, NobodyStarves

(***************************************************************************)
(* THEOREM CorrelationHolds.  Whatever the mailbox, the couriers and       *)
(* Allegro tell, in any order and with any call failing, no case names     *)
(* another's order and no draft another's parcel but for one that was      *)
(* guessed between equals; no number is replaced unless it was written     *)
(* behind the scan; and no order without a number starves, whatever comes  *)
(* to the list and leaves it (damage_detection.py:213, :371, :620).        *)
(***************************************************************************)
THEOREM CorrelationHolds == CorrelationSpec => ParcelsFindOrders
<1> DEFINE Inv == ScanInv /\ DiscoveryInv
<1>1. CorrelationInit => Inv
  BY ScanFirst, DiscoveryFirst
<1>2. ASSUME Inv, [CorrelationNext \/ DiscoveryNext]_correlationVars
      PROVE  Inv' /\ [\A d \in Order_ : tracked[d] # NoParcel =>
                        tracked'[d] = tracked[d] \/ d \in corrCauses'.stale]_correlationVars
  <2>1. CASE CorrelationNext
    <3>1. UNCHANGED discoveryVars
      BY <2>1 DEF CorrelationNext, Ordered, Notice_, LookUpParcel, LookUpFails, AllegroScan,
                  BeginCorrelation, WriteNumber, FileLink
    <3> QED  BY <1>2, <2>1, <3>1, CorrelationStep, DiscoveryApart
  <2>2. CASE DiscoveryNext
    BY <1>2, <2>2, DiscoveryStep
  <2>3. CASE UNCHANGED correlationVars
    <3>1. UNCHANGED <<tracked, told, link, scanner, corrFaults, corrScans, corrCauses>>
          /\ UNCHANGED discoveryVars
      BY <2>3 DEF correlationVars, discoveryVars
    <3>2. corrScans' \in 0..(MaxScans + MaxRounds)
      BY <1>2, <3>1 DEF ScanInv, ScanShape
    <3> QED  BY <1>2, <2>3, <3>1, <3>2, ScanApart, DiscoveryApart
  <2> QED  BY <1>2, <2>1, <2>2, <2>3
<1>3. Inv => CorrelationTypeOK /\ ParcelsAreTheirOrders /\ AskedInTurn
  BY CorrelationInvIsEnough
<1> QED  BY <1>1, <1>2, <1>3, PTL DEF CorrelationSpec, ParcelsFindOrders, NumbersStay
=============================================================================
