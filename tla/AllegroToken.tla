------------------------------ MODULE AllegroToken ------------------------------
(***************************************************************************)
(* The OAuth token of Allegro, shared by every process that talks to it.   *)
(* Allegro takes a refresh token once and answers with a new pair; each    *)
(* client keeps the pair in memory and stores it as three secrets, written *)
(* one by one.  Secrets are read from the environment, then from a cached  *)
(* vault; where there is no vault they are lines of one encrypted file     *)
(* that every write reads, changes and replaces.                           *)
(***************************************************************************)
EXTENDS Naturals, Sequences, FiniteSets

CONSTANTS
    Client,         \* Allegro clients, one per request or per cycle
    Process,        \* processes of the system
    ProcessOf,      \* [Client -> Process]
    MaxGrants,      \* bound: pairs Allegro issues
    MaxTokenFaults  \* bound: failed writes, lost answers, restarts

Secret == {"access", "expiry", "refresh"}

\* a pair is named by its grant; an expiry by the grant it is the expiry of
Grant == 1..MaxGrants
NoGrant == 0
Known == Grant \cup {NoGrant}

ASSUME TokenShape ==
    /\ ProcessOf \in [Client -> Process]
    /\ MaxGrants \in Nat \ {0} /\ MaxTokenFaults \in Nat

TokenCause == {"lost_answer", "not_stored", "restarted", "overwritten"}

VARIABLES
    backend,      \* "vault" or "file", where secrets are kept
    kept,         \* [Secret -> what is kept there]
    env,          \* [Process -> [Secret -> ...]], written when storing failed
    cache,        \* [Process -> [Secret -> ...]], of the vault
    client,       \* [Client -> what it holds and does]
    grants,       \* pairs issued so far
    usable,       \* refresh tokens Allegro still takes
    aged, dead,   \* access tokens near their end, and past it
    tokenFaults, tokenCauses

allegroVars == <<grants, usable, aged, dead>>
secretVars == <<backend, kept, env, cache>>
tokenVars == <<backend, kept, env, cache, client, grants, usable, aged, dead,
               tokenFaults, tokenCauses>>

Nothing == [s \in Secret |-> NoGrant]
Gone == [pc |-> "gone", refresh |-> NoGrant, access |-> NoGrant,
         expiry |-> NoGrant, todo |-> << >>, lines |-> Nothing, torn |-> FALSE]

\* What the store, the environments and the caches hold is a grant Allegro
\* issued, or nothing, and every command is at a step of its own
\* (allegro.py:283).
TokenTypeOK ==
    /\ backend \in {"vault", "file"} /\ kept \in [Secret -> Known]
    /\ env \in [Process -> [Secret -> Known]]
    /\ cache \in [Process -> [Secret -> Known]]
    /\ \A c \in Client :
          /\ client[c].pc \in {"gone", "ready", "expiry", "fetch", "store",
                               "replace", "send"}
          /\ {client[c].refresh, client[c].access, client[c].expiry} \subseteq Known
          /\ client[c].todo \in Seq(Secret) /\ client[c].lines \in [Secret -> Known]
          /\ client[c].pc = "send" => client[c].access \in Grant
          /\ client[c].torn \in BOOLEAN
    /\ grants \in Known /\ usable \subseteq 1..grants
    /\ dead \subseteq aged /\ aged \subseteq 1..grants
    /\ tokenFaults \in 0..MaxTokenFaults /\ tokenCauses \subseteq TokenCause

\* the operator has authorised the application once; the refresh token alone
\* may have been brought from elsewhere
TokenInit ==
    /\ backend \in {"vault", "file"}
    /\ kept \in {[s \in Secret |-> 1], [Nothing EXCEPT !["refresh"] = 1]}
    /\ env = [p \in Process |-> Nothing] /\ cache = env
    /\ client = [c \in Client |-> Gone]
    /\ grants = 1 /\ usable = {1} /\ aged = {} /\ dead = {}
    /\ tokenFaults = 0 /\ tokenCauses = {}

TokenFault == tokenFaults < MaxTokenFaults /\ tokenFaults' = tokenFaults + 1
Blame(causes) == tokenCauses' = tokenCauses \cup causes
Holds(c, fields) ==
    client' = [client EXCEPT ![c] = [f \in DOMAIN @ |->
                  IF f \in DOMAIN fields THEN fields[f] ELSE @[f]]]

(***************************************************************************)
(* get_secret: the environment, then the file, then the vault's cache.     *)
(***************************************************************************)
Secrets(p, s) ==
    IF env[p][s] # NoGrant THEN env[p][s]
    ELSE IF backend = "vault" /\ cache[p][s] # NoGrant THEN cache[p][s]
    ELSE kept[s]

\* what was read from the vault is cached
Reads(p, s) ==
    cache' = IF backend = "vault" /\ env[p][s] = NoGrant
             THEN [cache EXCEPT ![p][s] = Secrets(p, s)] ELSE cache

-----------------------------------------------------------------------------
(***************************************************************************)
(* A client: built with the refresh token, it reads the stored access      *)
(* token on its first call.  The two parts of that are separate secrets.   *)
(***************************************************************************)
Build(c) ==
    LET p == ProcessOf[c] IN
    /\ client[c].pc = "gone" /\ Secrets(p, "refresh") # NoGrant
    /\ Holds(c, [pc |-> "ready", refresh |-> Secrets(p, "refresh")])
    /\ Reads(p, "refresh")
    /\ UNCHANGED <<backend, kept, env, allegroVars, tokenFaults, tokenCauses>>

Call(c) ==
    LET p == ProcessOf[c] IN
    /\ client[c].pc = "ready"
    /\ IF client[c].access = NoGrant
       THEN /\ Holds(c, [pc |-> "expiry", access |-> Secrets(p, "access")])
            /\ Reads(p, "access")
       ELSE /\ Holds(c, [pc |-> IF client[c].expiry \in aged
                                THEN "fetch" ELSE "send"])
            /\ UNCHANGED cache
    /\ UNCHANGED <<backend, kept, env, allegroVars, tokenFaults, tokenCauses>>

StillGood(c, x) == client[c].access # NoGrant /\ x # NoGrant /\ x \notin aged

LoadExpiry(c) ==
    LET p == ProcessOf[c]
        x == Secrets(p, "expiry") IN
    /\ client[c].pc = "expiry"
    /\ Holds(c, IF StillGood(c, x)
                THEN [pc |-> "send", expiry |-> x, torn |-> x # client[c].access]
                ELSE [pc |-> "fetch", access |-> NoGrant])
    /\ Reads(p, "expiry")
    /\ UNCHANGED <<backend, kept, env, allegroVars, tokenFaults, tokenCauses>>

(***************************************************************************)
(* _fetch_token: a refresh token that was used before is rejected; an      *)
(* answer may be lost on its way, with the token used up.                  *)
(***************************************************************************)
Refresh(c) ==
    /\ client[c].pc = "fetch" /\ client[c].refresh \in usable
    /\ grants < MaxGrants /\ grants' = grants + 1
    /\ usable' = (usable \ {client[c].refresh}) \cup {grants'}
    /\ Holds(c, [pc |-> "store", access |-> grants', expiry |-> grants',
                 refresh |-> grants', torn |-> FALSE,
                 todo |-> <<"access", "expiry", "refresh">>])
    /\ UNCHANGED <<secretVars, aged, dead, tokenFaults, tokenCauses>>

LoseAnswer(c) ==
    /\ client[c].pc = "fetch" /\ client[c].refresh \in usable /\ TokenFault
    /\ usable' = usable \ {client[c].refresh}
    /\ Holds(c, [pc |-> "ready"]) /\ Blame({"lost_answer"})
    /\ UNCHANGED <<secretVars, grants, aged, dead>>

Reject(c) ==
    /\ client[c].pc = "fetch" /\ client[c].refresh \notin usable
    /\ Holds(c, [pc |-> "ready"])
    /\ UNCHANGED <<secretVars, allegroVars, tokenFaults, tokenCauses>>

-----------------------------------------------------------------------------
(***************************************************************************)
(* set_secret, once per secret.  When nothing accepts the value it goes to *)
(* the environment of this process, which a later success does not undo.   *)
(***************************************************************************)
\* mutant: the refresh token is stored only where there is none yet
StoredOnce(c, s) ==
    IF s = "refresh" /\ kept[s] # NoGrant THEN kept[s] ELSE client[c][s]

Stored(c, s) == client[c][s]

Rest(c) ==
    [pc |-> IF Len(client[c].todo) = 1 THEN "send" ELSE "store",
     todo |-> Tail(client[c].todo)]

StoreInVault(c) ==
    LET s == Head(client[c].todo)
        p == ProcessOf[c] IN
    /\ client[c].pc = "store" /\ backend = "vault"
    /\ kept' = [kept EXCEPT ![s] = Stored(c, s)]
    /\ cache' = [cache EXCEPT ![p][s] = Stored(c, s)]
    /\ Holds(c, Rest(c))
    /\ UNCHANGED <<backend, env, allegroVars, tokenFaults, tokenCauses>>

\* the file is decrypted as a whole ...
Decrypt(c) ==
    /\ client[c].pc = "store" /\ backend = "file"
    /\ Holds(c, [pc |-> "replace", lines |-> kept])
    /\ UNCHANGED <<secretVars, allegroVars, tokenFaults, tokenCauses>>

\* ... and replaced as a whole, with the one line changed
Replace(c) ==
    LET s == Head(client[c].todo) IN
    /\ client[c].pc = "replace"
    /\ kept' = [client[c].lines EXCEPT ![s] = Stored(c, s)]
    /\ Holds(c, [pc |-> Rest(c).pc, todo |-> Rest(c).todo, lines |-> Nothing])
    /\ Blame(IF kept # client[c].lines THEN {"overwritten"} ELSE {})
    /\ UNCHANGED <<backend, env, cache, allegroVars, tokenFaults>>

NotStored(c) ==
    LET s == Head(client[c].todo)
        p == ProcessOf[c] IN
    /\ client[c].pc \in {"store", "replace"} /\ TokenFault
    /\ env' = [env EXCEPT ![p][s] = client[c][s]]
    /\ Holds(c, [pc |-> Rest(c).pc, todo |-> Rest(c).todo, lines |-> Nothing])
    /\ Blame({"not_stored"})
    /\ UNCHANGED <<backend, kept, cache, allegroVars>>

\* the request itself; a 401 is the caller's error and refreshes nothing
Send(c) ==
    /\ client[c].pc = "send"
    /\ Holds(c, [pc |-> "ready"])
    /\ UNCHANGED <<secretVars, allegroVars, tokenFaults, tokenCauses>>

Discard(c) ==
    /\ client[c].pc = "ready" /\ client' = [client EXCEPT ![c] = Gone]
    /\ UNCHANGED <<secretVars, allegroVars, tokenFaults, tokenCauses>>

-----------------------------------------------------------------------------
(***************************************************************************)
(* The operator authorises again (allegro-auth, a process of its own, its  *)
(* writes in a row); external: time passes and tokens end; the vault's     *)
(* cache lapses; a process is restarted.                                   *)
(***************************************************************************)
Authorise ==
    /\ grants < MaxGrants /\ usable \cap {kept["refresh"]} = {}
    /\ grants' = grants + 1 /\ usable' = usable \cup {grants'}
    /\ kept' = [s \in Secret |-> grants']
    /\ UNCHANGED <<backend, env, cache, client, aged, dead, tokenFaults,
                   tokenCauses>>

Age(g) ==
    /\ g \in 1..grants \ aged /\ aged' = aged \cup {g}
    /\ UNCHANGED <<secretVars, client, grants, usable, dead, tokenFaults,
                   tokenCauses>>

\* minutes after a client takes it for ended; a call takes seconds
Die(g) ==
    /\ g \in aged \ dead /\ dead' = dead \cup {g}
    /\ \A c \in Client : client[c].pc \in {"gone", "ready"}
    /\ UNCHANGED <<secretVars, client, grants, usable, aged, tokenFaults,
                   tokenCauses>>

Lapse(p) ==
    /\ cache[p] # Nothing /\ cache' = [cache EXCEPT ![p] = Nothing]
    /\ UNCHANGED <<backend, kept, env, client, allegroVars, tokenFaults,
                   tokenCauses>>

RestartProcess(p) ==
    /\ TokenFault
    /\ env' = [env EXCEPT ![p] = Nothing]
    /\ cache' = [cache EXCEPT ![p] = Nothing]
    /\ client' = [c \in Client |-> IF ProcessOf[c] = p THEN Gone ELSE client[c]]
    /\ Blame(IF \E c \in Client : ProcessOf[c] = p /\ client[c].todo # << >>
             THEN {"restarted"} ELSE {})
    /\ UNCHANGED <<backend, kept, allegroVars>>

TokenNext ==
    \/ \E c \in Client :
          \/ Build(c) \/ Call(c) \/ LoadExpiry(c) \/ Refresh(c) \/ LoseAnswer(c)
          \/ Reject(c) \/ StoreInVault(c) \/ Decrypt(c) \/ Replace(c)
          \/ NotStored(c) \/ Send(c) \/ Discard(c)
    \/ Authorise
    \/ \E g \in Grant : Age(g) \/ Die(g)
    \/ \E p \in Process : Lapse(p) \/ RestartProcess(p)

TokenSpec == TokenInit /\ [][TokenNext]_tokenVars

-----------------------------------------------------------------------------
DespiteToken(causes) == tokenCauses \cap causes # {}

(***************************************************************************)
(* The refresh token that is kept is one Allegro takes, unless a client is *)
(* about to store a newer one: two clients that race for the same token,   *)
(* in one process or in two, never leave a used one behind                 *)
(* (allegro.py:283).                                                       *)
(***************************************************************************)
RotatedIsKept ==
    \/ DespiteToken({"lost_answer", "not_stored", "restarted", "overwritten"})
    \/ \E c \in Client : client[c].todo # << >>
    \/ kept["refresh"] \in usable

(***************************************************************************)
(* A request is sent with an access token that has not ended, although the *)
(* token and its expiry are separate secrets that another process may      *)
(* replace between the two reads: only a client that read one of each pair *)
(* is caught (allegro.py:309).                                             *)
(***************************************************************************)
SentIsAlive ==
    \A c \in Client : client[c].pc = "send" /\ ~client[c].torn
                         => client[c].access \notin dead

(***************************************************************************)
(* The tokens the system keeps and sends are good, although several        *)
(* processes rotate them (allegro.py:283).                                 *)
(***************************************************************************)
TokenIsGood == TokenTypeOK /\ RotatedIsKept /\ SentIsAlive
=============================================================================
