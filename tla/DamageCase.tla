------------------------------- MODULE DamageCase -------------------------------
(***************************************************************************)
(* A damaged parcel: scans of the mailbox open its case and collect the    *)
(* evidence, operators confirm it, prepare and ship a replacement, mail    *)
(* the customer and close it.  Every operation reads the case, decides,    *)
(* and writes without a condition; only the claim of the mail is atomic.   *)
(***************************************************************************)
EXTENDS Naturals, FiniteSets

CONSTANTS
    Operator,         \* requests and scans running at one time
    Notice,           \* mails of the carrier about the parcel
    MaxMoves,         \* bound: operations begun
    MaxDays,          \* bound: days
    MaxDamageFaults   \* bound: failed calls and crashes

ASSUME DamageShape ==
    MaxMoves \in Nat /\ MaxDays \in Nat /\ MaxDamageFaults \in Nat

\* replacement drafts, in the order they are made
Replacement == 1..2
NoDraft == 0
NotYet == MaxDays + 1

DamageCause == {"opened_twice", "prepared_twice", "reset", "misjudged",
                "settled_early"}

CaseStatus == {"needs_review", "approved", "ignored", "replacement_prepared",
               "replacement_pending", "replacement_created",
               "customer_notified", "closed"}

VARIABLES
    case,       \* the stored case
    parcel,     \* [Replacement -> [status, shipped]], the replacement drafts
    mailed,     \* drafts the customer was told of, at most two
    received,   \* [Notice -> the day it came]
    indexed,    \* notices a search finds
    today, cursor,
    operator,   \* [Operator -> what it does and what it read]
    moves, damageFaults, damageCauses

mailboxVars == <<received, indexed, today, cursor>>
damageVars == <<case, parcel, mailed, received, indexed, today, cursor,
                operator, moves, damageFaults, damageCauses>>

NoCase == [open |-> FALSE, status |-> "needs_review", draft |-> NoDraft,
           letter |-> NoDraft, attempt |-> "none", sent |-> FALSE,
           prints |-> {}, evidence |-> [n \in Notice |-> 0]]
Free == [op |-> "none", pc |-> "idle", seen |-> NoCase, status |-> "none",
         made |-> NoDraft, todo |-> {}]

Op == {"scan", "confirm", "ignore", "close", "prepare", "create",
       "confirm_parcel", "letter", "send", "resolve"}

\* The case has a status of the workflow, its drafts are replacements, and
\* its letter is an attempt of send_attempt.py
\* (damage/application/workflow.py).
DamageTypeOK ==
    /\ case.status \in CaseStatus /\ case.open \in BOOLEAN
    /\ {case.draft, case.letter} \subseteq Replacement \cup {NoDraft}
    /\ case.attempt \in {"none", "pending", "unknown", "failed", "confirmed"}
    /\ case.sent \in BOOLEAN
    /\ case.prints \subseteq Notice /\ case.evidence \in [Notice -> 0..2]
    /\ case.status \in {"replacement_prepared", "replacement_pending",
                        "replacement_created"}
          => case.draft # NoDraft \/ "opened_twice" \in damageCauses
    /\ \A d \in Replacement :
          /\ parcel[d].status \in {"none", "needs_review", "pending", "executing",
                                   "pending_confirmation", "created", "error"}
          /\ parcel[d].shipped \in 0..2
    /\ mailed \in [Replacement -> 0..2]
    /\ received \in [Notice -> 0..NotYet] /\ indexed \subseteq Notice
    /\ today \in 0..MaxDays /\ cursor \in 0..MaxDays
    /\ \A o \in Operator : operator[o].op \in Op \cup {"none"}
    /\ moves \in 0..MaxMoves /\ damageFaults \in 0..MaxDamageFaults
    /\ damageCauses \subseteq DamageCause

DamageInit ==
    /\ case = NoCase
    /\ parcel = [d \in Replacement |-> [status |-> "none", shipped |-> 0]]
    /\ mailed = [d \in Replacement |-> 0]
    /\ received = [n \in Notice |-> NotYet] /\ indexed = {}
    /\ today = 0 /\ cursor = 0
    /\ operator = [o \in Operator |-> Free]
    /\ moves = 0 /\ damageFaults = 0 /\ damageCauses = {}

DamageFault == damageFaults < MaxDamageFaults /\ damageFaults' = damageFaults + 1
Owing(causes) == damageCauses' = damageCauses \cup causes
At(o, pc) == operator[o].pc = pc
Turn(o, pc) == operator' = [operator EXCEPT ![o].pc = pc]
Free_(o) == operator' = [operator EXCEPT ![o] = Free]
Save(fields) ==
    case' = [f \in DOMAIN case |-> IF f \in DOMAIN fields THEN fields[f] ELSE case[f]]
Seen(o) == operator[o].seen

-----------------------------------------------------------------------------
(***************************************************************************)
(* The mailbox, external: a notice comes, and a search finds it within a   *)
(* day.                                                                    *)
(***************************************************************************)
Receive(n) ==
    /\ received[n] = NotYet /\ received' = [received EXCEPT ![n] = today]
    /\ UNCHANGED <<case, parcel, mailed, indexed, today, cursor, operator,
                   moves, damageFaults, damageCauses>>

Index(n) ==
    /\ received[n] # NotYet /\ n \notin indexed /\ indexed' = indexed \cup {n}
    /\ UNCHANGED <<case, parcel, mailed, received, today, cursor, operator,
                   moves, damageFaults, damageCauses>>

Day ==
    /\ today < MaxDays /\ today' = today + 1
    /\ \A n \in Notice \ indexed : received[n] \in {today, NotYet}
    /\ \A o \in Operator : operator[o].op # "scan"
    /\ UNCHANGED <<case, parcel, mailed, received, indexed, cursor, operator,
                   moves, damageFaults, damageCauses>>

-----------------------------------------------------------------------------

Since == IF cursor = 0 THEN 0 ELSE cursor - 1

Begin_(o, op, pc, fields) ==
    /\ operator[o].op = "none" /\ moves < MaxMoves /\ moves' = moves + 1
    /\ operator' = [operator EXCEPT ![o] = [f \in DOMAIN Free |->
                       IF f = "op" THEN op ELSE IF f = "pc" THEN pc
                       ELSE IF f = "seen" THEN case
                       ELSE IF f \in DOMAIN fields THEN fields[f] ELSE Free[f]]]
    /\ UNCHANGED <<case, parcel, mailed, mailboxVars, damageFaults, damageCauses>>

Scan(o) ==
    Begin_(o, "scan", "look",
           [todo |-> {n \in indexed : received[n] >= Since}])

LookUp(o) ==
    /\ At(o, "look") /\ operator[o].todo # {}
    /\ operator' = [operator EXCEPT ![o].pc = "file", ![o].seen = case]
    /\ UNCHANGED <<case, parcel, mailed, mailboxVars, moves, damageFaults,
                   damageCauses>>

\* mutant: a notice that was seen is evidence once more
FreshAlways(o, n) == TRUE

Fresh(o, n) == n \notin Seen(o).prints

\* a case that was not there is written as a new one, over any that is
FileNotice(o) ==
    /\ At(o, "file")
    /\ \E n \in operator[o].todo :
          /\ IF Seen(o).open
             THEN Save([prints |-> Seen(o).prints \cup {n},
                        evidence |-> IF Fresh(o, n)
                            THEN [Seen(o).evidence EXCEPT ![n] = IF @ < 2 THEN @ + 1 ELSE @]
                            ELSE Seen(o).evidence])
             ELSE case' = [NoCase EXCEPT !.open = TRUE, !.prints = {n},
                                         !.evidence[n] = 1]
          /\ operator' = [operator EXCEPT ![o].pc = "look", ![o].todo = @ \ {n},
                                          ![o].seen = NoCase]
    /\ Owing(IF case.open # Seen(o).open \/ case.prints # Seen(o).prints
             THEN {"opened_twice"} ELSE {})
    /\ UNCHANGED <<parcel, mailed, mailboxVars, moves, damageFaults>>

EndScan(o) ==
    /\ At(o, "look") /\ operator[o].todo = {}
    /\ cursor' = today /\ Free_(o)
    /\ UNCHANGED <<case, parcel, mailed, received, indexed, today, moves,
                   damageFaults, damageCauses>>

-----------------------------------------------------------------------------
(***************************************************************************)
(* The operator's decisions: the case that was read decides.               *)
(***************************************************************************)
STARTED == {"replacement_created", "customer_notified", "closed"}
CLOSEABLE == {"replacement_created", "customer_notified"}

Decide(o) ==
    /\ case.open
    /\ \/ case.status = "needs_review" /\ Begin_(o, "confirm", "decide", << >>)
       \/ case.status \notin STARTED /\ Begin_(o, "ignore", "decide", << >>)
       \/ case.status \in CLOSEABLE /\ Begin_(o, "close", "decide", << >>)

Decided(o) ==
    /\ At(o, "decide")
    /\ Save([status |-> CASE operator[o].op = "confirm" -> "approved"
                          [] operator[o].op = "ignore" -> "ignored"
                          [] operator[o].op = "close" -> "closed"])
    /\ Free_(o)
    /\ UNCHANGED <<parcel, mailed, mailboxVars, moves, damageFaults, damageCauses>>

-----------------------------------------------------------------------------

Preparable == case.draft = NoDraft /\ case.status = "approved"

Prepare(o) == case.open /\ Preparable /\ Begin_(o, "prepare", "clone", << >>)

Clone(o) ==
    /\ At(o, "clone")
    /\ \E d \in Replacement :
          /\ parcel[d].status = "none"
          /\ \A e \in Replacement : e < d => parcel[e].status # "none"
          /\ parcel' = [parcel EXCEPT ![d].status = "needs_review"]
          /\ operator' = [operator EXCEPT ![o].pc = "prepared", ![o].made = d]
    /\ UNCHANGED <<case, mailed, mailboxVars, moves, damageFaults, damageCauses>>

Prepared(o) ==
    /\ At(o, "prepared")
    /\ Save([status |-> "replacement_prepared", draft |-> operator[o].made])
    /\ Owing(IF case.draft # Seen(o).draft THEN {"prepared_twice"} ELSE {})
    /\ Free_(o)
    /\ UNCHANGED <<parcel, mailed, mailboxVars, moves, damageFaults>>

\* create_replacement reads the case and then the draft
CreateParcel(o) ==
    /\ case.open /\ case.draft # NoDraft
    /\ LET status == parcel[case.draft].status IN
       Begin_(o, "create", CASE status = "created" -> "record"
                             [] status = "needs_review" -> "unreview"
                             [] OTHER -> "claim", [status |-> status])

\* whatever has become of the draft since
Unreview(o) ==
    LET d == Seen(o).draft IN
    /\ At(o, "unreview")
    /\ parcel' = [parcel EXCEPT ![d].status = "pending"]
    /\ Owing(IF parcel[d].status # "needs_review" THEN {"reset"} ELSE {})
    /\ Turn(o, "claim")
    /\ UNCHANGED <<case, mailed, mailboxVars, moves, damageFaults>>

\* the executor (DraftActions): an atomic claim, then one parcel, which may
\* need confirming; one that has its label is not ordered again
ClaimParcel(o) ==
    LET d == Seen(o).draft IN
    /\ At(o, "claim")
    /\ IF parcel[d].status \in {"pending", "error", "pending_confirmation"}
       THEN /\ operator' = [operator EXCEPT ![o].pc = "ship",
                                ![o].status = IF parcel[d].shipped = 0
                                              THEN "unlabelled" ELSE "labelled"]
            /\ parcel' = [parcel EXCEPT ![d].status = "executing"]
       ELSE Free_(o) /\ UNCHANGED parcel
    /\ UNCHANGED <<case, mailed, mailboxVars, moves, damageFaults, damageCauses>>

Ship(o) ==
    LET d == Seen(o).draft
        more == IF operator[o].status = "unlabelled" THEN 1 ELSE 0 IN
    /\ At(o, "ship")
    /\ \/ /\ \E status \in {"created", "pending_confirmation"} :
                /\ parcel' = [parcel EXCEPT ![d].status = status,
                       ![d].shipped = IF @ < 2 THEN @ + more ELSE @]
                /\ operator' = [operator EXCEPT ![o].pc = "record",
                                                ![o].status = status]
          /\ UNCHANGED damageFaults
       \/ /\ DamageFault /\ Free_(o)
          /\ parcel' = [parcel EXCEPT ![d].status = "error"]
    /\ UNCHANGED <<case, mailed, mailboxVars, moves, damageCauses>>

ConfirmParcel(o) ==
    /\ case.open /\ case.draft # NoDraft
    /\ parcel[case.draft].status = "pending_confirmation"
    /\ Begin_(o, "confirm_parcel", "shipped", << >>)

ConfirmShipped(o) ==
    LET d == Seen(o).draft IN
    /\ At(o, "shipped")
    /\ \E status \in {"created", "pending_confirmation"} :
          /\ parcel' = [parcel EXCEPT ![d].status = status]
          /\ operator' = [operator EXCEPT ![o].pc = "record", ![o].status = status]
    /\ UNCHANGED <<case, mailed, mailboxVars, moves, damageFaults, damageCauses>>

\* _record_shipment
Record(o) ==
    /\ At(o, "record")
    /\ Save([status |-> IF operator[o].status = "created"
                        THEN "replacement_created" ELSE "replacement_pending"])
    /\ Free_(o)
    /\ UNCHANGED <<parcel, mailed, mailboxVars, moves, damageFaults, damageCauses>>

-----------------------------------------------------------------------------

LetterReady == case.draft # NoDraft /\ parcel[case.draft].status = "created"

WriteLetter(o) ==
    /\ case.open /\ LetterReady /\ Begin_(o, "letter", "letter", << >>)

SaveLetter(o) ==
    /\ At(o, "letter") /\ Save([letter |-> Seen(o).draft]) /\ Free_(o)
    /\ UNCHANGED <<parcel, mailed, mailboxVars, moves, damageFaults, damageCauses>>

\* may_send
MaySend(attempt) == attempt \in {"none", "failed"}

SendLetter(o) ==
    /\ case.open /\ case.letter # NoDraft /\ ~case.sent /\ MaySend(case.attempt)
    /\ Begin_(o, "send", "claim_mail", << >>)

\* try_claim_email: decided again on the record it replaces
ClaimMail(o) ==
    /\ At(o, "claim_mail")
    /\ IF ~case.sent /\ MaySend(case.attempt)
       THEN Save([attempt |-> "pending"]) /\ Turn(o, "smtp")
       ELSE Free_(o) /\ UNCHANGED case
    /\ UNCHANGED <<parcel, mailed, mailboxVars, moves, damageFaults, damageCauses>>

\* accepted; refused; or nobody knows
Smtp(o) ==
    LET told == [mailed EXCEPT ![Seen(o).letter] = IF @ < 2 THEN @ + 1 ELSE @] IN
    /\ At(o, "smtp")
    /\ \/ mailed' = told /\ Turn(o, "accepted") /\ UNCHANGED damageFaults
       \/ UNCHANGED mailed /\ Turn(o, "refused") /\ DamageFault
       \/ mailed' \in {mailed, told} /\ Turn(o, "unanswered") /\ DamageFault
    /\ UNCHANGED <<case, parcel, mailboxVars, moves, damageCauses>>

Settle(o) ==
    /\ \/ At(o, "accepted") /\ Save([status |-> "customer_notified", sent |-> TRUE,
                                     attempt |-> "confirmed"])
       \/ At(o, "refused") /\ Save([attempt |-> "failed"])
       \/ At(o, "unanswered") /\ Save([attempt |-> "pending"])
    /\ Free_(o)
    /\ UNCHANGED <<parcel, mailed, mailboxVars, moves, damageFaults, damageCauses>>

\* classify: an attempt is unknown after a while, also one still on its way
AgeAttempt ==
    /\ case.attempt = "pending" /\ Save([attempt |-> "unknown"])
    /\ UNCHANGED <<parcel, mailed, mailboxVars, operator, moves, damageFaults,
                   damageCauses>>

\* the operator looked into the outbox, and may have been wrong, or earlier
\* than the sender, who has yet to write down that it was refused
ResolveAttempt(o) ==
    /\ case.open /\ case.attempt \in {"pending", "unknown"}
    /\ \E delivered \in BOOLEAN :
          Begin_(o, "resolve", "resolved",
                 [status |-> IF delivered THEN "delivered" ELSE "failed"])

Resolved(o) ==
    LET delivered == operator[o].status = "delivered" IN
    /\ At(o, "resolved")
    /\ IF delivered
       THEN Save([attempt |-> "confirmed", sent |-> TRUE,
                  status |-> "customer_notified"])
       ELSE Save([attempt |-> "failed"])
    /\ Owing(IF delivered THEN {} ELSE
                (IF (\E d \in Replacement : mailed[d] > 0)
                       \/ \E p \in Operator : At(p, "smtp")
                 THEN {"misjudged"} ELSE {})
                \cup (IF \E p \in Operator : At(p, "refused")
                      THEN {"settled_early"} ELSE {}))
    /\ Free_(o)
    /\ UNCHANGED <<parcel, mailed, mailboxVars, moves, damageFaults>>

-----------------------------------------------------------------------------
\* a request or a scan ends where it is: an exception or a restart
Drop(o) ==
    /\ operator[o].op # "none" /\ DamageFault /\ Free_(o)
    /\ UNCHANGED <<case, parcel, mailed, mailboxVars, moves, damageCauses>>

Mailbox == Day \/ (\E n \in Notice : Receive(n) \/ Index(n))

DamageNext ==
    \/ Mailbox \/ AgeAttempt
    \/ \E o \in Operator :
          \/ Scan(o) \/ LookUp(o) \/ FileNotice(o) \/ EndScan(o)
          \/ Decide(o) \/ Decided(o)
          \/ Prepare(o) \/ Clone(o) \/ Prepared(o)
          \/ CreateParcel(o) \/ Unreview(o) \/ ClaimParcel(o) \/ Ship(o)
          \/ ConfirmParcel(o) \/ ConfirmShipped(o) \/ Record(o)
          \/ WriteLetter(o) \/ SaveLetter(o) \/ SendLetter(o) \/ ClaimMail(o)
          \/ Smtp(o) \/ Settle(o) \/ ResolveAttempt(o) \/ Resolved(o) \/ Drop(o)

DamageSpec == DamageInit /\ [][DamageNext]_damageVars

-----------------------------------------------------------------------------
DespiteDamage(causes) == damageCauses \cap causes # {}
Mails == mailed[1] + mailed[2]

(***************************************************************************)
(* The customer is mailed once, through lost answers, crashes and retries, *)
(* unless the operator took a mail that had gone out for one that had not, *)
(* or settled one whose sender then writes its refusal over the attempt    *)
(* that came after it (damage/application/workflow.py:337, :360).          *)
(***************************************************************************)
OneLetter ==
    DespiteDamage({"misjudged", "settled_early", "opened_twice"}) \/ Mails <= 1

(***************************************************************************)
(* The mail names a parcel that was shipped (workflow.py:263).             *)
(***************************************************************************)
LetterNamesParcel ==
    \A d \in Replacement : mailed[d] > 0 => parcel[d].shipped > 0

(***************************************************************************)
(* One replacement is shipped, unless two requests prepared one each or    *)
(* one of them put a draft that was being shipped back to pending          *)
(* (workflow.py:217).                                                      *)
(***************************************************************************)
OneReplacement ==
    \/ DespiteDamage({"opened_twice", "prepared_twice", "reset"})
    \/ parcel[1].shipped + parcel[2].shipped <= 1

(***************************************************************************)
(* Each notice is on file once, although scans overlap and see it again    *)
(* (damage_detection.py:269).                                              *)
(***************************************************************************)
EvidenceOnce == \A n \in Notice : case.evidence[n] <= 1

(***************************************************************************)
(* A notice that later scans no longer look at is on file, however late    *)
(* the search found it and whatever became of the scans before             *)
(* (damage_detection.py:664).                                              *)
(***************************************************************************)
NoticesAreFiled ==
    \/ DespiteDamage({"opened_twice"})
    \/ \A n \in Notice : received[n] # NotYet /\ received[n] < Since
                            => n \in case.prints

(***************************************************************************)
(* A damaged parcel is settled once: one replacement, one letter and that  *)
(* of a parcel shipped, every notice on file once and none overlooked      *)
(* (damage/application/workflow.py:183, damage_detection.py:664).          *)
(***************************************************************************)
SettledOnce ==
    /\ DamageTypeOK /\ OneLetter /\ LetterNamesParcel /\ OneReplacement
    /\ EvidenceOnce /\ NoticesAreFiled
=============================================================================
