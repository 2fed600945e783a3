------------------------------- MODULE Invoicing --------------------------------
(***************************************************************************)
(* The invoice of an Allegro order: created in Fakturownia, completed with *)
(* the deposit, marked as paid, declared at Allegro and uploaded there.    *)
(* An operator asks for it, the order poller makes it and tries again, and *)
(* a patcher adds the deposit to invoices made elsewhere.  All of them     *)
(* work on the same draft, whose slot is claimed without a condition.      *)
(***************************************************************************)
EXTENDS Integers, FiniteSets

CONSTANTS
    Worker,           \* who may work on invoices at one time
    MaxAttempts,      \* automatic attempts (_MAX_AUTOMATIC_INVOICE_ATTEMPTS)
    MaxJobs,          \* bound: requests and poll and patch cycles
    MaxInvoiceFaults  \* bound: failed calls, lost answers, crashes

ASSUME InvoicingShape ==
    MaxAttempts \in Nat /\ MaxJobs \in Nat /\ MaxInvoiceFaults \in Nat

InvoiceCause == {"raced", "crashed"}

\* a slot is empty, claimed, or holds the id of the invoice
Held == {"none", "pending", "invoice"}

VARIABLES
    slot,       \* the draft: [held, error, attempts, cancelled]
    invoice,    \* in Fakturownia: [exists, deposits, paid]
    declared,   \* declarations at Allegro, at most two, and those with a file
    worker,     \* [Worker -> [job, pc, seen, resuming, rows]]
    jobs, invoiceFaults, invoiceCauses

invoiceVars == <<slot, invoice, declared, worker, jobs, invoiceFaults,
                 invoiceCauses>>

Waiting == [job |-> "none", pc |-> "idle",
            seen |-> [held |-> "none", error |-> FALSE, attempts |-> 0],
            resuming |-> FALSE, rows |-> 0]

\* The draft's invoice field, Fakturownia's documents and the positions of
\* the two jobs keep their types; a claim is without an error
\* (routers/shipping/invoices.py:197).
InvoicingTypeOK ==
    /\ slot \in [held : Held, error : BOOLEAN, attempts : 0..MaxAttempts,
                 cancelled : BOOLEAN]
    /\ slot.held = "pending" => ~slot.error
    /\ invoice \in [exists : BOOLEAN, deposits : 0..2, paid : -1..2]
    /\ declared \in [number : 0..2, files : SUBSET (1..2)]
    /\ \A w \in Worker :
          /\ worker[w].job \in {"none", "request", "poll", "patch"}
          /\ worker[w].pc \in {"idle", "claim", "order", "lookup", "create",
                               "row", "put", "pay", "list", "declare", "upload"}
          /\ worker[w].seen \in [held : Held, error : BOOLEAN,
                                attempts : 0..MaxAttempts]
          /\ worker[w].resuming \in BOOLEAN /\ worker[w].rows \in 0..2
    /\ jobs \in 0..MaxJobs /\ invoiceFaults \in 0..MaxInvoiceFaults
    /\ invoiceCauses \subseteq InvoiceCause

\* paid: how many deposits the payment covers, -1 before there is a payment
Unpaid == -1
NoInvoice == [exists |-> FALSE, deposits |-> 0, paid |-> Unpaid]

\* no invoice yet, or one made by hand and declared without its deposit
InvoicingInit ==
    /\ slot = [held |-> "none", error |-> FALSE, attempts |-> 0,
               cancelled |-> FALSE]
    /\ \/ invoice = NoInvoice /\ declared = [number |-> 0, files |-> {}]
       \/ /\ invoice = [NoInvoice EXCEPT !.exists = TRUE, !.paid = 0]
          /\ declared = [number |-> 1, files |-> {1}]
    /\ worker = [w \in Worker |-> Waiting]
    /\ jobs = 0 /\ invoiceFaults = 0 /\ invoiceCauses = {}

InvoiceFault == invoiceFaults < MaxInvoiceFaults /\ invoiceFaults' = invoiceFaults + 1
Step(w, pc) == worker' = [worker EXCEPT ![w].pc = pc]
Others(w) == {v \in Worker \ {w} : worker[v].job # "none"}
providerVars == <<invoice, declared>>
accountVars == <<jobs, invoiceFaults, invoiceCauses>>

-----------------------------------------------------------------------------
(***************************************************************************)
(* Who starts: the operator's request looks at the draft and is refused    *)
(* when there is an invoice or another request; the poller takes an        *)
(* unfinished one up to three times; the patcher looks at what is declared.*)
(***************************************************************************)
Begin(w, job, pc) ==
    /\ worker[w].job = "none" /\ jobs < MaxJobs /\ jobs' = jobs + 1
    /\ worker' = [worker EXCEPT ![w] = [Waiting EXCEPT !.job = job, !.pc = pc,
                     !.seen = [held |-> slot.held, error |-> slot.error,
                               attempts |-> slot.attempts]]]
    /\ invoiceCauses' = invoiceCauses \cup (IF Others(w) # {} THEN {"raced"} ELSE {})
    /\ UNCHANGED <<slot, providerVars, invoiceFaults>>

Request(w) ==
    /\ slot.held = "none" \/ slot.error
    /\ Begin(w, "request", "claim")

\* _needs_automatic_invoice_retry
Retry ==
    /\ ~slot.cancelled /\ slot.held # "pending"
    /\ slot.held = "none" \/ slot.error
    /\ slot.attempts < MaxAttempts

Poll(w) == Retry /\ Begin(w, "poll", "lookup")

Patch(w) == declared.number > 0 /\ invoice.deposits = 0 /\ Begin(w, "patch", "row")

Claim(w) ==
    /\ worker[w].pc = "claim"
    /\ slot' = [slot EXCEPT !.held = "pending", !.error = FALSE]
    /\ Step(w, "order")
    /\ UNCHANGED <<providerVars, accountVars>>

\* what the request found goes back: credentials are missing, or the order
\* could not be fetched, which is an error of its own
FetchOrder(w) ==
    /\ worker[w].pc = "order"
    /\ \/ Step(w, "lookup") /\ UNCHANGED <<slot, invoiceFaults>>
       \/ /\ InvoiceFault
          /\ \E failed \in BOOLEAN :
                slot' = [slot EXCEPT !.held = worker[w].seen.held,
                                     !.error = failed \/ worker[w].seen.error]
          /\ worker' = [worker EXCEPT ![w] = Waiting]
    /\ UNCHANGED <<providerVars, jobs, invoiceCauses>>

-----------------------------------------------------------------------------
(***************************************************************************)
(* How a job ends.  A request writes what it has; the poller counts.  A    *)
(* failure keeps the id if it is known, else what was found before.        *)
(***************************************************************************)
Ends(w, held, error) ==
    /\ slot' = IF worker[w].job = "patch" THEN slot
               ELSE [slot EXCEPT !.held = held, !.error = error,
                        !.attempts = IF worker[w].job = "poll"
                                     THEN worker[w].seen.attempts + 1 ELSE @]
    /\ worker' = [worker EXCEPT ![w] = Waiting]

KnownId(w, found) == IF found THEN "invoice" ELSE worker[w].seen.held

\* the call fails; found: the id of the invoice is in hand
Fails(w, found) ==
    /\ InvoiceFault
    /\ Ends(w, KnownId(w, found), TRUE)

Lookup(w) ==
    /\ worker[w].pc = "lookup"
    /\ \/ /\ worker' = [worker EXCEPT ![w].resuming = invoice.exists,
                           ![w].pc = IF invoice.exists THEN "row" ELSE "create"]
          /\ UNCHANGED <<slot, invoiceFaults>>
       \/ Fails(w, FALSE)
    /\ UNCHANGED <<providerVars, jobs, invoiceCauses>>

Create(w) ==
    /\ worker[w].pc = "create"
    /\ \/ /\ ~invoice.exists /\ invoice' = [invoice EXCEPT !.exists = TRUE]
          /\ Step(w, "row") /\ UNCHANGED <<slot, invoiceFaults>>
       \/ /\ invoice.exists /\ Ends(w, KnownId(w, FALSE), TRUE)
          /\ UNCHANGED <<invoice, invoiceFaults>>
       \/ \* the answer is lost, or the call
          /\ Fails(w, FALSE)
          /\ \/ UNCHANGED invoice
             \/ invoice' = [invoice EXCEPT !.exists = TRUE]
    /\ UNCHANGED <<declared, jobs, invoiceCauses>>

-----------------------------------------------------------------------------

HasDeposit(w) == invoice.deposits > 0

ReadRow(w) ==
    /\ worker[w].pc = "row"
    /\ \/ /\ ~HasDeposit(w)
          /\ worker' = [worker EXCEPT ![w].pc = "put", ![w].rows = invoice.deposits]
          /\ UNCHANGED <<slot, invoiceFaults>>
       \/ /\ HasDeposit(w) /\ UNCHANGED <<slot, invoiceFaults>>
          /\ worker' = IF worker[w].job = "patch"
                       THEN [worker EXCEPT ![w] = Waiting]
                       ELSE [worker EXCEPT ![w].pc = "pay"]
       \/ Fails(w, TRUE)
    /\ UNCHANGED <<providerVars, jobs, invoiceCauses>>

PutRow(w) ==
    /\ worker[w].pc = "put"
    /\ \E n \in {worker[w].rows + 1, invoice.deposits + 1} :
          n <= 2 /\ invoice' = [invoice EXCEPT !.deposits = n]
    /\ \/ /\ worker' = IF worker[w].job = "patch"
                       THEN [worker EXCEPT ![w] = Waiting]
                       ELSE [worker EXCEPT ![w].pc = "pay"]
          /\ UNCHANGED <<slot, invoiceFaults>>
       \/ Fails(w, TRUE)
    /\ UNCHANGED <<declared, jobs, invoiceCauses>>

\* the whole amount of the moment; only after the deposit is on it
Pay(w) ==
    /\ worker[w].pc = "pay"
    /\ \/ /\ invoice' = [invoice EXCEPT !.paid = invoice.deposits]
          /\ Step(w, IF worker[w].resuming THEN "list" ELSE "declare")
          /\ UNCHANGED <<slot, invoiceFaults>>
       \/ Fails(w, TRUE) /\ UNCHANGED invoice
    /\ UNCHANGED <<declared, jobs, invoiceCauses>>

\* mutant: a resumed invoice is declared again
FindDeclarationNever == FALSE

FindDeclaration == declared.number > 0

List(w) ==
    /\ worker[w].pc = "list"
    /\ \/ /\ Step(w, IF FindDeclaration THEN "upload" ELSE "declare")
          /\ UNCHANGED <<slot, invoiceFaults>>
       \/ Fails(w, TRUE)
    /\ UNCHANGED <<providerVars, jobs, invoiceCauses>>

Declare(w) ==
    /\ worker[w].pc = "declare"
    /\ \/ /\ declared.number < 2
          /\ declared' = [declared EXCEPT !.number = @ + 1]
          /\ Step(w, "upload") /\ UNCHANGED <<slot, invoiceFaults>>
       \/ /\ Fails(w, TRUE)
          /\ \/ UNCHANGED declared
             \/ declared.number < 2 /\ declared' = [declared EXCEPT !.number = @ + 1]
    /\ UNCHANGED <<invoice, jobs, invoiceCauses>>

\* the file goes to the declaration that was found or made
Upload(w) ==
    /\ worker[w].pc = "upload"
    /\ \/ /\ \E d \in 1..declared.number :
                declared' = [declared EXCEPT !.files = @ \cup {d}]
          /\ Ends(w, "invoice", FALSE) /\ UNCHANGED invoiceFaults
       \/ Fails(w, TRUE) /\ UNCHANGED declared
    /\ UNCHANGED <<invoice, jobs, invoiceCauses>>

-----------------------------------------------------------------------------
\* the worker dies, or its last write fails; a claimed slot stays claimed
WorkerDies(w) ==
    /\ worker[w].job # "none" /\ InvoiceFault
    /\ worker' = [worker EXCEPT ![w] = Waiting]
    /\ invoiceCauses' = invoiceCauses \cup {"crashed"}
    /\ UNCHANGED <<slot, providerVars, jobs>>

CancelOrder ==
    /\ ~slot.cancelled /\ slot' = [slot EXCEPT !.cancelled = TRUE]
    /\ UNCHANGED <<providerVars, worker, accountVars>>

InvoicingNext ==
    \/ \E w \in Worker :
          \/ Request(w) \/ Poll(w) \/ Patch(w) \/ Claim(w) \/ FetchOrder(w)
          \/ Lookup(w) \/ Create(w) \/ ReadRow(w) \/ PutRow(w) \/ Pay(w)
          \/ List(w) \/ Declare(w) \/ Upload(w) \/ WorkerDies(w)
    \/ CancelOrder

InvoicingSpec == InvoicingInit /\ [][InvoicingNext]_invoiceVars

-----------------------------------------------------------------------------
DespiteInvoice(causes) == invoiceCauses \cap causes # {}
Finished == slot.held = "invoice" /\ ~slot.error

(***************************************************************************)
(* A draft that shows an invoice and no error has one that is complete:    *)
(* with its deposit, paid to the last deposit, and its file at Allegro,    *)
(* through any number of failures and retries (allegro_invoicer.py:122).   *)
(***************************************************************************)
FinishedIsComplete ==
    \/ DespiteInvoice({"raced"})
    \/ Finished => /\ invoice.exists /\ invoice.deposits > 0
                   /\ invoice.paid = invoice.deposits
                   /\ declared.files # {}

(***************************************************************************)
(* Unless two workers were on it at once, the deposit is on the invoice    *)
(* once, whoever puts it there (common/fakturownia.py:253).                *)
(***************************************************************************)
OneDeposit == DespiteInvoice({"raced"}) \/ invoice.deposits <= 1

(***************************************************************************)
(* Unless two workers were on it at once, the invoice is declared once at  *)
(* Allegro, also when the upload or an answer was lost                     *)
(* (allegro_invoicer.py:184).                                              *)
(***************************************************************************)
OneDeclaration == DespiteInvoice({"raced"}) \/ declared.number <= 1

(***************************************************************************)
(* An id that the draft had is still there when nobody works on it: no     *)
(* failure of a later attempt forgets the invoice                          *)
(* (routers/shipping/invoices.py:268).                                     *)
(***************************************************************************)
IdIsKept ==
    [][ \/ invoiceCauses' # {}
        \/ \A w \in Worker : worker[w].seen.held = "invoice" /\ worker'[w] = Waiting
              => slot'.held = "invoice" ]_invoiceVars

(***************************************************************************)
(* An order is invoiced once and completely: one deposit, one declaration  *)
(* with its file, and an id that is never forgotten, over any number of    *)
(* failures, retries and workers one after the other                       *)
(* (allegro_invoicer.py:122).                                              *)
(***************************************************************************)
InvoicedOnce ==
    /\ [](InvoicingTypeOK /\ FinishedIsComplete /\ OneDeposit /\ OneDeclaration)
    /\ IdIsKept
=============================================================================
