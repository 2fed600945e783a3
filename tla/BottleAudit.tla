------------------------------ MODULE BottleAudit ------------------------------
(***************************************************************************)
(* The audit of bottles: what was invoiced against what left the warehouse *)
(* on WZ documents.  It reads the account page after page and collection   *)
(* after collection while documents go on being issued and deleted.  The   *)
(* month closing asks for two of its checks, the summary prints a table.   *)
(***************************************************************************)
EXTENDS Bottles, FiniteSets

LOCAL INSTANCE SequencesExt

CONSTANTS
    Invoice,      \* invoices that may be issued
    Wz,           \* warehouse documents that may be issued, with their actions
    Delivery,     \* actions of deliveries into the warehouse
    PageSize,     \* invoices on a page
    MaxDocs,      \* bound: documents of the account
    MaxAudits     \* bound: audits begun

ASSUME AuditShape == PageSize \in Nat \ {0} /\ MaxDocs \in Nat /\ MaxAudits \in Nat

VARIABLES
    books,        \* [inv, wz : sequences], the account
    auditor,      \* what the audit asks for, where it is, what it has read
    moved,        \* the account changed since the audit began
    audits

auditVars == <<books, auditor, moved, audits>>

Month == 1..12
WholeYear == 0

(***************************************************************************)
(* What a query returns.                                                   *)
(***************************************************************************)
SellMonth(inv) == IF inv.sell = 0 THEN inv.issue ELSE inv.sell
InPeriod(month, period) == period = WholeYear \/ month = period

\* a month's invoices are looked for by their issue up to two months away,
\* and then taken by the day of the sale
Queried(inv, period) == period = WholeYear \/ inv.issue \in (period - 2)..(period + 2)
KeptInvoice(inv, period) ==
    inv.kind # "proforma" /\ (period = WholeYear \/ SellMonth(inv) = period)

\* a page of a list that shows the newest first
Page(list, n) ==
    LET from == (n - 1) * PageSize + 1
        to == IF n * PageSize < Len(list) THEN n * PageSize ELSE Len(list)
    IN SubSeq(Reverse(list), from, to)

(***************************************************************************)
(* The data of an audit: the invoices and documents of the period, the     *)
(* actions of every document.                                              *)
(***************************************************************************)
WzIds(wzs) == {wzs[k].id : k \in DOMAIN wzs}

\* the last invoice read is the one a document is linked with
Linked(invs, wzs) ==
    {k \in DOMAIN invs : invs[k].wz \in WzIds(wzs)
        /\ \A j \in DOMAIN invs : j > k => invs[j].wz # invs[k].wz}

Fv(inv, glass) == InvoiceBottles(inv.positions, glass)
FvAll(inv) == Fv(inv, TRUE) + Fv(inv, FALSE)
ActionsOf(id, actions) == SelectSeq(actions, LAMBDA a : a.doc = id)
Out(id, actions, glass) == WzBottles(ActionsOf(id, actions), glass)
OutAll(id, actions) == Out(id, actions, TRUE) + Out(id, actions, FALSE)

SumOf(S, f(_), list) == Sum([k \in DOMAIN list |-> IF k \in S THEN f(k) ELSE 0])

\* the difference of the totals, of the months something was sold in
Recount(d) ==
    LET linked == Linked(d.invs, d.wzs)
        sold == {k \in linked : FvAll(d.invs[k]) > 0}
        months == {SellMonth(d.invs[k]) : k \in sold}
        counted == {k \in linked : SellMonth(d.invs[k]) \in months}
        fv(k) == FvAll(d.invs[k])
        out(k) == OutAll(d.invs[k].wz, d.actions)
    IN SumOf(sold, fv, d.invs) - SumOf(counted, out, d.invs)

TypeMismatches(d) ==
    {k \in Linked(d.invs, d.wzs) :
        /\ \E glass \in BOOLEAN :
              Fv(d.invs[k], glass) # Out(d.invs[k].wz, d.actions, glass)
        /\ FvAll(d.invs[k]) > 0 \/ OutAll(d.invs[k].wz, d.actions) > 0}

OrphanWz(d) ==
    WzIds(d.wzs) \ {d.invs[k].wz : k \in Linked(d.invs, d.wzs)}

\* mutant: an invoice that names a document has one
WithoutWzNamed(d) ==
    {k \in DOMAIN d.invs : d.invs[k].wz = 0 /\ FvAll(d.invs[k]) > 0}

InvoicesWithoutWz(d) ==
    LET ids == {d.invs[k].id : k \in Linked(d.invs, d.wzs)}
    IN {k \in DOMAIN d.invs : d.invs[k].id \notin ids /\ FvAll(d.invs[k]) > 0}

CrossMonthPairs(d) ==
    {k \in Linked(d.invs, d.wzs) :
        \E w \in DOMAIN d.wzs : /\ d.wzs[w].id = d.invs[k].wz
                                /\ d.wzs[w].month # SellMonth(d.invs[k])}

SharedWz(d) ==
    {k \in DOMAIN d.invs : d.invs[k].wz \in WzIds(d.wzs)
        /\ \E j \in DOMAIN d.invs : j # k /\ d.invs[j].wz = d.invs[k].wz}

Numbers(invs) == {invs[k].number : k \in DOMAIN invs}

\* nothing twice, nothing left out between the first and the last
NumberingOk(invs) ==
    /\ \A j, k \in DOMAIN invs : j # k => invs[j].number # invs[k].number
    /\ \A a, b \in Numbers(invs) : \A n \in a..b : n \in Numbers(invs)

Failures(d) ==
    (IF Recount(d) # 0 THEN {"recount"} ELSE {})
    \cup (IF TypeMismatches(d) # {} THEN {"type"} ELSE {})
    \cup (IF OrphanWz(d) # {} THEN {"orphan_wz"} ELSE {})
    \cup (IF InvoicesWithoutWz(d) # {} THEN {"no_wz"} ELSE {})
    \cup (IF CrossMonthPairs(d) # {} THEN {"cross_month"} ELSE {})
    \cup (IF NumberingOk(d.invs) THEN {} ELSE {"numbering"})

\* what the closing shows of it
WarehouseIssues(d) ==
    (IF InvoicesWithoutWz(d) # {} THEN {"no_wz"} ELSE {})
    \cup (IF OrphanWz(d) # {} THEN {"orphan_wz"} ELSE {})

SummaryOut(id, actions) ==
    Sum([k \in DOMAIN actions |->
            IF actions[k].doc = id /\ actions[k].bottle
            THEN AbsOf(actions[k].qty) ELSE 0])

SummaryDelta(d, month) ==
    LET of == {k \in Linked(d.invs, d.wzs) : SellMonth(d.invs[k]) = month}
        delta(k) == SummaryOut(d.invs[k].wz, d.actions) - FvAll(d.invs[k])
    IN SumOf(of, delta, d.invs)

\* issues in the balance of the stock: movements below zero
StockOut(d, period, glass) ==
    Sum([k \in DOMAIN d.moves |->
            IF d.moves[k].bottle /\ d.moves[k].glass = glass /\ d.moves[k].qty <= 0
               /\ InPeriod(d.moves[k].month, period)
            THEN AbsOf(d.moves[k].qty) ELSE 0])

(***************************************************************************)
(* The account.                                                            *)
(***************************************************************************)
Actions(wzs) ==
    FlattenSeq([w \in DOMAIN wzs |->
        [a \in DOMAIN wzs[w].actions |->
            [doc |-> wzs[w].id, month |-> wzs[w].month, bottle |-> wzs[w].actions[a].bottle,
             glass |-> wzs[w].actions[a].glass, qty |-> wzs[w].actions[a].qty]]])

Ids(list) == {list[k].id : k \in DOMAIN list}
Documents == Len(books.inv) + Len(books.wz)

\* bound: one change under a running audit
Change(b) ==
    /\ auditor.pc \in {"idle", "done"} \/ ~moved
    /\ books' = b /\ moved' = (auditor.pc \notin {"idle", "done"})
    /\ auditor' = IF auditor.pc = "done" THEN [auditor EXCEPT !.pc = "idle"] ELSE auditor
    /\ UNCHANGED audits

\* ids grow
IssueInvoice(i) ==
    /\ Documents < MaxDocs /\ \A id \in Ids(books.inv) : id < i.id
    /\ Change([books EXCEPT !.inv = Append(@, i)])
IssueWz(w) ==
    /\ Documents < MaxDocs /\ \A id \in Ids(books.wz) : id < w.id
    /\ Change([books EXCEPT !.wz = Append(@, w)])
DeleteInvoice ==
    books.inv # <<>> /\ Change([books EXCEPT !.inv = Tail(@)])

(***************************************************************************)
(* An audit, a summary or the closing's check, one query after another.    *)
(***************************************************************************)
NoData == [invs |-> <<>>, wzs |-> <<>>, actions |-> <<>>, moves |-> <<>>]
IdleAuditor == [pc |-> "idle", what |-> "audit", period |-> WholeYear, page |-> 1,
                data |-> NoData, result |-> {}]

BeginAudit(what, period) ==
    /\ auditor.pc \in {"idle", "done"} /\ audits < MaxAudits /\ audits' = audits + 1
    /\ what # "audit" => period # WholeYear
    /\ moved' = FALSE
    /\ auditor' = [IdleAuditor EXCEPT !.pc = "invoices", !.what = what, !.period = period]
    /\ UNCHANGED books

Read(a) == auditor' = a /\ UNCHANGED <<books, moved, audits>>

FetchPage ==
    /\ auditor.pc = "invoices"
    /\ LET list == SelectSeq(books.inv, LAMBDA i : Queried(i, auditor.period))
           batch == Page(list, auditor.page)
           invs == auditor.data.invs \o batch
       IN IF Len(batch) < PageSize
          THEN Read([auditor EXCEPT !.pc = "wz", !.data.invs =
                        SelectSeq(invs, LAMBDA i : KeptInvoice(i, auditor.period))])
          ELSE Read([auditor EXCEPT !.page = @ + 1, !.data.invs = invs])

FetchWz ==
    /\ auditor.pc = "wz"
    /\ Read([auditor EXCEPT !.pc = "actions", !.data.wzs =
                SelectSeq(books.wz, LAMBDA w : InPeriod(w.month, auditor.period))])

\* the actions of every warehouse document there is
FetchActions ==
    /\ auditor.pc = "actions"
    /\ LET d == [auditor.data EXCEPT !.actions = Actions(books.wz)]
       IN IF auditor.what = "audit"
          THEN Read([auditor EXCEPT !.pc = "moves", !.data = d])
          ELSE Read([auditor EXCEPT !.pc = "done", !.data = d, !.result = WarehouseIssues(d)])

\* and once more with the deliveries, for the balance of the stock
FetchMoves ==
    /\ auditor.pc = "moves"
    /\ LET d == [auditor.data EXCEPT !.moves = Actions(books.wz) \o Delivery]
       IN Read([auditor EXCEPT !.pc = "done", !.data = d, !.result = Failures(d)])

Unavailable == {"unavailable"}

\* the command gives up, the closing says that it could not look
FetchFails ==
    /\ auditor.pc \in {"invoices", "wz", "actions", "moves"}
    /\ Read(IF auditor.what = "audit" THEN IdleAuditor
            ELSE [auditor EXCEPT !.pc = "done", !.data = NoData, !.result = Unavailable])

AuditInit ==
    /\ books = [inv |-> <<>>, wz |-> <<>>] /\ auditor = IdleAuditor
    /\ moved = FALSE /\ audits = 0

AuditNext ==
    \/ \E i \in Invoice : IssueInvoice(i)
    \/ \E w \in Wz : IssueWz(w)
    \/ DeleteInvoice
    \/ \E what \in {"audit", "closing"}, p \in {WholeYear, 1} : BeginAudit(what, p)
    \/ FetchPage \/ FetchWz \/ FetchActions \/ FetchMoves \/ FetchFails

-----------------------------------------------------------------------------
(***************************************************************************)
(* Properties.                                                             *)
(***************************************************************************)
\* An audit that is over and saw an account that stood still.
Settled == auditor.pc = "done" /\ auditor.what = "audit" /\ ~moved
Passed == Settled /\ auditor.result = {}

\* the invoices of the period the audit is answerable for: those issued not
\* more than two months from the sale
Sold == SelectSeq(books.inv, LAMBDA i : /\ KeptInvoice(i, auditor.period)
                                        /\ Queried(i, auditor.period))

\* When the audit passes, what was sold of either material left the warehouse
\* in the same period, whichever way the documents are linked.
PassedBalances ==
    Passed => \A glass \in BOOLEAN :
        LET left == SelectSeq(books.wz, LAMBDA w : InPeriod(w.month, auditor.period))
        IN Sum([k \in DOMAIN Sold |-> IF FvAll(Sold[k]) > 0 THEN Fv(Sold[k], glass) ELSE 0])
         = Sum([k \in DOMAIN left |-> WzBottles(left[k].actions, glass)])

\* When it passes, two sales never share a document and the numbers are those
\* of an unbroken series (section_anomalies, check_numbering).
PassedIsOrderly ==
    Passed =>
        /\ \A k \in SharedWz(auditor.data) :
              \A j \in SharedWz(auditor.data) :
                  auditor.data.invs[j].wz = auditor.data.invs[k].wz /\ j # k
                      => FvAll(auditor.data.invs[j]) <= 0 \/ FvAll(auditor.data.invs[k]) <= 0
        /\ Sold # <<>> =>
              \E first \in Numbers(Sold) : Numbers(Sold) = first..(first + Len(Sold) - 1)

\* When the year passes, the summary flags no month and the stock went down
\* by what was sold: three counts of the same bottles, made three ways.
PassedIsUnflagged ==
    Passed /\ auditor.period = WholeYear =>
        /\ \A m \in Month : SummaryDelta(auditor.data, m) = 0
        /\ \A glass \in BOOLEAN :
              StockOut(auditor.data, WholeYear, glass)
                = Sum([k \in DOMAIN books.wz |-> WzBottles(books.wz[k].actions, glass)])

\* The closing never calls a warehouse clean that it has not looked at: a sale
\* without a document that was there all along is reported, or that the check
\* failed is (warehouse_issues).
UnlookedIsNotClean ==
    auditor.pc = "done" /\ auditor.what = "closing" /\ ~moved
        /\ (\E k \in DOMAIN Sold : Sold[k].wz = 0 /\ FvAll(Sold[k]) > 0)
    => auditor.result \cap {"no_wz", "unavailable"} # {}

\* An audit is at one of its fetches and reports problems its sections can
\* name; the documents stay within their bound (audit/api.py).
AuditTypeOK ==
    /\ Documents \in 0..MaxDocs /\ moved \in BOOLEAN /\ audits \in 0..MaxAudits
    /\ auditor.pc \in {"idle", "invoices", "wz", "actions", "moves", "done"}
    /\ auditor.result \subseteq {"recount", "type", "orphan_wz", "no_wz", "cross_month",
                                 "numbering", "unavailable"}
    \* an account that stands still is read without a repetition
    /\ ~moved /\ auditor.pc # "idle" =>
          \A j, k \in DOMAIN auditor.data.invs :
              j # k => auditor.data.invs[j].id # auditor.data.invs[k].id

(***************************************************************************)
(* An audit that passes is right about the documents as they are, although *)
(* it reads them page after page while they change (audit_cmd.py:93).      *)
(***************************************************************************)
PassedIsRight ==
    /\ AuditTypeOK /\ PassedBalances /\ PassedIsOrderly /\ PassedIsUnflagged
    /\ UnlookedIsNotClean
=============================================================================
