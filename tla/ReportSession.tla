----------------------------- MODULE ReportSession ------------------------------
(***************************************************************************)
(* The browser session in which the JPK and VAT reports of a month are     *)
(* downloaded.  One loop polls the page; the operator clicks in a sidebar  *)
(* and the two talk through cookies.  A listener that any browser call may *)
(* run notes the address of each file the provider hands out, under the    *)
(* report that is "active" at that moment; the loop fetches it again later *)
(* and saves it under that report's name.                                  *)
(***************************************************************************)
EXTENDS Naturals, Sequences

CONSTANTS
    Reports,       \* how many reports are missing
    MaxAnswers,    \* bound: files the provider hands out
    MaxClicks      \* bound: Go and Skip clicks

Report == 1..Reports
None == 0

ASSUME SessionBounds ==
    Reports \in Nat \ {0} /\ MaxAnswers \in Nat /\ MaxClicks \in Nat

VARIABLES
    step,       \* where the loop is
    shown,      \* the report whose page the browser shows
    cookie,     \* __zdv_active: the report the operator last went to
    skipCookies, doneCookie,
    active,     \* the report captures are filed under
    current,    \* the report the loop has navigated to
    events,     \* answers the browser has seen and the listener has not
    captured,   \* pending_s3: [under, of] of every noted address
    saved,      \* whose content is in each report's file
    done, skipped,
    late,       \* a page was left with an answer of it still to be noted
    answers, clicks

pageVars == <<shown, cookie, skipCookies, doneCookie>>
loopVars == <<step, current, done, skipped>>
bounds == <<answers, clicks>>
sessionVars == <<step, shown, cookie, skipCookies, doneCookie, active, current,
                 events, captured, saved, done, skipped, late,
                 answers, clicks>>

\* The page of the warehouse reports shows a report that exists, and what was
\* captured, saved and skipped are reports of the session
\* (fakturownia_reports.py:685).
SessionTypeOK ==
    /\ step \in {"cookie", "navigate", "fetch", "mark", "skips", "close", "ended"}
    /\ shown \in Report /\ current \in Report /\ active \in Report
    /\ cookie \in Report \cup {None} /\ doneCookie \in BOOLEAN
    /\ skipCookies \subseteq Report /\ done \subseteq Report
    /\ skipped \subseteq skipCookies
    /\ events \in Seq(Report)
    /\ captured \in Seq([under : Report, of : Report])
    /\ saved \in [Report -> Report \cup {None}]
    /\ late \in BOOLEAN
    /\ answers \in 0..MaxAnswers /\ clicks \in 0..MaxClicks

SessionInit ==
    /\ step = "cookie" /\ shown = 1 /\ current = 1 /\ active = 1
    /\ cookie = None /\ skipCookies = {} /\ doneCookie = FALSE
    /\ events = << >> /\ captured = << >>
    /\ saved = [r \in Report |-> None]
    /\ done = {} /\ skipped = {}
    /\ late = FALSE /\ answers = 0 /\ clicks = 0

-----------------------------------------------------------------------------
\* the form is filled, by the loop or by hand, and the provider answers
Answer ==
    /\ step # "ended" /\ answers < MaxAnswers
    /\ answers' = answers + 1
    /\ events' = Append(events, shown)
    /\ UNCHANGED <<loopVars, pageVars, active, captured, saved, late, clicks>>

Listen ==
    /\ step # "ended" /\ events # << >>
    /\ captured' = Append(captured, [under |-> active, of |-> Head(events)])
    /\ events' = Tail(events)
    /\ UNCHANGED <<loopVars, pageVars, active, saved, late, bounds>>

\* the operator: Go, Skip and Done
Click ==
    /\ step # "ended" /\ clicks < MaxClicks /\ clicks' = clicks + 1
    /\ \/ \E r \in Report : /\ cookie' = r /\ shown' = r
                            /\ UNCHANGED skipCookies
       \/ \E r \in Report : /\ skipCookies' = skipCookies \cup {r}
                            /\ UNCHANGED <<cookie, shown>>
    /\ UNCHANGED <<loopVars, doneCookie, active, events, captured, saved,
                   late, answers>>

PressDone ==
    /\ step # "ended" /\ ~doneCookie /\ doneCookie' = TRUE
    /\ UNCHANGED <<loopVars, shown, cookie, skipCookies, active, events,
                   captured, saved, late, bounds>>

-----------------------------------------------------------------------------

\* the cookie outlives the navigation that follows it
ReadActive ==
    /\ step = "cookie" /\ step' = "navigate"
    /\ active' = IF cookie # None THEN cookie ELSE active
    /\ UNCHANGED <<pageVars, current, done, skipped, events, captured, saved,
                   late, bounds>>

Open(r) == r \notin done \cup skipped

\* a report that is done or skipped gives way to the next one
Navigate ==
    /\ step = "navigate" /\ step' = "fetch"
    /\ LET open == {r \in Report : Open(r)}
           next == CHOOSE r \in open : \A q \in open : r <= q IN
       IF Open(current) \/ open = {}
       THEN UNCHANGED <<current, active, shown, late>>
       ELSE /\ current' = next /\ active' = next /\ shown' = next
            /\ late' = (late \/ events # << >>)
    /\ UNCHANGED <<cookie, skipCookies, doneCookie, done, skipped, events,
                   captured, saved, bounds>>

\* mutant: saved under the report that is active by now
FetchActive ==
    /\ step = "fetch"
    /\ IF captured = << >>
       THEN step' = "mark" /\ UNCHANGED <<captured, saved>>
       ELSE /\ captured' = Tail(captured) /\ UNCHANGED step
            /\ saved' = [saved EXCEPT ![active] = Head(captured).of]
    /\ UNCHANGED <<pageVars, active, current, done, skipped, events, late,
                   bounds>>

\* each noted address is fetched once more; an answer too small is dropped
Fetch ==
    /\ step = "fetch"
    /\ IF captured = << >>
       THEN step' = "mark" /\ UNCHANGED <<captured, saved>>
       ELSE /\ captured' = Tail(captured) /\ UNCHANGED step
            /\ \/ UNCHANGED saved
               \/ saved' = [saved EXCEPT ![Head(captured).under] =
                                             Head(captured).of]
    /\ UNCHANGED <<pageVars, active, current, done, skipped, events, late,
                   bounds>>

\* every file that has appeared
MarkDone ==
    /\ step = "mark" /\ step' = "skips"
    /\ done' = done \cup {r \in Report : Open(r) /\ saved[r] # None}
    /\ UNCHANGED <<pageVars, active, current, skipped, events, captured, saved,
                   late, bounds>>

ReadSkips ==
    /\ step = "skips" /\ step' = "close"
    /\ skipped' = skipped \cup (skipCookies \ done)
    /\ UNCHANGED <<pageVars, active, current, done, events, captured, saved,
                   late, bounds>>

ReadDone ==
    /\ step = "close" /\ step' = IF doneCookie THEN "ended" ELSE "cookie"
    /\ UNCHANGED <<pageVars, active, current, done, skipped, events, captured,
                   saved, late, bounds>>

\* the browser is closed: the next call to it ends the session
CloseBrowser ==
    /\ step \in {"cookie", "close"} /\ step' = "ended"
    /\ UNCHANGED <<pageVars, active, current, done, skipped, events, captured,
                   saved, late, bounds>>

Poll == ReadActive \/ Navigate \/ Fetch \/ MarkDone \/ ReadSkips \/ ReadDone

SessionNext ==
    Answer \/ Listen \/ Click \/ PressDone \/ Poll \/ CloseBrowser

SessionSpec == SessionInit /\ [][SessionNext]_sessionVars

-----------------------------------------------------------------------------
(***************************************************************************)
(* When no answer is left over from the page before and the operator has   *)
(* not used Go, every file holds its own report, however the answers, the  *)
(* fetches and the skips interleave (fakturownia_reports.py:700).          *)
(***************************************************************************)
QuietSessionFilesEach ==
    cookie = None /\ ~late => \A r \in Report : saved[r] \in {r, None}

(***************************************************************************)
(* A file that was saved is handed to the stage that uploads it, unless    *)
(* the operator skipped the report (fakturownia_reports.py:806).           *)
(***************************************************************************)
SavedIsHandedOver ==
    step \notin {"fetch", "mark"}
        => \A r \in Report : saved[r] # None => r \in done \cup skipped

(***************************************************************************)
(* Every file of a session holds its own report and reaches the stage that *)
(* uploads it (fakturownia_reports.py:700).                                *)
(***************************************************************************)
ReportsAreTheirOwn == SessionTypeOK /\ QuietSessionFilesEach /\ SavedIsHandedOver
=============================================================================
