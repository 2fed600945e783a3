--------------------------- MODULE MonthCloseProofs ---------------------------
(***************************************************************************)
(* Theorems about MonthClose, for any number of requests, any stages and   *)
(* any number of operations, with and without crashes, faults and overruns.*)
(***************************************************************************)
EXTENDS MonthCloseInv, TLAPS

LEMMA StepTypes ==
  /\ "send" \in STEP_IDS /\ "package" \in STEP_IDS
  /\ "send" \notin WAIVABLE_STEPS /\ "package" \notin WAIVABLE_STEPS
  /\ "check" \in WAIVABLE_STEPS
  /\ WAIVABLE_STEPS \subseteq STEP_IDS /\ STEP_IDS \subseteq Operation
  /\ "none" \notin STEP_IDS /\ "resolve" \notin STEP_IDS
  BY CollectionAssumption DEF WAIVABLE_STEPS, STEP_IDS, Operation

LEMMA NewRunType ==
  ASSUME NEW n \in Nat, NEW rev \in Nat
  PROVE  NewRun(n, rev) \in Run
  BY DEF NewRun, Run, Attempt, AttemptState

(***************************************************************************)
(* TypeOK is not inductive: that a claim is stored for a stage needs that  *)
(* who claims, works and finishes has a stage as operation.                *)
(***************************************************************************)
OpMatches(q) ==
    /\ q.pc \in HoldingPc \cup {"claim"} => q.op \in STEP_IDS
    /\ q.pc = "resolve" => q.op = "resolve"

Typed == TypeOK /\ \A r \in Request : OpMatches(req[r])

LEMMA IdleReqType == IdleReq \in Req /\ OpMatches(IdleReq)
  BY NewRunType, StepTypes DEF IdleReq, Req, Pc, HoldingPc, Operation, OpMatches

LEMMA ReqFields ==
  ASSUME Typed, NEW r \in Request
  PROVE  /\ req[r].pc \in Pc /\ req[r].op \in Operation /\ req[r].n \in Nat
         /\ req[r].run \in Run /\ req[r].ok \in BOOLEAN
         /\ req[r].target \in WAIVABLE_STEPS
         /\ req[r] \in Req /\ OpMatches(req[r])
  BY DEF Req, Typed, TypeOK

\* a request that becomes a well-typed one
LEMMA ReqStep ==
  ASSUME Typed, NEW r \in Request, NEW new \in Req, OpMatches(new),
         req' = [req EXCEPT ![r] = new]
  PROVE  req' \in [Request -> Req] /\ \A q \in Request : OpMatches(req'[q])
  BY DEF Typed, TypeOK

LEMMA EndStep ==
  ASSUME Typed, NEW r \in Request, End(r)
  PROVE  req' \in [Request -> Req] /\ \A q \in Request : OpMatches(req'[q])
  BY IdleReqType, ReqStep DEF End

\* a request that moves on with another copy of the run
LEMMA MoveStep ==
  ASSUME Typed, NEW r \in Request, NEW pc \in Pc, NEW run \in Run,
         NEW ok \in BOOLEAN,
         pc \in HoldingPc \cup {"claim"} => req[r].op \in STEP_IDS,
         pc = "resolve" => req[r].op = "resolve",
         req' = [req EXCEPT ![r] = [@ EXCEPT !.pc = pc, !.run = run, !.ok = ok]]
  PROVE  req' \in [Request -> Req] /\ \A q \in Request : OpMatches(req'[q])
<1> DEFINE new == [req[r] EXCEPT !.pc = pc, !.run = run, !.ok = ok]
<1>1. new \in Req
  BY ReqFields DEF Req
<1>2. OpMatches(new)
  BY ReqFields DEF OpMatches, Req
<1>3. req' = [req EXCEPT ![r] = new]
  OBVIOUS
<1> QED
  <2> HIDE DEF new
  <2> QED  BY <1>1, <1>2, <1>3, ReqStep

LEMMA BumpedType ==
  ASSUME NEW run \in Run
  PROVE  Bumped(run) \in Run
  BY DEF Bumped, Run

LEMMA PutType ==
  ASSUME NEW run \in Run, NEW current \in SUBSET Request, Put(run, current)
  PROVE  row' \in Run /\ expired' \in BOOLEAN /\ fresh' \in SUBSET Request
  BY DEF Put

LEMMA KeepType ==
  ASSUME Typed, NEW r \in Request, Keep(r)
  PROVE  row' \in Run /\ expired' \in BOOLEAN /\ fresh' \in SUBSET Request
  BY DEF Keep, Typed, TypeOK

LEMMA CauseTypes ==
  ASSUME NEW r \in Request
  PROVE  /\ Overrun \in SUBSET Cause
         /\ Blind(r) \in SUBSET Cause
         /\ Late(r) \in SUBSET Cause
  BY DEF Overrun, Blind, Late, Cause

(***************************************************************************)
(* The initial states are well typed.                                      *)
(***************************************************************************)
LEMMA TypeInit == Init => Typed
<1> SUFFICES ASSUME Init PROVE Typed
  OBVIOUS
<1>1. ops \in Nat
  BY DEF Init
<1>2. row \in Run
  <2>1. NewRun(0, 1) \in Run
    BY NewRunType
  <2>2. (IF Prepared THEN STEP_IDS \ {"send"} ELSE {}) \in SUBSET STEP_IDS
    OBVIOUS
  <2> QED  BY <1>1, <2>1, <2>2 DEF Init, Run
<1>3. req = [r \in Request |-> IdleReq]
  BY DEF Init
<1>4. req \in [Request -> Req] /\ \A r \in Request : OpMatches(req[r])
  BY <1>3, IdleReqType
<1> QED  BY <1>1, <1>2, <1>4 DEF Init, TypeOK, Typed

-----------------------------------------------------------------------------
(***************************************************************************)
(* Every action keeps the types.                                           *)
(***************************************************************************)
LEMMA TypeClaimRead ==
  ASSUME Typed, NEW r \in Request, NEW step \in STEP_IDS, ClaimRead(r, step)
  PROVE  Typed'
<1> DEFINE new == [IdleReq EXCEPT !.pc = "claim", !.op = step, !.n = ops + 1,
                                  !.run = row]
<1>1. new \in Req /\ OpMatches(new)
  <2>1. step \in Operation
    BY StepTypes
  <2>2. IdleReq \in Req /\ row \in Run /\ ops + 1 \in Nat
    BY IdleReqType DEF Typed, TypeOK
  <2> QED  BY <2>1, <2>2 DEF Req, Pc, OpMatches
<1>2. req' = [req EXCEPT ![r] = new]
  BY DEF ClaimRead
<1>3. req' \in [Request -> Req] /\ \A q \in Request : OpMatches(req'[q])
  <2> HIDE DEF new
  <2> QED  BY <1>1, <1>2, ReqStep
<1>4. Keep(r)
  BY DEF ClaimRead
<1> QED
  BY <1>3, <1>4, KeepType DEF ClaimRead, Typed, TypeOK, worldVars

LEMMA ClaimedRun ==
  ASSUME NEW run \in Run, NEW op \in STEP_IDS, NEW n \in Nat
  PROVE  [run EXCEPT !.rev = @ + 1, !.active = op, !.by = n,
                     !.done = @ \ {op}, !.waivers = @ \ {op}] \in Run
<1>1. run.done \ {op} \in SUBSET STEP_IDS
  BY DEF Run
<1>2. run.waivers \ {op} \in SUBSET WAIVABLE_STEPS
  BY DEF Run
<1>3. run.rev + 1 \in Nat
  BY DEF Run
<1> QED  BY <1>1, <1>2, <1>3 DEF Run

LEMMA ClaimedType ==
  ASSUME Typed, NEW r \in Request, req[r].op \in STEP_IDS
  PROVE  Claimed(r) \in Run
  BY ReqFields, ClaimedRun DEF Claimed

LEMMA TypeClaimWrite ==
  ASSUME Typed, NEW r \in Request, ClaimWrite(r)
  PROVE  Typed'
<1>1. req[r].op \in STEP_IDS
  BY ReqFields DEF ClaimWrite, OpMatches
<1>2. Claimed(r) \in Run
  BY <1>1, ClaimedType
<1>3. req' \in [Request -> Req] /\ \A q \in Request : OpMatches(req'[q])
  <2> DEFINE new == [req[r] EXCEPT !.pc = "work", !.run = Claimed(r)]
  <2>1. new \in Req /\ OpMatches(new)
    <3> HIDE DEF new
    <3>1. new = [req[r] EXCEPT !.pc = "work", !.run = Claimed(r)]
      BY DEF new
    <3> QED  BY <1>1, <1>2, <3>1, ReqFields DEF Req, Pc, HoldingPc, OpMatches
  <2>2. req' = [req EXCEPT ![r] = new]
    BY DEF ClaimWrite
  <2> HIDE DEF new
  <2> QED  BY <2>1, <2>2, ReqStep
<1>4. row' \in Run /\ expired' \in BOOLEAN /\ fresh' \in SUBSET Request
  BY <1>2, PutType DEF ClaimWrite
<1> QED
  BY <1>3, <1>4, CauseTypes DEF ClaimWrite, Typed, TypeOK, worldVars

LEMMA TypeClaimConflict ==
  ASSUME Typed, NEW r \in Request, ClaimConflict(r)
  PROVE  Typed'
<1>1. CASE End(r) /\ UNCHANGED storeVars
  BY <1>1, EndStep
     DEF ClaimConflict, Typed, TypeOK, storeVars, worldVars, historyVars
<1>2. CASE req' = [req EXCEPT ![r].run = row] /\ Keep(r)
  <2>1. req' = [req EXCEPT ![r] = [@ EXCEPT !.pc = "claim", !.run = row,
                                            !.ok = req[r].ok]]
    BY <1>2, ReqFields DEF ClaimConflict, Typed, TypeOK, Req
  <2>2. req[r].op \in STEP_IDS /\ row \in Run /\ "claim" \in Pc
    BY ReqFields DEF ClaimConflict, OpMatches, Typed, TypeOK, Pc
  <2>3. req' \in [Request -> Req] /\ \A q \in Request : OpMatches(req'[q])
    BY <2>1, <2>2, MoveStep, ReqFields
  <2> QED
    BY <1>2, <2>3, KeepType DEF ClaimConflict, Typed, TypeOK, worldVars, historyVars
<1> QED
  BY <1>1, <1>2 DEF ClaimConflict

\* a request that moves on with its copy as it is
LEMMA GoStep ==
  ASSUME Typed, NEW r \in Request, NEW pc \in Pc, NEW ok \in BOOLEAN,
         pc \in HoldingPc \cup {"claim"} => req[r].op \in STEP_IDS,
         pc = "resolve" => req[r].op = "resolve",
         \/ req' = [req EXCEPT ![r].pc = pc, ![r].ok = ok]
         \/ req' = [req EXCEPT ![r].pc = pc]
  PROVE  req' \in [Request -> Req] /\ \A q \in Request : OpMatches(req'[q])
<1>1. CASE req' = [req EXCEPT ![r].pc = pc, ![r].ok = ok]
  <2>1. req' = [req EXCEPT ![r] = [@ EXCEPT !.pc = pc, !.run = req[r].run,
                                            !.ok = ok]]
    BY <1>1, ReqFields DEF Typed, TypeOK, Req
  <2> QED  BY <2>1, ReqFields, MoveStep
<1>2. CASE req' = [req EXCEPT ![r].pc = pc]
  <2>1. req' = [req EXCEPT ![r] = [@ EXCEPT !.pc = pc, !.run = req[r].run,
                                            !.ok = req[r].ok]]
    BY <1>2, ReqFields DEF Typed, TypeOK, Req
  <2> QED  BY <2>1, ReqFields, MoveStep
<1> QED  BY <1>1, <1>2

LEMMA HolderHasStage ==
  ASSUME Typed, NEW r \in Request, req[r].pc \in HoldingPc
  PROVE  req[r].op \in STEP_IDS
  BY ReqFields DEF OpMatches

LEMMA RaiseStep ==
  ASSUME Typed, NEW r \in Request, req[r].pc \in HoldingPc, Raise(r)
  PROVE  req' \in [Request -> Req] /\ \A q \in Request : OpMatches(req'[q])
<1>1. CASE End(r)
  BY <1>1, EndStep
<1>2. CASE req' = [req EXCEPT ![r].pc = "settle", ![r].ok = FALSE]
  <2>1. "settle" \in Pc /\ req[r].op \in STEP_IDS
    BY HolderHasStage DEF Pc, HoldingPc
  <2> QED  BY <1>2, <2>1, GoStep
<1> QED  BY <1>1, <1>2 DEF Raise

LEMMA TypeWork ==
  ASSUME Typed, NEW r \in Request, Collect(r) \/ WorkFails(r)
  PROVE  Typed'
<1>1. req[r].pc \in HoldingPc /\ "finish" \in Pc
  BY DEF Collect, WorkFails, HoldingPc, Pc
<1>2. req' \in [Request -> Req] /\ \A q \in Request : OpMatches(req'[q])
  <2>1. CASE Raise(r)
    BY <1>1, <2>1, RaiseStep
  <2>2. CASE Goto(r, "finish")
    BY <1>1, <2>2, GoStep, HolderHasStage DEF Goto
  <2>3. CASE Collect(r)
    BY <1>1, <2>3, GoStep, HolderHasStage DEF Collect
  <2> QED  BY <2>1, <2>2, <2>3 DEF WorkFails
<1> QED
  BY <1>2 DEF Collect, WorkFails, Typed, TypeOK, storeVars, worldVars, historyVars

LEMMA TypeBuildPackage ==
  ASSUME Typed, NEW r \in Request, BuildPackage(r)
  PROVE  Typed'
<1>1. req[r].op \in STEP_IDS /\ "finish" \in Pc
  BY HolderHasStage DEF BuildPackage, HoldingPc, Pc
<1>2. PICK hash \in {0, req[r].n} :
        req' = [req EXCEPT ![r].pc = "finish", ![r].ok = TRUE,
                           ![r].run.package = hash]
  BY DEF BuildPackage
<1>3. req' \in [Request -> Req] /\ \A q \in Request : OpMatches(req'[q])
  <2> DEFINE run == [req[r].run EXCEPT !.package = hash]
  <2>1. run \in Run
    BY ReqFields DEF Run
  <2>2. req' = [req EXCEPT ![r] = [@ EXCEPT !.pc = "finish", !.run = run,
                                            !.ok = TRUE]]
    BY <1>2, ReqFields DEF Typed, TypeOK, Req
  <2> HIDE DEF run
  <2> QED  BY <1>1, <2>1, <2>2, MoveStep
<1>4. blob' \in Nat /\ localZip' \in Nat /\ causes' \in SUBSET Cause
  BY ReqFields DEF BuildPackage, Typed, TypeOK, Cause
<1> QED
  BY <1>3, <1>4 DEF BuildPackage, Typed, TypeOK, storeVars

LEMMA TypeBeginAttempt ==
  ASSUME Typed, NEW r \in Request, BeginAttempt(r)
  PROVE  Typed'
<1> DEFINE new == [id |-> req[r].n, state |-> "pending"]
           run == [req[r].run EXCEPT !.attempt = new]
<1>1. req[r].op \in STEP_IDS /\ "attempt" \in Pc
  BY HolderHasStage DEF BeginAttempt, HoldingPc, Pc
<1>2. new \in Attempt
  BY ReqFields DEF Attempt, AttemptState
<1>3. run \in Run
  <2> HIDE DEF new
  <2> QED  BY <1>2, ReqFields DEF Run
<1>4. req' = [req EXCEPT ![r] = [@ EXCEPT !.pc = "attempt", !.run = run,
                                          !.ok = req[r].ok]]
  BY ReqFields DEF BeginAttempt, Typed, TypeOK, Req
<1>5. req' \in [Request -> Req] /\ \A q \in Request : OpMatches(req'[q])
  <2> HIDE DEF run
  <2> QED  BY <1>1, <1>3, <1>4, MoveStep, ReqFields
<1> QED
  BY <1>5 DEF BeginAttempt, Typed, TypeOK, storeVars, worldVars, historyVars

\* a request that goes on with the revision its save has raised
LEMMA BumpStep ==
  ASSUME Typed, NEW r \in Request, NEW pc \in Pc, req[r].pc \in HoldingPc,
         pc # "resolve",
         req' = [req EXCEPT ![r].pc = pc, ![r].run = Bumped(@)]
  PROVE  req' \in [Request -> Req] /\ \A q \in Request : OpMatches(req'[q])
<1> DEFINE run == Bumped(req[r].run)
<1>1. run \in Run
  BY ReqFields, BumpedType
<1>2. req' = [req EXCEPT ![r] = [@ EXCEPT !.pc = pc, !.run = run,
                                          !.ok = req[r].ok]]
  <2>1. req' = [req EXCEPT ![r].pc = pc, ![r].run = run]
    OBVIOUS
  <2> HIDE DEF run
  <2> QED  BY <2>1, ReqFields DEF Typed, TypeOK, Req
<1> QED
  <2> HIDE DEF run
  <2>1. req[r].op \in STEP_IDS /\ req[r].ok \in BOOLEAN
    BY ReqFields, HolderHasStage
  <2> QED  BY <1>1, <1>2, <2>1, MoveStep

LEMMA TypeSaveAttempt ==
  ASSUME Typed, NEW r \in Request, SaveAttempt(r) \/ SaveAttemptFault(r)
  PROVE  Typed'
<1>1. req[r].pc \in HoldingPc /\ {"smtp", "settle"} \subseteq Pc
  BY DEF SaveAttempt, SaveAttemptFault, HoldingPc, Pc
<1>2. req' \in [Request -> Req] /\ \A q \in Request : OpMatches(req'[q])
  BY <1>1, BumpStep DEF SaveAttempt, SaveAttemptFault
<1>3. AttemptSaved(r) \in Run
  BY ReqFields, BumpedType DEF AttemptSaved
<1>4. row' \in Run /\ expired' \in BOOLEAN /\ fresh' \in SUBSET Request
  BY <1>3, PutType DEF SaveAttempt, SaveAttemptFault, storeVars, Typed, TypeOK
<1>5. causes' \in SUBSET Cause
  BY CauseTypes DEF SaveAttempt, SaveAttemptFault, Typed, TypeOK
<1> QED
  BY <1>2, <1>4, <1>5 DEF SaveAttempt, SaveAttemptFault, Typed, TypeOK, worldVars

LEMMA TypeSmtp ==
  ASSUME Typed, NEW r \in Request,
         \/ \E here \in BOOLEAN : SmtpAccepts(r, here)
         \/ SmtpFails(r) \/ SmtpRefuses(r)
  PROVE  Typed'
<1>1. req[r].op \in STEP_IDS /\ {"finish", "settle"} \subseteq Pc
  BY HolderHasStage DEF SmtpAccepts, SmtpFails, SmtpRefuses, HoldingPc, Pc
<1>2. req[r].run.attempt.id \in Nat /\ req[r].run.package \in Nat
  BY ReqFields DEF Run, Attempt
<1>3. req' \in [Request -> Req] /\ \A q \in Request : OpMatches(req'[q])
  <2>1. ASSUME NEW pc \in {"finish", "settle"}, NEW ok \in BOOLEAN,
               \/ req' = [req EXCEPT ![r].pc = pc, ![r].ok = ok,
                                     ![r].run.attempt.state = "confirmed"]
               \/ /\ ok = req[r].ok
                  /\ req' = [req EXCEPT ![r].pc = pc,
                                        ![r].run.attempt.state = "confirmed"]
        PROVE  req' \in [Request -> Req] /\ \A q \in Request : OpMatches(req'[q])
    <3> DEFINE run == [req[r].run EXCEPT !.attempt.state = "confirmed"]
    <3>1. run \in Run
      BY ReqFields DEF Run, Attempt, AttemptState
    <3>2. \/ req' = [req EXCEPT ![r].pc = pc, ![r].ok = ok, ![r].run = run]
          \/ ok = req[r].ok /\ req' = [req EXCEPT ![r].pc = pc, ![r].run = run]
      <4>1. \/ req' = [req EXCEPT ![r] = [@ EXCEPT !.pc = pc, !.ok = ok,
                                                   !.run.attempt.state = "confirmed"]]
            \/ /\ ok = req[r].ok
               /\ req' = [req EXCEPT ![r] = [@ EXCEPT !.pc = pc,
                                                   !.run.attempt.state = "confirmed"]]
        BY <2>1 DEF Typed, TypeOK
      <4>2. [req[r] EXCEPT !.run.attempt.state = "confirmed"]
              = [req[r] EXCEPT !.run = run]
        BY ReqFields DEF Req, Run
      <4> QED  BY <4>1, <4>2, ReqFields DEF Req, Run
    <3>3. req' = [req EXCEPT ![r] = [@ EXCEPT !.pc = pc, !.run = run, !.ok = ok]]
      <4> HIDE DEF run
      <4>1. CASE req' = [req EXCEPT ![r].pc = pc, ![r].ok = ok, ![r].run = run]
        BY <4>1, ReqFields DEF Typed, TypeOK, Req
      <4>2. CASE ok = req[r].ok /\ req' = [req EXCEPT ![r].pc = pc, ![r].run = run]
        BY <4>2, ReqFields DEF Typed, TypeOK, Req
      <4> QED  BY <3>2, <4>1, <4>2
    <3> HIDE DEF run
    <3> QED  BY <1>1, <3>1, <3>3, MoveStep
  <2>2. CASE Goto(r, "settle")
    BY <1>1, <2>2, GoStep DEF Goto
  <2> QED  BY <2>1, <2>2, ReqFields DEF SmtpAccepts, SmtpFails, SmtpRefuses
<1>4. mails' \in SUBSET Mail /\ refused' \in SUBSET Nat
  <2>1. ASSUME NEW here \in BOOLEAN, SmtpAccepts(r, here)
        PROVE  mails' \in SUBSET Mail
    BY <1>2, <2>1 DEF SmtpAccepts, Mail, Typed, TypeOK
  <2> QED  BY <1>2, <2>1
       DEF SmtpAccepts, SmtpFails, SmtpRefuses, worldVars, Typed, TypeOK
<1> QED
  BY <1>3, <1>4 DEF SmtpAccepts, SmtpFails, SmtpRefuses, Typed, TypeOK,
                    storeVars, worldVars, historyVars

LEMMA FinishedRun ==
  ASSUME NEW run \in Run, NEW done \in SUBSET STEP_IDS
  PROVE  [run EXCEPT !.active = "none", !.by = 0, !.done = done] \in Run
  BY DEF Run

LEMMA FinishedType ==
  ASSUME Typed, NEW r \in Request, req[r].pc \in HoldingPc
  PROVE  Finished(r) \in Run
<1> DEFINE run == req[r].run
           done == IF req[r].ok THEN run.done \cup {req[r].op}
                                ELSE run.done \ {req[r].op}
<1>1. run \in Run /\ req[r].op \in STEP_IDS
  BY ReqFields, HolderHasStage
<1>2. done \in SUBSET STEP_IDS
  BY <1>1 DEF Run
<1>3. Finished(r) = [run EXCEPT !.active = "none", !.by = 0, !.done = done]
  BY DEF Finished
<1> QED
  <2> HIDE DEF run, done
  <2> QED  BY <1>1, <1>2, <1>3, FinishedRun

LEMMA TypeFinish ==
  ASSUME Typed, NEW r \in Request,
         \/ FinishRead(r) \/ FinishWrite(r) \/ FinishConflict(r) \/ FinishFault(r)
         \/ SettleRead(r) \/ SettleWrite(r) \/ SettleConflict(r)
  PROVE  Typed'
<1>1. req[r].pc \in HoldingPc /\ {"finishWrite", "settleWrite"} \subseteq Pc
  BY DEF FinishRead, FinishWrite, FinishConflict, FinishFault,
         SettleRead, SettleWrite, SettleConflict, HoldingPc, Pc
<1>2. req' \in [Request -> Req] /\ \A q \in Request : OpMatches(req'[q])
  BY <1>1, EndStep, RaiseStep, BumpStep
  DEF FinishRead, FinishWrite, FinishConflict, FinishFault,
      SettleRead, SettleWrite, SettleConflict
<1>3. row' \in Run /\ expired' \in BOOLEAN /\ fresh' \in SUBSET Request
  BY <1>1, FinishedType, PutType, KeepType
  DEF FinishRead, FinishWrite, FinishConflict, FinishFault,
      SettleRead, SettleWrite, SettleConflict, storeVars, Typed, TypeOK
<1>4. causes' \in SUBSET Cause
  <2>1. causes' = causes \/ causes' = causes \cup Late(r)
    BY DEF FinishRead, FinishWrite, FinishConflict, FinishFault, SettleRead,
           SettleWrite, SettleConflict, historyVars
  <2> QED  BY <2>1, CauseTypes DEF Typed, TypeOK
<1> QED
  BY <1>2, <1>3, <1>4
  DEF FinishRead, FinishWrite, FinishConflict, FinishFault, SettleRead,
      SettleWrite, SettleConflict, historyVars, worldVars, Typed, TypeOK

-----------------------------------------------------------------------------
LEMMA AfterType ==
  ASSUME NEW op, NEW run
  PROVE  /\ After(op, run) \in Pc \ (HoldingPc \cup {"claim"})
         /\ After(op, run) = "resolve" => op = "resolve"
  BY DEF After, Pc, HoldingPc

LEMMA TypeOpen ==
  ASSUME Typed, NEW r \in Request,
         NEW op \in {"view", "waive", "unwaive", "resolve", "reset"},
         NEW target \in WAIVABLE_STEPS, Open(r, op, target)
  PROVE  Typed'
<1> DEFINE pc == IF Stale THEN "takeover" ELSE After(op, row)
           ok == op = "resolve" /\ Accepted(row.attempt.id)
           new == [pc |-> pc, op |-> op, n |-> ops', run |-> row, ok |-> ok,
                   target |-> target]
<1>1. pc \in Pc \ (HoldingPc \cup {"claim"}) /\ (pc = "resolve" => op = "resolve")
  BY AfterType DEF Pc, HoldingPc
<1>2. ok \in BOOLEAN
  OBVIOUS
<1>3. ops' \in Nat /\ row \in Run /\ op \in Operation
  BY DEF Open, Typed, TypeOK, Operation
<1>4. req' = [req EXCEPT ![r] = new]
  BY DEF Open
<1>5. new \in Req /\ OpMatches(new)
  <2> HIDE DEF pc, ok
  <2> QED  BY <1>1, <1>2, <1>3 DEF Req, OpMatches
<1>6. req' \in [Request -> Req] /\ \A q \in Request : OpMatches(req'[q])
  <2> HIDE DEF new
  <2> QED  BY <1>4, <1>5, ReqStep
<1> QED
  BY <1>3, <1>6, KeepType DEF Open, Typed, TypeOK, worldVars

LEMMA TakenOverType ==
  ASSUME NEW run \in Run
  PROVE  TakenOver(run) \in Run
<1>1. Bumped(run) \in Run /\ Bumped(run).done \ {run.active} \in SUBSET STEP_IDS
  BY BumpedType DEF Run
<1> QED  BY <1>1 DEF TakenOver, Run

LEMMA TypeTakeOver ==
  ASSUME Typed, NEW r \in Request, TakeOver(r)
  PROVE  Typed'
<1> DEFINE run == TakenOver(req[r].run)
           next == After(req[r].op, run)
<1>1. run \in Run
  BY ReqFields, TakenOverType
<1>2. req' \in [Request -> Req] /\ \A q \in Request : OpMatches(req'[q])
  <2>1. CASE End(r)
    BY <2>1, EndStep
  <2>2. CASE req' = [req EXCEPT ![r].pc = next, ![r].run = run]
    <3>1. next \in Pc \ (HoldingPc \cup {"claim"})
          /\ (next = "resolve" => req[r].op = "resolve")
      BY AfterType
    <3> HIDE DEF next, run
    <3>2. req' = [req EXCEPT ![r] = [@ EXCEPT !.pc = next, !.run = run,
                                              !.ok = req[r].ok]]
      BY <2>2, ReqFields DEF Typed, TypeOK, Req
    <3>3. req[r].ok \in BOOLEAN
      BY ReqFields
    <3> QED  BY <1>1, <3>1, <3>2, <3>3, MoveStep
  <2> QED  BY <2>1, <2>2 DEF TakeOver
<1>3. row' \in Run /\ expired' \in BOOLEAN /\ fresh' \in SUBSET Request
  BY <1>1, PutType DEF TakeOver
<1> QED
  BY <1>2, <1>3, CauseTypes DEF TakeOver, Typed, TypeOK, worldVars

LEMMA TypeUpdateWrite ==
  ASSUME Typed, NEW r \in Request, UpdateWrite(r)
  PROVE  Typed'
<1>1. ASSUME NEW waivers \in SUBSET WAIVABLE_STEPS
      PROVE  [Bumped(req[r].run) EXCEPT !.waivers = waivers] \in Run
  BY ReqFields, BumpedType DEF Run
<1>2. /\ Bumped(req[r].run).waivers \cup {req[r].target} \in SUBSET WAIVABLE_STEPS
      /\ Bumped(req[r].run).waivers \ {req[r].target} \in SUBSET WAIVABLE_STEPS
  BY ReqFields, BumpedType DEF Run
<1>3. row' \in Run /\ expired' \in BOOLEAN /\ fresh' \in SUBSET Request
  BY <1>1, <1>2, PutType DEF UpdateWrite
<1>4. granted' \in SUBSET WAIVABLE_STEPS
  BY ReqFields DEF UpdateWrite, Typed, TypeOK
<1> QED
  BY <1>3, <1>4, EndStep DEF UpdateWrite, Typed, TypeOK, worldVars

LEMMA TypeUpdateConflict ==
  ASSUME Typed, NEW r \in Request, UpdateConflict(r)
  PROVE  Typed'
<1> DEFINE next == IF Stale THEN "takeover" ELSE After(req[r].op, row)
<1>1. CASE End(r) /\ UNCHANGED storeVars
  BY <1>1, EndStep
  DEF UpdateConflict, Typed, TypeOK, storeVars, worldVars, historyVars
<1>2. CASE req' = [req EXCEPT ![r].pc = next, ![r].run = row] /\ Keep(r)
  <2>1. /\ next \in Pc \ (HoldingPc \cup {"claim"})
        /\ next = "resolve" => req[r].op = "resolve"
    BY AfterType DEF Pc, HoldingPc
  <2>2. req' \in [Request -> Req] /\ \A q \in Request : OpMatches(req'[q])
    <3> HIDE DEF next
    <3>1. req' = [req EXCEPT ![r] = [@ EXCEPT !.pc = next, !.run = row,
                                              !.ok = req[r].ok]]
      BY <1>2, ReqFields DEF Typed, TypeOK, Req
    <3>2. req[r].ok \in BOOLEAN /\ row \in Run
      BY ReqFields DEF Typed, TypeOK
    <3> QED  BY <2>1, <3>1, <3>2, MoveStep
  <2> QED
    BY <1>2, <2>2, KeepType
    DEF UpdateConflict, Typed, TypeOK, worldVars, historyVars
<1> QED
  BY <1>1, <1>2 DEF UpdateConflict

LEMMA ResolvedType ==
  ASSUME NEW run \in Run, NEW delivered \in BOOLEAN
  PROVE  Resolved(run, delivered) \in Run
<1>1. Bumped(run) \in Run
  BY BumpedType
<1>2. ASSUME NEW state \in AttemptState, NEW done \in SUBSET STEP_IDS
      PROVE  /\ [Bumped(run) EXCEPT !.attempt.state = state] \in Run
             /\ [Bumped(run) EXCEPT !.attempt.state = state, !.done = done] \in Run
  BY <1>1 DEF Run, Attempt
<1>3. Bumped(run).done \cup {"send"} \in SUBSET STEP_IDS
  BY <1>1, StepTypes DEF Run
<1>4. {"confirmed", "failed"} \subseteq AttemptState
  BY DEF AttemptState
<1> QED
  BY <1>2, <1>3, <1>4 DEF Resolved

LEMMA TypeResolveWrite ==
  ASSUME Typed, NEW r \in Request, ResolveWrite(r)
  PROVE  Typed'
<1>1. row' \in Run /\ expired' \in BOOLEAN /\ fresh' \in SUBSET Request
  BY ReqFields, ResolvedType, PutType DEF ResolveWrite
<1>2. causes' \in SUBSET Cause
  BY CauseTypes DEF ResolveWrite, Typed, TypeOK, Cause
<1> QED
  BY <1>1, <1>2, EndStep DEF ResolveWrite, Typed, TypeOK, worldVars

LEMMA TypeReset ==
  ASSUME Typed, NEW r \in Request, ResetRead(r) \/ ResetWrite(r)
  PROVE  Typed'
<1>1. CASE ResetRead(r)
  <2> DEFINE run == NewRun(req[r].n, row.rev)
  <2>1. run \in Run
    BY ReqFields, NewRunType DEF Typed, TypeOK, Run
  <2>2. req' \in [Request -> Req] /\ \A q \in Request : OpMatches(req'[q])
    <3>1. req' = [req EXCEPT ![r].pc = "resetWrite", ![r].run = run]
      BY <1>1 DEF ResetRead
    <3> HIDE DEF run
    <3>2. req' = [req EXCEPT ![r] = [@ EXCEPT !.pc = "resetWrite", !.run = run,
                                              !.ok = req[r].ok]]
      BY <3>1, ReqFields DEF Typed, TypeOK, Req
    <3>3. req[r].ok \in BOOLEAN /\ "resetWrite" \in Pc /\ "resetWrite" \notin HoldingPc
      BY ReqFields DEF Pc, HoldingPc
    <3> QED  BY <2>1, <3>2, <3>3, MoveStep
  <2> QED
    BY <1>1, <2>2, KeepType DEF ResetRead, Typed, TypeOK, worldVars, historyVars
<1>2. CASE ResetWrite(r)
  <2>1. row' \in Run /\ expired' \in BOOLEAN /\ fresh' \in SUBSET Request
    BY <1>2, ReqFields, BumpedType, PutType DEF ResetWrite
  <2>2. causes' \in SUBSET Cause
    BY <1>2, CauseTypes DEF ResetWrite, Typed, TypeOK, Cause
  <2> QED
    BY <1>2, <2>1, <2>2, EndStep DEF ResetWrite, Typed, TypeOK, worldVars
<1> QED  BY <1>1, <1>2

LEMMA TypeOther ==
  ASSUME Typed, Expire \/ \E r \in Request : Abandon(r)
  PROVE  Typed'
<1>1. CASE Expire
  BY <1>1 DEF Expire, Typed, TypeOK, worldVars, historyVars, OpMatches
<1>2. ASSUME NEW r \in Request, Abandon(r) PROVE Typed'
  BY <1>2, EndStep DEF Abandon, Typed, TypeOK, storeVars, worldVars, historyVars
<1> QED  BY <1>1, <1>2

LEMMA TypeStep == Typed /\ [Next]_vars => Typed'
<1> SUFFICES ASSUME Typed, [Next]_vars PROVE Typed'
  OBVIOUS
<1>1. CASE UNCHANGED vars
  BY <1>1 DEF vars, Typed, TypeOK, OpMatches
<1>2. ASSUME NEW r \in Request, NEW step \in STEP_IDS, ClaimRead(r, step)
      PROVE  Typed'
  BY <1>2, TypeClaimRead
<1>3. ASSUME NEW r \in Request, NEW target \in WAIVABLE_STEPS,
             NEW op \in {"view", "waive", "unwaive", "resolve", "reset"},
             Open(r, op, target)
      PROVE  Typed'
  BY <1>3, TypeOpen
<1>4. ASSUME NEW r \in Request, StageStep(r) PROVE Typed'
  BY <1>4, TypeClaimWrite, TypeClaimConflict, TypeWork, TypeBuildPackage,
     TypeBeginAttempt, TypeSaveAttempt, TypeSmtp, TypeFinish DEF StageStep
<1>5. ASSUME NEW r \in Request, OperatorStep(r) PROVE Typed'
  BY <1>5, TypeTakeOver, TypeUpdateWrite, TypeUpdateConflict, TypeResolveWrite,
     TypeReset DEF OperatorStep
<1>6. CASE Expire \/ \E r \in Request : Abandon(r)
  BY <1>6, TypeOther
<1> QED
  BY <1>1, <1>2, <1>3, <1>4, <1>5, <1>6, StepTypes DEF Next, View

(***************************************************************************)
(* Every variable keeps its type (MonthClose.tla, TypeOK).                 *)
(***************************************************************************)
THEOREM CloseTypeCorrect == Spec => []TypeOK
<1>1. Typed => TypeOK
  BY DEF Typed
<1> QED
  BY <1>1, TypeInit, TypeStep, PTL DEF Spec

-----------------------------------------------------------------------------
(***************************************************************************)
(* As long as no e-mail went out, neither the stored run nor any copy of   *)
(* it has send done, and no request is about to say that it is: send has   *)
(* not succeeded and no operator has found an attempt delivered.           *)
(***************************************************************************)
Unsent(run) == "send" \notin run.done

Silent(q) == Unsent(q.run) /\ (q.ok => q.op \notin {"send", "resolve"})

SentOnlyIfMailed ==
    mails = {} => Unsent(row) /\ \A r \in Request : Silent(req[r])

LEMMA SentInit == Init => SentOnlyIfMailed
  BY StepTypes DEF Init, SentOnlyIfMailed, Unsent, Silent, NewRun, IdleReq

\* how the run of a request may change while no e-mail has gone out
LEMMA SilentStep ==
  ASSUME Typed, NEW r \in Request, \A q \in Request : Silent(req[q]),
         NEW new \in Req, Silent(new), req' = [req EXCEPT ![r] = new]
  PROVE  \A q \in Request : Silent(req'[q])
  BY DEF Typed, TypeOK

LEMMA SilentEnd ==
  ASSUME Typed, NEW r \in Request, \A q \in Request : Silent(req[q]), End(r)
  PROVE  \A q \in Request : Silent(req'[q])
<1>1. Silent(IdleReq)
  BY DEF Silent, Unsent, IdleReq, NewRun
<1> QED  BY <1>1, SilentStep, IdleReqType DEF End

LEMMA SilentRuns ==
  ASSUME Typed, NEW r \in Request, Silent(req[r])
  PROVE  /\ Unsent(Bumped(req[r].run))
         /\ Unsent(TakenOver(req[r].run))
         /\ Unsent(Claimed(r))
         /\ Unsent(AttemptSaved(r))
         /\ req[r].pc \in HoldingPc => Unsent(Finished(r))
         /\ req[r].pc = "resolve" => Unsent(Resolved(req[r].run, req[r].ok))
<1>1. req[r].run \in Run /\ OpMatches(req[r])
  BY ReqFields
<1>2. Unsent(Bumped(req[r].run)) /\ Bumped(req[r].run) \in Run
  BY <1>1, BumpedType DEF Bumped, Run, Silent, Unsent
<1>3. Unsent(TakenOver(req[r].run))
  BY <1>2 DEF TakenOver, Run, Unsent
<1>4. Unsent(Claimed(r))
  BY <1>1 DEF Claimed, Run, Silent, Unsent
<1>5. Unsent(Finished(r))
  BY <1>1 DEF Finished, Run, Silent, Unsent
<1>6. req[r].pc = "resolve" => Unsent(Resolved(req[r].run, req[r].ok))
  BY <1>1, <1>2 DEF Resolved, Run, Silent, Unsent, OpMatches
<1> QED  BY <1>2, <1>3, <1>4, <1>5, <1>6 DEF AttemptSaved

\* a request whose operation stays and whose copy has not send done
LEMMA SilentMove ==
  ASSUME Typed, NEW r \in Request, \A q \in Request : Silent(req[q]),
         req' \in [Request -> Req],
         \A q \in Request \ {r} : req'[q] = req[q],
         Unsent(req'[r].run), req'[r].op = req[r].op,
         req'[r].ok => req[r].ok \/ req[r].op \notin {"send", "resolve"}
  PROVE  \A q \in Request : Silent(req'[q])
  BY DEF Silent

LEMMA SentStage ==
  ASSUME Typed, Typed', SentOnlyIfMailed, NEW r \in Request, StageStep(r)
  PROVE  SentOnlyIfMailed'
<1> SUFFICES ASSUME mails' = {}
             PROVE  Unsent(row)' /\ \A q \in Request : Silent(req'[q])
  BY DEF SentOnlyIfMailed, Silent, Unsent
<1>1. mails = {} /\ ~\E here \in BOOLEAN : SmtpAccepts(r, here)
  <2>1. \A here \in BOOLEAN : ~SmtpAccepts(r, here)
    BY DEF SmtpAccepts
  <2> QED
    BY <2>1 DEF StageStep, ClaimWrite, ClaimConflict, Collect, WorkFails,
         BuildPackage, BeginAttempt, SaveAttempt, SaveAttemptFault, SmtpFails,
         SmtpRefuses, FinishRead, FinishWrite, FinishConflict, FinishFault,
         SettleRead, SettleWrite, SettleConflict, worldVars
<1>2. Unsent(row) /\ \A q \in Request : Silent(req[q])
  BY <1>1 DEF SentOnlyIfMailed
<1>3. req \in [Request -> Req] /\ req' \in [Request -> Req] /\ req[r] \in Req
  BY DEF Typed, TypeOK
<1>4. Unsent(row)'
  <2>1. \/ row' = row
        \/ row' \in {Claimed(r), AttemptSaved(r)}
        \/ req[r].pc \in HoldingPc /\ row' = Finished(r)
    BY <1>1 DEF StageStep, ClaimWrite, ClaimConflict, Collect, WorkFails,
         BuildPackage, BeginAttempt, SaveAttempt, SaveAttemptFault, SmtpFails,
         SmtpRefuses, FinishRead, FinishWrite, FinishConflict, FinishFault,
         SettleRead, SettleWrite, SettleConflict, storeVars, Keep, Put, HoldingPc
  <2> QED  BY <1>2, <2>1, SilentRuns DEF Unsent
<1>5. \A q \in Request : Silent(req'[q])
  <2>1. ASSUME End(r) PROVE \A q \in Request : Silent(req'[q])
    BY <1>2, <2>1, SilentEnd
  <2>2. ASSUME NEW pc, \/ req' = [req EXCEPT ![r].pc = pc]
                       \/ req' = [req EXCEPT ![r].pc = pc, ![r].ok = FALSE]
        PROVE  \A q \in Request : Silent(req'[q])
    BY <1>2, <1>3, <2>2 DEF Silent, Req, Unsent
  <2>3. ASSUME NEW run, Unsent(run), NEW pc,
               \/ req' = [req EXCEPT ![r].pc = pc, ![r].run = run]
               \/ req' = [req EXCEPT ![r].run = run]
        PROVE  \A q \in Request : Silent(req'[q])
    BY <1>2, <1>3, <2>3 DEF Silent, Req, Unsent
  <2>4. ASSUME Collect(r) \/ BuildPackage(r)
        PROVE \A q \in Request : Silent(req'[q])
    <3>1. req[r].op \notin {"send", "resolve"}
      BY <2>4, StepTypes DEF Collect, BuildPackage
    <3>2. Unsent(req'[r].run) /\ req'[r].op = req[r].op
      BY <1>2, <1>3, <2>4 DEF Collect, BuildPackage, Silent, Unsent, Req, Run
    <3>3. \A q \in Request \ {r} : req'[q] = req[q]
      BY <1>3, <2>4 DEF Collect, BuildPackage
    <3> QED  BY <1>2, <1>3, <3>1, <3>2, <3>3, SilentMove
  <2>5. ASSUME BeginAttempt(r) PROVE \A q \in Request : Silent(req'[q])
    <3>1. /\ Unsent(req'[r].run) /\ req'[r].op = req[r].op
          /\ req'[r].ok = req[r].ok
      BY <1>2, <1>3, <2>5 DEF BeginAttempt, Silent, Unsent, Req, Run
    <3>2. \A q \in Request \ {r} : req'[q] = req[q]
      BY <1>3, <2>5 DEF BeginAttempt
    <3> QED  BY <1>2, <1>3, <3>1, <3>2, SilentMove
  <2>6. ASSUME Raise(r) PROVE \A q \in Request : Silent(req'[q])
    BY <2>1, <2>2, <2>6 DEF Raise
  <2>7. Unsent(Bumped(req[r].run)) /\ Unsent(Claimed(r))
    BY <1>2, SilentRuns
  <2> QED
    BY <1>1, <1>2, <2>1, <2>2, <2>3, <2>4, <2>5, <2>6, <2>7
    DEF StageStep, ClaimWrite, ClaimConflict, WorkFails, SaveAttempt,
        SaveAttemptFault, SmtpFails, SmtpRefuses, FinishRead, FinishWrite,
        FinishConflict, FinishFault, SettleRead, SettleWrite, SettleConflict,
        Goto
<1> QED  BY <1>4, <1>5

LEMMA SentOperator ==
  ASSUME Typed, Typed', SentOnlyIfMailed, NEW r \in Request, OperatorStep(r)
  PROVE  SentOnlyIfMailed'
<1> SUFFICES ASSUME mails' = {}
             PROVE  Unsent(row)' /\ \A q \in Request : Silent(req'[q])
  BY DEF SentOnlyIfMailed, Silent, Unsent
<1>1. mails = {}
  BY DEF OperatorStep, TakeOver, UpdateWrite, UpdateConflict, ResolveWrite,
         ResetRead, ResetWrite, worldVars
<1>2. Unsent(row) /\ \A q \in Request : Silent(req[q])
  BY <1>1 DEF SentOnlyIfMailed
<1>3. req \in [Request -> Req] /\ req' \in [Request -> Req] /\ req[r] \in Req
      /\ req[r].run \in Run /\ Bumped(req[r].run) \in Run
  BY ReqFields, BumpedType DEF Typed, TypeOK
<1>4. Unsent(Bumped(req[r].run)) /\ Unsent(TakenOver(req[r].run))
  BY <1>2, SilentRuns
<1>5. Unsent(row)'
  <2>1. \/ row' \in {row, Bumped(req[r].run), TakenOver(req[r].run)}
        \/ \E waivers : row' = [Bumped(req[r].run) EXCEPT !.waivers = waivers]
        \/ req[r].pc = "resolve" /\ row' = Resolved(req[r].run, req[r].ok)
    BY DEF OperatorStep, TakeOver, UpdateWrite, UpdateConflict, ResolveWrite,
           ResetRead, ResetWrite, Put, Keep, storeVars
  <2>2. \A waivers : Unsent([Bumped(req[r].run) EXCEPT !.waivers = waivers])
    BY <1>3, <1>4 DEF Unsent, Run
  <2> QED  BY <1>2, <1>4, <2>1, <2>2, SilentRuns DEF Unsent
<1>6. \A q \in Request : Silent(req'[q])
  <2>1. ASSUME End(r) PROVE \A q \in Request : Silent(req'[q])
    BY <1>2, <2>1, SilentEnd
  <2>2. ASSUME NEW run, Unsent(run), NEW pc,
               req' = [req EXCEPT ![r].pc = pc, ![r].run = run]
        PROVE  \A q \in Request : Silent(req'[q])
    BY <1>2, <1>3, <2>2 DEF Silent, Req, Unsent
  <2>3. Unsent(NewRun(req[r].n, row.rev))
    BY DEF Unsent, NewRun
  <2> QED
    BY <1>2, <1>4, <2>1, <2>2, <2>3
    DEF OperatorStep, TakeOver, UpdateWrite, UpdateConflict, ResolveWrite,
        ResetRead, ResetWrite
<1> QED  BY <1>5, <1>6

LEMMA SentStep == Typed /\ SentOnlyIfMailed /\ [Next]_vars => SentOnlyIfMailed'
<1> SUFFICES ASSUME Typed, SentOnlyIfMailed, [Next]_vars
             PROVE  SentOnlyIfMailed'
  OBVIOUS
<1>1. Typed'
  BY TypeStep
<1>2. CASE UNCHANGED vars
  BY <1>2 DEF vars, SentOnlyIfMailed
<1>3. ASSUME NEW r \in Request, StageStep(r) \/ OperatorStep(r)
      PROVE  SentOnlyIfMailed'
  BY <1>1, <1>3, SentStage, SentOperator
<1>4. ASSUME NEW r \in Request,
             \/ \E step \in STEP_IDS : ClaimRead(r, step)
             \/ \E op \in {"view", "waive", "unwaive", "resolve", "reset"},
                   target \in WAIVABLE_STEPS : Open(r, op, target)
      PROVE  SentOnlyIfMailed'
  <2>1. row' = row /\ mails' = mails /\ Typed'
    BY <1>1, <1>4 DEF ClaimRead, Open, Keep, worldVars
  <2>2. \A q \in Request \ {r} : req'[q] = req[q]
    BY <1>4 DEF ClaimRead, Open, Typed, TypeOK
  <2>3. req'[r].run = row
    <3>1. ASSUME NEW step, ClaimRead(r, step) PROVE req'[r].run = row
      BY <3>1, IdleReqType DEF ClaimRead, Typed, TypeOK, Req
    <3>2. ASSUME NEW op, NEW target, Open(r, op, target)
          PROVE  req'[r].run = row
      BY <3>2 DEF Open, Typed, TypeOK
    <3> QED  BY <1>4, <3>1, <3>2
  <2>4. mails = {} => ~req'[r].ok
    <3>1. ASSUME NEW step, ClaimRead(r, step) PROVE ~req'[r].ok
      BY <3>1 DEF ClaimRead, Typed, TypeOK, IdleReq
    <3>2. ASSUME NEW op, NEW target, Open(r, op, target), mails = {}
          PROVE  ~req'[r].ok
      BY <3>2 DEF Open, Accepted, Typed, TypeOK
    <3> QED  BY <1>4, <3>1, <3>2
  <2> QED
    BY <2>1, <2>2, <2>3, <2>4 DEF SentOnlyIfMailed, Silent, Unsent
<1>5. CASE Expire \/ \E r \in Request : Abandon(r)
  <2>1. CASE Expire
    BY <2>1 DEF Expire, SentOnlyIfMailed, worldVars
  <2>2. ASSUME NEW r \in Request, Abandon(r) PROVE SentOnlyIfMailed'
    BY <2>2, SilentEnd DEF Abandon, SentOnlyIfMailed, storeVars, worldVars
  <2> QED  BY <1>5, <2>1, <2>2
<1> QED
  BY <1>2, <1>3, <1>4, <1>5, StepTypes DEF Next, View

(***************************************************************************)
(* send is marked done only after an e-mail went out, whatever becomes of  *)
(* claims, saves and settled attempts (MonthClose.tla, DoneIsMailed).      *)
(***************************************************************************)
THEOREM DoneIsMailedHolds == Spec => []DoneIsMailed
<1>1. Init => Typed /\ SentOnlyIfMailed
  BY TypeInit, SentInit
<1>2. Typed /\ SentOnlyIfMailed /\ [Next]_vars => (Typed /\ SentOnlyIfMailed)'
  BY TypeStep, SentStep
<1>3. Typed /\ SentOnlyIfMailed => DoneIsMailed
  BY DEF SentOnlyIfMailed, DoneIsMailed, Unsent
<1> QED
  BY <1>1, <1>2, <1>3, PTL DEF Spec

-----------------------------------------------------------------------------
(***************************************************************************)
(* The kinds of steps a request takes, by what they do to its copy of the  *)
(* run and to the stored one.  The invariants below are kept by each kind. *)
(***************************************************************************)
Others(r) == \A q \in Request \ {r} : req'[q] = req[q]

Becomes(r, pc, run) ==
    /\ req'[r].pc = pc /\ req'[r].run = run
    /\ req'[r].op = req[r].op /\ req'[r].n = req[r].n

Stored == UNCHANGED <<row, expired, fresh>>

World == UNCHANGED <<blob, localZip, mails, granted>>

Reread(r) == row' = row /\ expired' = expired /\ fresh' = fresh \cup {r}

NotBlind(r) == r \in fresh \/ "blind_save" \in causes'

\* the request is over, or abandoned
Ends(r) == req'[r] = IdleReq /\ Stored /\ World /\ ops' = ops

\* a copy is taken of the stored run, for the first time or again
Reads(r) ==
    /\ req'[r].pc \in {"claim", "takeover", "update", "resolve", "reset"}
    /\ req'[r].run = row
    /\ Reread(r) /\ World
    /\ req'[r].pc = "claim" => ~Busy
    /\ req'[r].pc = "takeover" => Stale
    /\ req'[r].pc = "update" => row.active = "none"
    /\ \/ ops' = ops + 1 /\ req'[r].n = ops'
       \/ ops' = ops /\ req'[r].op \notin STEP_IDS
       \/ ops' = ops /\ req'[r].op = req[r].op /\ req'[r].n = req[r].n

\* a stage goes on without a write; it may have built a package
Passes(r) ==
    /\ <<req[r].pc, req'[r].pc>> \in
          {<<"work", "finish">>, <<"work", "settle">>, <<"smtp", "settle">>,
           <<"finish", "settle">>, <<"finishWrite", "settle">>}
    /\ \E package : Becomes(r, req'[r].pc, [req[r].run EXCEPT !.package = package])
    /\ Stored /\ UNCHANGED <<mails, ops, granted>>
    /\ \/ UNCHANGED <<blob, localZip>>
       \/ /\ req[r].pc = "work"
          /\ localZip' = localZip \/ "local_zip" \in causes'

Begins(r) ==
    /\ req[r].pc = "work" /\ MaySend(req[r].run.attempt)
    /\ req[r].run.package = blob
    /\ Becomes(r, "attempt",
               [req[r].run EXCEPT !.attempt = [id |-> req[r].n,
                                               state |-> "pending"]])
    /\ Stored /\ World /\ ops' = ops

Sends(r) ==
    /\ req[r].pc = "smtp" /\ req'[r].pc \in {"finish", "settle"}
    /\ \/ Becomes(r, req'[r].pc, req[r].run)
       \/ Becomes(r, req'[r].pc,
                  [req[r].run EXCEPT !.attempt.state = "confirmed"])
    /\ \E m : /\ mails' = mails \cup {m}
              /\ m.attempt = req[r].run.attempt.id
              /\ m.reviewed = req[r].run.package
              /\ localZip = 0 => m.package = blob
    /\ Stored /\ UNCHANGED <<blob, localZip, ops, granted>>

\* save finds the revision of the copy stored and raises it
Rereads(r) ==
    /\ <<req[r].pc, req'[r].pc>> \in {<<"finish", "finishWrite">>,
                                      <<"settle", "settleWrite">>}
    /\ row.rev = req[r].run.rev
    /\ Becomes(r, req'[r].pc, Bumped(req[r].run))
    /\ r \in fresh \/ "late_result" \in causes'
    /\ Reread(r) /\ World /\ ops' = ops

SavesNothing(r) ==
    /\ req[r].pc = "attempt"
    /\ Becomes(r, "settle", Bumped(req[r].run))
    /\ Stored /\ World /\ ops' = ops

Blanks(r) ==
    /\ req[r].pc = "reset"
    /\ Becomes(r, "resetWrite", NewRun(req[r].n, row.rev))
    /\ Reread(r) /\ World /\ ops' = ops

\* the steps that write the stored run
Claims(r) ==
    /\ req[r].pc = "claim" /\ r \in fresh
    /\ row' = Claimed(r) /\ expired' = FALSE /\ fresh' = {r}
    /\ Becomes(r, "work", Claimed(r))
    /\ Overrun \subseteq causes'
    /\ granted' = granted \ {req[r].op}
    /\ UNCHANGED <<blob, localZip, mails, ops>>

Saves(r) ==
    /\ req[r].pc = "attempt" /\ req'[r].pc \in {"smtp", "settle"}
    /\ NotBlind(r)
    /\ row' = Bumped(req[r].run) /\ expired' = FALSE /\ fresh' = {r}
    /\ Becomes(r, req'[r].pc, Bumped(req[r].run))
    /\ World /\ ops' = ops

Finishes(r) ==
    /\ req[r].pc \in {"finishWrite", "settleWrite"} /\ r \in fresh
    /\ row' = Finished(r) /\ expired' = FALSE /\ fresh' \subseteq {r}
    /\ \/ req'[r] = IdleReq
       \/ req[r].pc = "finishWrite" /\ Becomes(r, "settle", req[r].run)
    /\ World /\ ops' = ops

Frees(r) ==
    /\ req[r].pc = "takeover" /\ NotBlind(r)
    /\ row' = TakenOver(req[r].run) /\ expired' = FALSE /\ fresh' = {r}
    /\ \/ req'[r] = IdleReq
       \/ /\ req'[r].pc \in {"update", "resolve", "reset"}
          /\ Becomes(r, req'[r].pc, TakenOver(req[r].run))
    /\ Overrun \subseteq causes'
    /\ World /\ ops' = ops

Updates(r) ==
    /\ req[r].pc = "update" /\ row.rev = req[r].run.rev
    /\ \E stages \in SUBSET WAIVABLE_STEPS :
          \/ /\ row' = [Bumped(req[r].run) EXCEPT
                          !.waivers = req[r].run.waivers \cup stages]
             /\ granted' = granted \cup stages
          \/ /\ row' = [Bumped(req[r].run) EXCEPT
                          !.waivers = req[r].run.waivers \ stages]
             /\ granted' = granted \ stages
    /\ expired' = FALSE /\ fresh' = {}
    /\ req'[r] = IdleReq
    /\ UNCHANGED <<blob, localZip, mails, ops>>

Resolves(r) ==
    LET id == req[r].run.attempt.id IN
    /\ req[r].pc = "resolve" /\ NotBlind(r)
    /\ row' = Resolved(req[r].run, req[r].ok)
    /\ ~req[r].ok /\ (Accepted(id) \/ Sending(id)) => "in_flight" \in causes'
    /\ expired' = FALSE /\ fresh' = {}
    /\ req'[r] = IdleReq
    /\ World /\ ops' = ops

Resets(r) ==
    /\ req[r].pc = "resetWrite" /\ NotBlind(r)
    /\ row' = Bumped(req[r].run)
    /\ row.active # "none" \/ InFlight(row.attempt) => "reset" \in causes'
    /\ expired' = FALSE /\ fresh' = {}
    /\ req'[r] = IdleReq
    /\ World /\ ops' = ops

Silently(r) ==
    \/ Ends(r) \/ Reads(r) \/ Passes(r) \/ Begins(r) \/ Sends(r)
    \/ Rereads(r) \/ SavesNothing(r) \/ Blanks(r)

Writing(r) ==
    \/ Claims(r) \/ Saves(r) \/ Finishes(r) \/ Frees(r) \/ Updates(r)
    \/ Resolves(r) \/ Resets(r)

Step(r) == Others(r) /\ (Silently(r) \/ Writing(r))

(***************************************************************************)
(* Every step of the system is of one of these kinds.                      *)
(***************************************************************************)
LEMMA EndKind ==
  ASSUME Typed, NEW r \in Request, End(r)
  PROVE  req'[r] = IdleReq /\ Others(r)
  BY DEF End, Others, Typed, TypeOK

LEMMA MoveKind ==
  ASSUME Typed, NEW r \in Request, NEW pc, NEW run,
         req' = [req EXCEPT ![r].pc = pc, ![r].run = run]
  PROVE  Becomes(r, pc, run) /\ Others(r)
  BY ReqFields DEF Becomes, Others, Typed, TypeOK, Req

LEMMA GoKind ==
  ASSUME Typed, NEW r \in Request, NEW pc, NEW ok,
         \/ req' = [req EXCEPT ![r].pc = pc]
         \/ req' = [req EXCEPT ![r].pc = pc, ![r].ok = ok]
  PROVE  Becomes(r, pc, req[r].run) /\ Others(r)
  BY ReqFields DEF Becomes, Others, Typed, TypeOK, Req

\* an exception ends the request or leads to the second way to finish
LEMMA RaiseKind ==
  ASSUME Typed, NEW r \in Request, Raise(r)
  PROVE  /\ Others(r)
         /\ \/ req'[r] = IdleReq
            \/ Becomes(r, "settle", req[r].run)
  BY EndKind, GoKind DEF Raise

LEMMA SamePackage ==
  ASSUME Typed, NEW r \in Request, NEW pc, Becomes(r, pc, req[r].run)
  PROVE  \E package : Becomes(r, pc, [req[r].run EXCEPT !.package = package])
<1>1. req[r].run = [req[r].run EXCEPT !.package = req[r].run.package]
  BY ReqFields DEF Run
<1> QED  BY <1>1

LEMMA WorkKind ==
  ASSUME Typed, NEW r \in Request, Collect(r) \/ WorkFails(r)
  PROVE  Step(r)
<1>1. req[r].pc = "work" /\ Stored /\ World /\ ops' = ops
  BY DEF Collect, WorkFails, storeVars, worldVars, historyVars, Stored, World
<1>2. /\ Others(r)
      /\ \/ req'[r] = IdleReq
         \/ Becomes(r, "settle", req[r].run)
         \/ Becomes(r, "finish", req[r].run)
  BY RaiseKind, GoKind DEF Collect, WorkFails, Goto
<1>3. CASE req'[r] = IdleReq
  BY <1>1, <1>2, <1>3 DEF Step, Silently, Ends
<1>4. ASSUME NEW pc \in {"settle", "finish"}, Becomes(r, pc, req[r].run)
      PROVE  Step(r)
  <2>1. \E package : Becomes(r, pc, [req[r].run EXCEPT !.package = package])
    BY <1>4, SamePackage
  <2> QED
    BY <1>1, <1>2, <1>4, <2>1 DEF Step, Silently, Passes, World, Becomes
<1> QED  BY <1>2, <1>3, <1>4

LEMMA BuildKind ==
  ASSUME Typed, NEW r \in Request, BuildPackage(r)
  PROVE  Step(r)
<1>1. PICK hash \in {0, req[r].n} :
        req' = [req EXCEPT ![r].pc = "finish", ![r].ok = TRUE,
                           ![r].run.package = hash]
  BY DEF BuildPackage
<1>2. Becomes(r, "finish", [req[r].run EXCEPT !.package = hash]) /\ Others(r)
  BY <1>1, ReqFields DEF Becomes, Others, Typed, TypeOK, Req
<1>3. \E package :
        Becomes(r, "finish", [req[r].run EXCEPT !.package = package])
  BY <1>2
<1>4. req'[r].pc = "finish"
  BY <1>2 DEF Becomes
<1>5. /\ req[r].pc = "work" /\ Stored /\ UNCHANGED <<mails, ops, granted>>
      /\ localZip' = localZip \/ "local_zip" \in causes'
  BY DEF BuildPackage, Stored, storeVars
<1> QED  BY <1>2, <1>3, <1>4, <1>5 DEF Step, Silently, Passes

LEMMA AttemptKind ==
  ASSUME Typed, NEW r \in Request,
         BeginAttempt(r) \/ SaveAttempt(r) \/ SaveAttemptFault(r)
  PROVE  Step(r)
<1>1. CASE BeginAttempt(r)
  <2>1. /\ Becomes(r, "attempt",
               [req[r].run EXCEPT !.attempt = [id |-> req[r].n,
                                               state |-> "pending"]])
        /\ Others(r)
    BY <1>1, ReqFields DEF BeginAttempt, Becomes, Others, Typed, TypeOK, Req
  <2> QED
    BY <1>1, <2>1 DEF BeginAttempt, PackageVerified, Step, Silently, Begins,
       Stored, World, storeVars, worldVars, historyVars
<1>2. CASE SaveAttempt(r)
  <2>1. Becomes(r, "smtp", Bumped(req[r].run)) /\ Others(r)
    BY <1>2, MoveKind DEF SaveAttempt
  <2> QED
    BY <1>2, <2>1 DEF SaveAttempt, AttemptSaved, Put, Blind, NotBlind, Step,
       Writing, Saves, World, worldVars, Becomes
<1>3. CASE SaveAttemptFault(r)
  <2>1. Becomes(r, "settle", Bumped(req[r].run)) /\ Others(r)
    BY <1>3, MoveKind DEF SaveAttemptFault
  <2>2. World /\ ops' = ops /\ req[r].pc = "attempt" /\ req'[r].pc = "settle"
    BY <1>3, <2>1 DEF SaveAttemptFault, World, worldVars, Becomes
  <2>3. CASE UNCHANGED storeVars
    BY <2>1, <2>2, <2>3 DEF Step, Silently, SavesNothing, Stored, storeVars
  <2>4. CASE Put(AttemptSaved(r), {r}) /\ causes' = causes \cup Blind(r)
    BY <2>1, <2>2, <2>4 DEF AttemptSaved, Put, Blind, NotBlind, Step, Writing,
       Saves
  <2> QED  BY <1>3, <2>3, <2>4 DEF SaveAttemptFault
<1> QED  BY <1>1, <1>2, <1>3

LEMMA SmtpKind ==
  ASSUME Typed, NEW r \in Request,
         \/ \E here \in BOOLEAN : SmtpAccepts(r, here)
         \/ SmtpFails(r) \/ SmtpRefuses(r)
  PROVE  Step(r)
<1>1. ASSUME NEW here \in BOOLEAN, SmtpAccepts(r, here)
      PROVE  Step(r)
  <2> DEFINE run == [req[r].run EXCEPT !.attempt.state = "confirmed"]
  <2>1. /\ Others(r)
        /\ \/ Becomes(r, "finish", run)
           \/ Becomes(r, "settle", run)
           \/ Becomes(r, "settle", req[r].run)
    <3>1. CASE req' = [req EXCEPT ![r].pc = "finish", ![r].ok = TRUE,
                                  ![r].run.attempt.state = "confirmed"]
      BY <3>1, ReqFields DEF Becomes, Others, Typed, TypeOK, Req
    <3>2. CASE req' = [req EXCEPT ![r].pc = "settle",
                                  ![r].run.attempt.state = "confirmed"]
      BY <3>2, ReqFields DEF Becomes, Others, Typed, TypeOK, Req
    <3>3. CASE Goto(r, "settle")
      BY <3>3, GoKind DEF Goto
    <3> QED  BY <1>1, <3>1, <3>2, <3>3 DEF SmtpAccepts
  <2>2. \E m : /\ mails' = mails \cup {m}
               /\ m.attempt = req[r].run.attempt.id
               /\ m.reviewed = req[r].run.package
               /\ localZip = 0 => m.package = blob
    <3> DEFINE m == [attempt |-> req[r].run.attempt.id,
                     package |-> IF here THEN localZip ELSE blob,
                     reviewed |-> req[r].run.package]
    <3>1. mails' = mails \cup {m}
      BY <1>1 DEF SmtpAccepts
    <3>2. localZip = 0 => m.package = blob
      BY <1>1 DEF SmtpAccepts
    <3> QED  BY <3>1, <3>2
  <2>3. /\ req[r].pc = "smtp" /\ Stored
        /\ UNCHANGED <<blob, localZip, ops, granted>>
    BY <1>1 DEF SmtpAccepts, Stored, storeVars, historyVars
  <2> HIDE DEF run
  <2>4. \E pc \in {"finish", "settle"} :
           Becomes(r, pc, run) \/ Becomes(r, pc, req[r].run)
    BY <2>1
  <2> QED
    BY <2>1, <2>2, <2>3, <2>4 DEF Step, Silently, Sends, Becomes, run
<1>2. CASE SmtpFails(r) \/ SmtpRefuses(r)
  <2>1. Becomes(r, "settle", req[r].run) /\ Others(r)
    BY <1>2, GoKind DEF SmtpFails, SmtpRefuses, Goto
  <2>2. \E package :
           Becomes(r, "settle", [req[r].run EXCEPT !.package = package])
    BY <2>1, SamePackage
  <2>3. /\ req[r].pc = "smtp" /\ Stored
        /\ UNCHANGED <<blob, localZip, mails, ops, granted>>
    BY <1>2 DEF SmtpFails, SmtpRefuses, Stored, storeVars, worldVars, historyVars
  <2> QED
    BY <2>1, <2>2, <2>3 DEF Step, Silently, Passes, Becomes
<1> QED  BY <1>1, <1>2

LEMMA FinishKind ==
  ASSUME Typed, NEW r \in Request,
         FinishRead(r) \/ FinishWrite(r) \/ FinishConflict(r) \/ FinishFault(r)
  PROVE  Step(r)
<1>1. World /\ ops' = ops
  BY DEF FinishRead, FinishWrite, FinishConflict, FinishFault, World, worldVars,
         historyVars
<1>2. ASSUME Raise(r), Stored, req[r].pc \in {"finish", "finishWrite"}
      PROVE  Step(r)
  <2>1. CASE req'[r] = IdleReq
    BY <1>1, <1>2, <2>1, RaiseKind DEF Step, Silently, Ends
  <2>2. CASE Becomes(r, "settle", req[r].run)
    <3>1. \E package :
             Becomes(r, "settle", [req[r].run EXCEPT !.package = package])
      BY <2>2, SamePackage
    <3> QED
      BY <1>1, <1>2, <2>2, <3>1, RaiseKind
      DEF Step, Silently, Passes, Becomes, World
  <2> QED  BY <1>2, <2>1, <2>2, RaiseKind
<1>3. CASE FinishRead(r) /\ ~MovedOn(r)
  <2>1. Becomes(r, "finishWrite", Bumped(req[r].run)) /\ Others(r)
    BY <1>3, MoveKind DEF FinishRead
  <2>2. /\ row.rev = req[r].run.rev /\ req[r].pc = "finish"
        /\ r \in fresh \/ "late_result" \in causes'
        /\ Reread(r)
    BY <1>3 DEF FinishRead, MovedOn, Late, Keep, Reread
  <2> QED  BY <1>1, <2>1, <2>2 DEF Step, Silently, Rereads, Becomes
<1>4. CASE FinishRead(r) /\ MovedOn(r)
  BY <1>2, <1>4 DEF FinishRead, Stored, storeVars
<1>5. CASE FinishWrite(r)
  <2>1. req'[r] = IdleReq /\ Others(r)
    BY <1>5, EndKind DEF FinishWrite
  <2> QED
    BY <1>1, <1>5, <2>1 DEF FinishWrite, ETagMatches, Put, Step, Writing,
       Finishes
<1>6. CASE FinishConflict(r)
  BY <1>2, <1>6 DEF FinishConflict, Stored, storeVars
<1>7. CASE FinishFault(r)
  <2>1. CASE UNCHANGED storeVars
    BY <1>2, <1>7, <2>1 DEF FinishFault, Stored, storeVars
  <2>2. CASE req[r].pc = "finishWrite" /\ ETagMatches(r) /\ Put(Finished(r), {r})
    <3>1. /\ Others(r)
          /\ \/ req'[r] = IdleReq
             \/ Becomes(r, "settle", req[r].run)
      BY <1>7, RaiseKind DEF FinishFault
    <3> QED
      BY <1>1, <2>2, <3>1 DEF ETagMatches, Put, Step, Writing, Finishes
  <2> QED  BY <1>7, <2>1, <2>2 DEF FinishFault
<1> QED  BY <1>3, <1>4, <1>5, <1>6, <1>7

LEMMA SettleKind ==
  ASSUME Typed, NEW r \in Request,
         SettleRead(r) \/ SettleWrite(r) \/ SettleConflict(r)
  PROVE  Step(r)
<1>1. World /\ ops' = ops
  BY DEF SettleRead, SettleWrite, SettleConflict, World, worldVars, historyVars
<1>2. CASE SettleRead(r) /\ ~MovedOn(r)
  <2>1. Becomes(r, "settleWrite", Bumped(req[r].run)) /\ Others(r)
    BY <1>2, MoveKind DEF SettleRead
  <2>2. /\ row.rev = req[r].run.rev /\ req[r].pc = "settle"
        /\ r \in fresh \/ "late_result" \in causes'
        /\ Reread(r)
    BY <1>2 DEF SettleRead, MovedOn, Late, Keep, Reread
  <2> QED  BY <1>1, <2>1, <2>2 DEF Step, Silently, Rereads, Becomes
<1>3. CASE SettleConflict(r) \/ (SettleRead(r) /\ MovedOn(r))
  BY <1>1, <1>3, EndKind DEF SettleRead, SettleConflict, Stored, storeVars,
     Step, Silently, Ends
<1>4. CASE SettleWrite(r)
  BY <1>1, <1>4, EndKind DEF SettleWrite, ETagMatches, Put, Step, Writing,
     Finishes
<1> QED  BY <1>2, <1>3, <1>4

LEMMA NotStages ==
  {"view", "waive", "unwaive", "resolve", "reset"} \cap STEP_IDS = {}
  BY CollectionAssumption DEF STEP_IDS, WAIVABLE_STEPS

LEMMA ClaimKind ==
  ASSUME Typed, NEW r \in Request,
         \/ \E step \in STEP_IDS : ClaimRead(r, step)
         \/ ClaimWrite(r) \/ ClaimConflict(r)
  PROVE  Step(r)
<1>1. ASSUME NEW step \in STEP_IDS, ClaimRead(r, step)
      PROVE  Step(r)
  <2>1. /\ req'[r].pc = "claim" /\ req'[r].run = row
        /\ req'[r].n = ops + 1 /\ ops' = ops + 1
        /\ Others(r)
    BY <1>1, IdleReqType DEF ClaimRead, Others, Typed, TypeOK, Req
  <2> QED
    BY <1>1, <2>1 DEF ClaimRead, Keep, Reread, World, worldVars, Step,
       Silently, Reads
<1>2. CASE ClaimWrite(r)
  <2>1. Becomes(r, "work", Claimed(r)) /\ Others(r)
    BY <1>2, MoveKind DEF ClaimWrite
  <2> QED
    BY <1>2, <2>1 DEF ClaimWrite, ETagMatches, Put, worldVars, Step, Writing,
       Claims
<1>3. CASE ClaimConflict(r)
  <2>1. World /\ ops' = ops
    BY <1>3 DEF ClaimConflict, World, worldVars, historyVars
  <2>2. CASE End(r) /\ UNCHANGED storeVars
    BY <2>1, <2>2, EndKind DEF Stored, storeVars, Step, Silently, Ends
  <2>3. CASE ~Busy /\ req' = [req EXCEPT ![r].run = row] /\ Keep(r)
    <3>1. /\ req'[r].pc = "claim" /\ req'[r].run = row
          /\ req'[r].op = req[r].op /\ req'[r].n = req[r].n
          /\ Others(r)
      BY <1>3, <2>3, ReqFields DEF ClaimConflict, Others, Typed, TypeOK, Req
    <3> QED
      BY <2>1, <2>3, <3>1 DEF Keep, Reread, Step, Silently, Reads
  <2> QED  BY <1>3, <2>2, <2>3 DEF ClaimConflict
<1> QED  BY <1>1, <1>2, <1>3

\* where get_or_create's caller goes on, if it does
LEMMA AfterPc ==
  ASSUME NEW op, NEW run, After(op, run) # "idle"
  PROVE  /\ After(op, run) \in {"update", "resolve", "reset"}
         /\ After(op, run) \in {"update", "reset"} => run.active = "none"
  BY DEF After

LEMMA OpenKind ==
  ASSUME Typed, NEW r \in Request,
         NEW op \in {"view", "waive", "unwaive", "resolve", "reset"},
         NEW target, Open(r, op, target)
  PROVE  Step(r)
<1> DEFINE pc == IF Stale THEN "takeover" ELSE After(op, row)
<1>1. /\ req'[r].pc = pc /\ req'[r].run = row /\ req'[r].op = op
      /\ req'[r].n = ops' /\ Others(r)
  BY DEF Open, Others, Typed, TypeOK
<1>2. /\ pc \in {"takeover", "update", "resolve", "reset"}
      /\ pc = "takeover" => Stale
      /\ pc = "update" => row.active = "none"
  BY AfterPc DEF Open
<1>3. ops' = ops + 1 \/ ops' = ops
  BY DEF Open
<1>4. op \notin STEP_IDS
  BY NotStages
<1>5. Reread(r) /\ World
  BY DEF Open, Keep, Reread, World, worldVars
<1> HIDE DEF pc
<1> QED
  BY <1>1, <1>2, <1>3, <1>4, <1>5 DEF Step, Silently, Reads

LEMMA UpdateKind ==
  ASSUME Typed, NEW r \in Request, UpdateWrite(r) \/ UpdateConflict(r)
  PROVE  Step(r)
<1>1. CASE UpdateWrite(r)
  <2>1. req'[r] = IdleReq /\ Others(r)
    BY <1>1, EndKind DEF UpdateWrite
  <2>2. /\ req[r].pc = "update" /\ row.rev = req[r].run.rev
        /\ expired' = FALSE /\ fresh' = {}
        /\ UNCHANGED <<blob, localZip, mails, ops>>
    BY <1>1 DEF UpdateWrite, MovedOn, Put, worldVars
  <2>3. Bumped(req[r].run).waivers = req[r].run.waivers
    BY ReqFields DEF Bumped, Run
  <2>4. {req[r].target} \in SUBSET WAIVABLE_STEPS
    BY ReqFields
  <2>5. \/ /\ row' = [Bumped(req[r].run) EXCEPT
                       !.waivers = req[r].run.waivers \cup {req[r].target}]
           /\ granted' = granted \cup {req[r].target}
        \/ /\ row' = [Bumped(req[r].run) EXCEPT
                       !.waivers = req[r].run.waivers \ {req[r].target}]
           /\ granted' = granted \ {req[r].target}
    BY <1>1, <2>3 DEF UpdateWrite, Put
  <2> QED
    BY <2>1, <2>2, <2>4, <2>5 DEF Step, Writing, Updates
<1>2. CASE UpdateConflict(r)
  <2> DEFINE next == IF Stale THEN "takeover" ELSE After(req[r].op, row)
  <2>1. World /\ ops' = ops
    BY <1>2 DEF UpdateConflict, World, worldVars, historyVars
  <2>2. CASE End(r) /\ UNCHANGED storeVars
    BY <2>1, <2>2, EndKind DEF Stored, storeVars, Step, Silently, Ends
  <2>3. CASE /\ next # "idle" /\ Keep(r)
             /\ req' = [req EXCEPT ![r].pc = next, ![r].run = row]
    <3>1. /\ next \in {"takeover", "update", "resolve", "reset"}
          /\ next = "takeover" => Stale
          /\ next = "update" => row.active = "none"
      BY <2>3, AfterPc
    <3> HIDE DEF next
    <3>2. Becomes(r, next, row) /\ Others(r)
      BY <2>3, MoveKind
    <3> QED
      BY <2>1, <2>3, <3>1, <3>2 DEF Becomes, Keep, Reread, Step, Silently, Reads
  <2> QED  BY <1>2, <2>2, <2>3 DEF UpdateConflict
<1> QED  BY <1>1, <1>2

LEMMA OperatorKind ==
  ASSUME Typed, NEW r \in Request,
         TakeOver(r) \/ ResolveWrite(r) \/ ResetRead(r) \/ ResetWrite(r)
  PROVE  Step(r)
<1>1. World /\ ops' = ops
  BY DEF TakeOver, ResolveWrite, ResetRead, ResetWrite, World, worldVars,
         historyVars
<1>2. CASE TakeOver(r)
  <2> DEFINE run == TakenOver(req[r].run)
             next == After(req[r].op, run)
  <2>1. /\ req[r].pc = "takeover" /\ Put(run, {r})
        /\ causes' = causes \cup Overrun \cup Blind(r)
        /\ \/ End(r)
           \/ next # "idle" /\ req' = [req EXCEPT ![r].pc = next, ![r].run = run]
    BY <1>2 DEF TakeOver
  <2>2. next # "idle" => next \in {"update", "resolve", "reset"}
    BY AfterPc
  <2> HIDE DEF next
  <2>3. /\ Others(r)
        /\ \/ req'[r] = IdleReq
           \/ next # "idle" /\ Becomes(r, next, run)
    BY <2>1, EndKind, MoveKind
  <2> QED
    BY <1>1, <2>1, <2>2, <2>3 DEF Put, Blind, NotBlind, Becomes, Step, Writing,
       Frees
<1>3. CASE ResolveWrite(r)
  BY <1>1, <1>3, EndKind DEF ResolveWrite, Put, Blind, NotBlind, Step, Writing,
     Resolves
<1>4. CASE ResetRead(r)
  <2>1. Becomes(r, "resetWrite", NewRun(req[r].n, row.rev)) /\ Others(r)
    BY <1>4, MoveKind DEF ResetRead
  <2> QED
    BY <1>1, <1>4, <2>1 DEF ResetRead, Keep, Reread, Step, Silently, Blanks
<1>5. CASE ResetWrite(r)
  <2>1. row.active # "none" \/ InFlight(row.attempt) => "reset" \in causes'
    BY <1>5 DEF ResetWrite, InFlight
  <2> QED
    BY <1>1, <1>5, <2>1, EndKind DEF ResetWrite, Put, Blind, NotBlind, Step,
       Writing, Resets
<1> QED  BY <1>2, <1>3, <1>4, <1>5

LEMMA Kinds ==
  ASSUME Typed, [Next]_vars
  PROVE  (\E r \in Request : Step(r)) \/ Expire \/ UNCHANGED vars
<1>1. ASSUME NEW r \in Request, StageStep(r) PROVE Step(r)
  BY <1>1, ClaimKind, WorkKind, BuildKind, AttemptKind, SmtpKind, FinishKind,
     SettleKind DEF StageStep
<1>2. ASSUME NEW r \in Request, OperatorStep(r) PROVE Step(r)
  BY <1>2, UpdateKind, OperatorKind DEF OperatorStep
<1>3. ASSUME NEW r \in Request, Abandon(r) PROVE Step(r)
  BY <1>3, EndKind DEF Abandon, storeVars, worldVars, historyVars, Stored,
     World, Step, Silently, Ends
<1> QED
  BY <1>1, <1>2, <1>3, ClaimKind, OpenKind DEF Next, View

LEMMA CloseCausesGrow == ASSUME [Next]_vars PROVE causes \subseteq causes'
<1>1. ASSUME NEW r \in Request, StageStep(r) \/ OperatorStep(r)
      PROVE  causes \subseteq causes'
  BY <1>1
  DEF StageStep, ClaimWrite, ClaimConflict, Collect, WorkFails, BuildPackage,
      BeginAttempt, SaveAttempt, SaveAttemptFault, SmtpAccepts, SmtpFails,
      SmtpRefuses, FinishRead, FinishWrite, FinishConflict, FinishFault,
      SettleRead, SettleWrite, SettleConflict, OperatorStep, TakeOver,
      UpdateWrite, UpdateConflict, ResolveWrite, ResetRead, ResetWrite,
      historyVars
<1> QED
  BY <1>1 DEF Next, ClaimRead, Open, View, Abandon, Expire, historyVars, vars

-----------------------------------------------------------------------------
(***************************************************************************)
(* What the saves store.                                                   *)
(***************************************************************************)
LEMMA BumpFields ==
  ASSUME NEW run \in Run
  PROVE  /\ Bumped(run) \in Run /\ Bumped(run).rev = run.rev + 1
         /\ Bumped(run).active = run.active /\ Bumped(run).by = run.by
         /\ Bumped(run).waivers = run.waivers
         /\ Bumped(run).attempt = run.attempt
         /\ Bumped(run).package = run.package
  BY DEF Bumped, Run

LEMMA ClaimFields ==
  ASSUME NEW r \in Request, req[r].run \in Run
  PROVE  /\ Claimed(r).rev = req[r].run.rev + 1
         /\ Claimed(r).active = req[r].op /\ Claimed(r).by = req[r].n
         /\ Claimed(r).waivers = req[r].run.waivers \ {req[r].op}
         /\ Claimed(r).attempt = req[r].run.attempt
  BY DEF Claimed, Run

LEMMA FinishFields ==
  ASSUME NEW r \in Request, req[r].run \in Run
  PROVE  /\ Finished(r).rev = req[r].run.rev
         /\ Finished(r).active = "none" /\ Finished(r).by = 0
         /\ Finished(r).waivers = req[r].run.waivers
         /\ Finished(r).attempt = req[r].run.attempt
  BY DEF Finished, Run

LEMMA FreeFields ==
  ASSUME NEW run \in Run
  PROVE  /\ TakenOver(run).rev = run.rev + 1
         /\ TakenOver(run).active = "none" /\ TakenOver(run).by = 0
         /\ TakenOver(run).waivers = run.waivers
         /\ TakenOver(run).attempt = run.attempt
  BY DEF TakenOver, Bumped, Run

LEMMA ResolveFields ==
  ASSUME NEW run \in Run, NEW ok \in BOOLEAN
  PROVE  /\ Resolved(run, ok).rev = run.rev + 1
         /\ Resolved(run, ok).active = run.active
         /\ Resolved(run, ok).by = run.by
         /\ Resolved(run, ok).waivers = run.waivers
         /\ Resolved(run, ok).attempt.id = run.attempt.id
         /\ Resolved(run, ok).attempt.state = IF ok THEN "confirmed"
                                                    ELSE "failed"
  BY DEF Resolved, Bumped, Run, Attempt

LEMMA UpdateFields ==
  ASSUME NEW run \in Run, NEW waivers
  PROVE  LET new == [Bumped(run) EXCEPT !.waivers = waivers] IN
         /\ new.rev = run.rev + 1 /\ new.active = run.active
         /\ new.by = run.by /\ new.attempt = run.attempt
         /\ new.waivers = waivers
  BY DEF Bumped, Run

LEMMA BlankFields ==
  ASSUME NEW n, NEW rev
  PROVE  /\ NewRun(n, rev).rev = rev /\ NewRun(n, rev).waivers = {}
         /\ NewRun(n, rev).active = "none"
         /\ NewRun(n, rev).attempt.state = "none"
  BY DEF NewRun

LEMMA PackageFields ==
  ASSUME NEW run \in Run, NEW package
  PROVE  LET new == [run EXCEPT !.package = package] IN
         /\ new.rev = run.rev /\ new.active = run.active /\ new.by = run.by
         /\ new.waivers = run.waivers /\ new.attempt = run.attempt
  BY DEF Run

LEMMA AttemptFields ==
  ASSUME NEW run \in Run, NEW attempt
  PROVE  LET new == [run EXCEPT !.attempt = attempt] IN
         /\ new.rev = run.rev /\ new.active = run.active /\ new.by = run.by
         /\ new.waivers = run.waivers /\ new.attempt = attempt
         /\ new.package = run.package
  BY DEF Run

LEMMA ConfirmFields ==
  ASSUME NEW run \in Run
  PROVE  LET new == [run EXCEPT !.attempt.state = "confirmed"] IN
         /\ new.rev = run.rev /\ new.active = run.active /\ new.by = run.by
         /\ new.waivers = run.waivers /\ new.attempt.id = run.attempt.id
         /\ new.attempt.state = "confirmed"
  BY DEF Run, Attempt

-----------------------------------------------------------------------------
(***************************************************************************)
(* What a request's own state says (LocalInv).                             *)
(***************************************************************************)
LEMMA LocalInit == Init => LocalInv
  BY NotStages DEF Init, LocalInv, Numbered, Local, IdleReq, HoldingPc

LEMMA IdleLocal == Local(IdleReq) /\ IdleReq.op \notin STEP_IDS
  BY NotStages DEF Local, IdleReq, HoldingPc

LEMMA NumberedStep ==
  ASSUME Typed, Numbered, NEW r \in Request, Step(r)
  PROVE  Numbered'
<1>1. \/ ops' = ops /\ req'[r].op \notin STEP_IDS
      \/ ops' = ops /\ req'[r].op = req[r].op /\ req'[r].n = req[r].n
      \/ ops' = ops + 1 /\ req'[r].n = ops + 1
  BY IdleLocal
  DEF Step, Silently, Writing, Ends, Reads, Passes, Begins, Sends, Rereads,
      SavesNothing, Blanks, Claims, Saves, Finishes, Frees, Updates, Resolves,
      Resets, Becomes
<1>2. \A q \in Request \ {r} : req'[q] = req[q]
  BY DEF Step, Others
<1>3. ops \in Nat
  BY DEF Typed, TypeOK
<1> QED  BY <1>1, <1>2, <1>3 DEF Numbered

LEMMA LocalStep ==
  ASSUME Typed, LocalInv, NEW r \in Request, Step(r)
  PROVE  LocalInv'
<1> DEFINE q == req[r]
           new == req'[r]
<1>1. Numbered'
  BY NumberedStep DEF LocalInv
<1>2. SUFFICES Local(new)
  BY <1>1 DEF LocalInv, Step, Others
<1>3. q.run \in Run /\ Local(q)
  BY ReqFields DEF LocalInv
<1>4. CASE new = IdleReq
  BY <1>4, IdleLocal
<1>5. CASE Reads(r)
  BY <1>5 DEF Reads, Local, HoldingPc
<1>6. CASE Passes(r)
  <2>1. /\ new.run.active = q.run.active /\ new.run.by = q.run.by
        /\ new.op = q.op /\ new.n = q.n
    BY <1>3, <1>6, PackageFields DEF Passes, Becomes
  <2> QED  BY <1>3, <1>6, <2>1 DEF Passes, Local, HoldingPc
<1>7. CASE Begins(r)
  BY <1>3, <1>7, AttemptFields DEF Begins, Becomes, Local, HoldingPc
<1>8. CASE Sends(r)
  <2>1. /\ new.run.active = q.run.active /\ new.run.by = q.run.by
        /\ new.op = q.op /\ new.n = q.n
    BY <1>3, <1>8, ConfirmFields DEF Sends, Becomes
  <2> QED  BY <1>3, <1>8, <2>1 DEF Sends, Local, HoldingPc
<1>9. CASE Rereads(r) \/ SavesNothing(r) \/ Saves(r)
  BY <1>3, <1>9, BumpFields DEF Rereads, SavesNothing, Saves, Becomes, Local,
     HoldingPc
<1>10. CASE Blanks(r)
  BY <1>10, BlankFields DEF Blanks, Becomes, Local, HoldingPc
<1>11. CASE Claims(r)
  BY <1>3, <1>11, ClaimFields DEF Claims, Becomes, Local, HoldingPc
<1>12. CASE Finishes(r)
  BY <1>3, <1>4, <1>12 DEF Finishes, Becomes, Local, HoldingPc
<1>13. CASE Frees(r)
  BY <1>3, <1>4, <1>13, FreeFields DEF Frees, Becomes, Local, HoldingPc
<1> QED
  BY <1>4, <1>5, <1>6, <1>7, <1>8, <1>9, <1>10, <1>11, <1>12, <1>13
  DEF Step, Silently, Writing, Ends, Updates, Resolves, Resets

-----------------------------------------------------------------------------
(***************************************************************************)
(* The revision (RevisionInv): every write raises it, and takes the ETag   *)
(* away from all other copies.                                             *)
(***************************************************************************)
LEMMA CloseFields ==
  ASSUME Typed, NEW r \in Request
  PROVE  /\ row \in Run /\ row.rev \in Nat /\ row.attempt \in Attempt
         /\ req[r].run \in Run /\ req[r].run.rev \in Nat
         /\ req[r].run.attempt \in Attempt
         /\ req[r].pc \in Pc /\ req[r].ok \in BOOLEAN
  BY ReqFields DEF Typed, TypeOK, Run

LEMMA WritesRaise ==
  ASSUME Typed, NEW r \in Request, UpToDate(r), Writing(r),
         "blind_save" \notin causes'
  PROVE  row'.rev > row.rev /\ fresh' \subseteq {r} /\ expired' = FALSE
<1>1. req[r].run \in Run /\ row.rev \in Nat /\ req[r].run.rev \in Nat
      /\ req[r].ok \in BOOLEAN
  BY CloseFields
<1>2. CASE Claims(r)
  BY <1>1, <1>2, ClaimFields DEF Claims, UpToDate
<1>3. CASE Saves(r)
  BY <1>1, <1>3, BumpFields DEF Saves, NotBlind, UpToDate
<1>4. CASE Finishes(r)
  BY <1>1, <1>4, FinishFields DEF Finishes, UpToDate
<1>5. CASE Frees(r)
  BY <1>1, <1>5, FreeFields DEF Frees, NotBlind, UpToDate
<1>6. CASE Updates(r)
  <2>1. PICK waivers : row' = [Bumped(req[r].run) EXCEPT !.waivers = waivers]
    BY <1>6 DEF Updates
  <2>2. row'.rev = req[r].run.rev + 1
    BY <1>1, <2>1, UpdateFields
  <2> QED  BY <1>1, <1>6, <2>2 DEF Updates
<1>7. CASE Resolves(r)
  BY <1>1, <1>7, ResolveFields DEF Resolves, NotBlind, UpToDate
<1>8. CASE Resets(r)
  BY <1>1, <1>8, BumpFields DEF Resets, NotBlind, UpToDate
<1> QED
  BY <1>2, <1>3, <1>4, <1>5, <1>6, <1>7, <1>8 DEF Writing

LEMMA SilentReads ==
  ASSUME NEW r \in Request, Silently(r)
  PROVE  row' = row /\ expired' = expired /\ fresh' \subseteq fresh \cup {r}
  BY DEF Silently, Ends, Reads, Passes, Begins, Sends, Rereads, SavesNothing,
         Blanks, Stored, Reread

\* the copies of the requests that do not take the step
LEMMA RevisionOthers ==
  ASSUME Typed, Typed', NEW r \in Request, UpToDate(r), Step(r),
         "blind_save" \notin causes', NEW q \in Request, q # r, UpToDate(q)
  PROVE  UpToDate(q)'
<1>1. req'[q] = req[q]
  BY DEF Step, Others
<1>2. row.rev \in Nat /\ req[q].run.rev \in Nat
  BY CloseFields
<1>3. CASE Silently(r)
  BY <1>1, <1>3, SilentReads DEF UpToDate
<1>4. CASE Writing(r)
  <2>1. row'.rev > row.rev /\ q \notin fresh'
    BY <1>4, WritesRaise
  <2>2. row'.rev \in Nat
    BY DEF Typed, TypeOK, Run
  <2> QED
    BY <1>1, <1>2, <2>1, <2>2 DEF UpToDate
<1> QED  BY <1>3, <1>4 DEF Step

LEMMA RevisionOwn ==
  ASSUME Typed, LocalInv, NEW r \in Request, UpToDate(r), Step(r),
         "blind_save" \notin causes'
  PROVE  UpToDate(r)'
<1> DEFINE q == req[r]
           new == req'[r]
<1>1. /\ q.run \in Run /\ row \in Run /\ row.rev \in Nat /\ q.run.rev \in Nat
      /\ Local(q)
  BY CloseFields DEF LocalInv
<1>2. CASE new = IdleReq
  BY <1>2 DEF UpToDate, IdleReq
<1>3. CASE Reads(r)
  BY <1>1, <1>3 DEF Reads, Reread, UpToDate
<1>4. CASE Passes(r)
  BY <1>1, <1>4, PackageFields DEF Passes, Becomes, Stored, UpToDate
<1>5. CASE Begins(r)
  BY <1>1, <1>5, AttemptFields DEF Begins, Becomes, Stored, UpToDate
<1>6. CASE Sends(r)
  <2>1. new.run.rev = q.run.rev /\ new.n = q.n
    BY <1>1, <1>6, ConfirmFields DEF Sends, Becomes
  <2> QED  BY <1>1, <1>6, <2>1 DEF Sends, Stored, UpToDate
<1>7. CASE Rereads(r)
  BY <1>1, <1>7, BumpFields DEF Rereads, Becomes, Reread, UpToDate
<1>8. CASE SavesNothing(r)
  BY <1>1, <1>8, BumpFields DEF SavesNothing, Becomes, Stored, UpToDate
<1>9. CASE Blanks(r)
  BY <1>1, <1>9, BlankFields DEF Blanks, Becomes, Reread, UpToDate
<1>10. CASE Claims(r)
  BY <1>1, <1>10, ClaimFields DEF Claims, Becomes, UpToDate
<1>11. CASE Saves(r)
  BY <1>1, <1>11, BumpFields DEF Saves, Becomes, Local, HoldingPc, UpToDate
<1>12. CASE Finishes(r)
  BY <1>1, <1>2, <1>12, FinishFields DEF Finishes, Becomes, UpToDate
<1>13. CASE Frees(r)
  BY <1>1, <1>2, <1>13, FreeFields DEF Frees, Becomes, UpToDate
<1> QED
  BY <1>2, <1>3, <1>4, <1>5, <1>6, <1>7, <1>8, <1>9, <1>10, <1>11, <1>12, <1>13
  DEF Step, Silently, Writing, Ends, Updates, Resolves, Resets

LEMMA RevisionStep ==
  ASSUME Typed, LocalInv, RevisionInv, [Next]_vars
  PROVE  RevisionInv'
<1>1. SUFFICES ASSUME "blind_save" \notin causes', NEW q \in Request
               PROVE  UpToDate(q)'
  BY DEF RevisionInv, Excused
<1>2. \A r \in Request : UpToDate(r)
  BY <1>1, CloseCausesGrow DEF RevisionInv, Excused
<1>3. CASE Expire \/ UNCHANGED vars
  BY <1>2, <1>3 DEF Expire, vars, UpToDate
<1> QED
  BY <1>1, <1>2, <1>3, Kinds, TypeStep, RevisionOthers, RevisionOwn

LEMMA RevisionInit == Init => RevisionInv
  BY DEF Init, RevisionInv, UpToDate, IdleReq

-----------------------------------------------------------------------------
(***************************************************************************)
(* The claim (ClaimInv).  While a stage has it, no other request's write   *)
(* takes it away: claiming and freeing it would be an overrun, resetting   *)
(* it is excused, and everybody else has to find the period unclaimed.     *)
(***************************************************************************)
Claimable == \A r \in Request : UpToDate(r) /\ Claimant(r)

LEMMA OneClaim ==
  ASSUME Typed, LocalInv, NEW q \in Request, NEW r \in Request,
         req[q].pc \in HoldingPc, req[r].pc \in HoldingPc,
         HasClaim(q), HasClaim(r)
  PROVE  q = r
  BY HolderHasStage DEF LocalInv, Numbered, HasClaim

LEMMA ClaimOutlasts ==
  ASSUME Typed, LocalInv, Claimable, causes' \cap ClaimCause = {},
         NEW r \in Request, Writing(r), NEW q \in Request, q # r,
         req[q].pc \in HoldingPc, HasClaim(q)
  PROVE  row'.active = row.active /\ row'.by = row.by
<1>1. /\ req[r].run \in Run /\ req[r].ok \in BOOLEAN /\ Local(req[r])
      /\ UpToDate(r) /\ Claimant(r)
  BY CloseFields DEF LocalInv, Claimable
<1>2. row.active # "none"
  BY HolderHasStage, StepTypes DEF HasClaim
<1>3. Stale => "overrun" \in Overrun
  BY DEF Overrun, Holding
<1>4. {"overrun", "blind_save", "reset"} \cap causes' = {}
  BY DEF ClaimCause
<1>5. ~Claims(r)
  BY <1>1, <1>2, <1>3, <1>4 DEF Claims, Claimant, Busy, Stale
<1>6. ~Saves(r) /\ ~Finishes(r)
  BY <1>1, <1>2, OneClaim DEF Saves, Finishes, Claimant, HoldingPc
<1>7. ~Frees(r)
  BY <1>1, <1>3, <1>4 DEF Frees, NotBlind, Claimant
<1>8. ~Updates(r)
  BY <1>1, <1>2 DEF Updates, UpToDate, Local
<1>9. ~Resets(r)
  BY <1>2, <1>4 DEF Resets
<1>10. CASE Resolves(r)
  <2>1. req[r].run = row
    BY <1>1, <1>4, <1>10 DEF Resolves, NotBlind, UpToDate
  <2> QED  BY <1>1, <1>10, <2>1, ResolveFields DEF Resolves
<1> QED
  BY <1>5, <1>6, <1>7, <1>8, <1>9, <1>10 DEF Writing

LEMMA ClaimOthers ==
  ASSUME Typed, Typed', LocalInv, Claimable, causes' \cap ClaimCause = {},
         NEW r \in Request, Step(r), NEW q \in Request, q # r
  PROVE  Claimant(q)'
<1>1. req'[q] = req[q]
  BY DEF Step, Others
<1>2. Claimant(q) /\ UpToDate(q) /\ UpToDate(r)
  BY DEF Claimable
<1>3. CASE Silently(r)
  BY <1>1, <1>2, <1>3, SilentReads DEF Claimant, HasClaim, Busy, Stale
<1>4. CASE Writing(r)
  <2>1. row'.rev > row.rev /\ q \notin fresh'
    BY <1>2, <1>4, WritesRaise DEF ClaimCause
  <2>2. req[q].pc \in HoldingPc /\ HasClaim(q) => HasClaim(q)'
    BY <1>1, <1>4, ClaimOutlasts DEF HasClaim
  <2>3. row.rev \in Nat /\ row'.rev \in Nat /\ req[q].run.rev \in Nat
    BY CloseFields DEF Typed, TypeOK, Run
  <2>4. req[q].pc = "settle" /\ row'.rev <= req[q].run.rev => HasClaim(q)
    BY <1>2, <2>1, <2>3 DEF Claimant
  <2> QED
    BY <1>1, <1>2, <2>1, <2>2, <2>4 DEF Claimant, HoldingPc
<1> QED  BY <1>3, <1>4 DEF Step

LEMMA ClaimOwn ==
  ASSUME Typed, Typed', LocalInv, Claimable, causes' \cap ClaimCause = {},
         NEW r \in Request, Step(r)
  PROVE  Claimant(r)'
<1> DEFINE q == req[r]
           new == req'[r]
<1>1. /\ q.run \in Run /\ Local(q) /\ Claimant(r)
  BY CloseFields DEF LocalInv, Claimable
<1>2. CASE new = IdleReq
  BY <1>2 DEF Claimant, IdleReq
<1>3. CASE Reads(r) \/ Blanks(r)
  BY <1>3 DEF Reads, Blanks, Becomes, Reread, Claimant, Busy, Stale
<1>4. CASE Passes(r)
  BY <1>1, <1>4 DEF Passes, Becomes, Stored, Claimant, HasClaim
<1>5. CASE Begins(r)
  BY <1>1, <1>5 DEF Begins, Becomes, Stored, Claimant, HasClaim
<1>6. CASE Sends(r)
  BY <1>1, <1>6 DEF Sends, Becomes, Stored, Claimant, HasClaim
<1>7. CASE Rereads(r)
  BY <1>1, <1>7, CloseFields DEF Rereads, Becomes, Reread, Claimant, HasClaim
<1>8. CASE SavesNothing(r)
  BY <1>1, <1>8 DEF SavesNothing, Becomes, Stored, Claimant, HasClaim
<1>9. CASE Claims(r)
  BY <1>1, <1>9, ClaimFields DEF Claims, Becomes, Claimant, HasClaim
<1>10. CASE Saves(r)
  BY <1>1, <1>10, BumpFields DEF Saves, Becomes, Local, HoldingPc, Claimant,
     HasClaim
<1>11. CASE Finishes(r)
  BY <1>1, <1>2, <1>11, FinishFields DEF Finishes, Becomes, Claimant
<1>12. CASE Frees(r)
  BY <1>2, <1>12 DEF Frees, Claimant
<1> QED
  BY <1>2, <1>3, <1>4, <1>5, <1>6, <1>7, <1>8, <1>9, <1>10, <1>11, <1>12
  DEF Step, Silently, Writing, Ends, Updates, Resolves, Resets

LEMMA ClaimStep ==
  ASSUME Typed, LocalInv, RevisionInv, ClaimInv, [Next]_vars
  PROVE  ClaimInv'
<1>1. SUFFICES ASSUME causes' \cap ClaimCause = {}, NEW q \in Request
               PROVE  Claimant(q)'
  BY DEF ClaimInv, Excused
<1>2. Claimable
  BY <1>1, CloseCausesGrow
  DEF Claimable, RevisionInv, ClaimInv, Excused, ClaimCause
<1>3. CASE UNCHANGED vars
  BY <1>2, <1>3 DEF vars, Claimable, Claimant, HasClaim, Busy, Stale
<1>4. CASE Expire
  BY <1>2, <1>4 DEF Expire, Claimable, Claimant, HasClaim, Busy, Stale
<1> QED
  BY <1>1, <1>2, <1>3, <1>4, Kinds, TypeStep, ClaimOthers, ClaimOwn

LEMMA ClaimInit == Init => ClaimInv
  BY DEF Init, ClaimInv, Claimant, IdleReq

\* what the theorems below build on
Basis == Typed /\ LocalInv /\ RevisionInv

LEMMA BasisHolds == Spec => []Basis
<1>1. Init => Basis
  BY TypeInit, LocalInit, RevisionInit DEF Basis
<1>2. Basis /\ [Next]_vars => Basis'
  <2> SUFFICES ASSUME Basis, [Next]_vars PROVE Basis'
    OBVIOUS
  <2>1. Typed'
    BY TypeStep DEF Basis
  <2>2. RevisionInv'
    BY RevisionStep DEF Basis
  <2>3. CASE Expire \/ UNCHANGED vars
    <3>1. LocalInv'
      BY <2>3 DEF Basis, LocalInv, Numbered, Expire, vars, historyVars
    <3> QED  BY <2>1, <2>2, <3>1 DEF Basis
  <2>4. ASSUME NEW r \in Request, Step(r) PROVE Basis'
    BY <2>1, <2>2, <2>4, LocalStep DEF Basis
  <2> QED  BY <2>3, <2>4, Kinds DEF Basis
<1> QED  BY <1>1, <1>2, PTL DEF Spec

LEMMA ClaimHolds == Spec => []ClaimInv
<1>1. Basis /\ ClaimInv /\ [Next]_vars => ClaimInv'
  BY ClaimStep DEF Basis
<1> QED  BY <1>1, ClaimInit, BasisHolds, PTL DEF Spec

(***************************************************************************)
(* Two stages of a period are never at work at the same time, until one of *)
(* the named causes occurs (MonthClose.tla, ClaimExclusive).               *)
(***************************************************************************)
THEOREM StagesExclude == Spec => []ClaimExclusive
<1>1. Basis /\ ClaimInv => ClaimExclusive
  <2> SUFFICES ASSUME Basis, ClaimInv, causes \cap ClaimCause = {},
                      NEW q \in Request, NEW r \in Request,
                      Working(q), Working(r)
               PROVE  q = r
    BY DEF ClaimExclusive, Excused, ClaimCause
  <2>1. HasClaim(q) /\ HasClaim(r)
    BY DEF ClaimInv, Excused, Claimant, Working
  <2> QED
    BY <2>1, OneClaim DEF Basis, Working, HoldingPc
<1> QED  BY <1>1, BasisHolds, ClaimHolds, PTL

-----------------------------------------------------------------------------
(***************************************************************************)
(* Waivers (WaiverInv): who writes has the stored waivers, because its     *)
(* copy is current, or found current by its revision.                      *)
(***************************************************************************)
WaiverCause == {"blind_save", "late_result"}

KnowsWaivers(r) ==
    r \in fresh /\ req[r].pc \notin {"idle", "reset", "resetWrite"} =>
       req[r].run.waivers = row.waivers

Waivable == \A r \in Request : UpToDate(r) /\ KnowsWaivers(r)

LEMMA WaiverInvIs ==
  WaiverInv <=> \/ Excused(WaiverCause)
                \/ /\ row.waivers \subseteq granted
                   /\ \A r \in Request : KnowsWaivers(r)
  BY DEF WaiverInv, WaiverCause, KnowsWaivers

LEMMA WaiversStored ==
  ASSUME Typed, LocalInv, Waivable, causes' \cap WaiverCause = {},
         row.waivers \subseteq granted, NEW r \in Request, Step(r)
  PROVE  row'.waivers \subseteq granted'
<1>1. /\ req[r].run \in Run /\ req[r].ok \in BOOLEAN /\ Local(req[r])
      /\ UpToDate(r) /\ KnowsWaivers(r)
  BY CloseFields DEF LocalInv, Waivable
<1>2. NotBlind(r) => r \in fresh
  BY DEF NotBlind, WaiverCause
<1>3. CASE Silently(r)
  BY <1>3, SilentReads DEF Silently, Ends, Reads, Passes, Begins, Sends,
     Rereads, SavesNothing, Blanks, World
<1>4. CASE Claims(r)
  BY <1>1, <1>4, ClaimFields DEF Claims, KnowsWaivers
<1>5. CASE Saves(r)
  BY <1>1, <1>2, <1>5, BumpFields DEF Saves, World, KnowsWaivers
<1>6. CASE Finishes(r)
  BY <1>1, <1>6, FinishFields DEF Finishes, World, KnowsWaivers
<1>7. CASE Frees(r)
  BY <1>1, <1>2, <1>7, FreeFields DEF Frees, World, KnowsWaivers
<1>8. CASE Updates(r)
  <2>1. req[r].run = row
    BY <1>1, <1>8 DEF Updates, UpToDate
  <2>2. PICK waivers :
           /\ row' = [Bumped(req[r].run) EXCEPT !.waivers = waivers]
           /\ waivers \subseteq granted'
    BY <1>8, <2>1 DEF Updates
  <2> QED  BY <1>1, <2>2, UpdateFields
<1>9. CASE Resolves(r)
  BY <1>1, <1>2, <1>9, ResolveFields DEF Resolves, World, KnowsWaivers
<1>10. CASE Resets(r)
  BY <1>1, <1>10, BumpFields DEF Resets, World, Local
<1> QED
  BY <1>3, <1>4, <1>5, <1>6, <1>7, <1>8, <1>9, <1>10 DEF Step, Writing

LEMMA WaiversKnown ==
  ASSUME Typed, LocalInv, Waivable, causes' \cap WaiverCause = {},
         NEW r \in Request, Step(r), NEW q \in Request
  PROVE  KnowsWaivers(q)'
<1>1. KnowsWaivers(q) /\ UpToDate(r)
  BY DEF Waivable
<1>2. "blind_save" \notin causes' /\ "late_result" \notin causes'
  BY DEF WaiverCause
<1>3. CASE q # r
  <2>1. req'[q] = req[q]
    BY <1>3 DEF Step, Others
  <2>2. CASE Silently(r)
    BY <1>1, <1>3, <2>1, <2>2, SilentReads DEF KnowsWaivers
  <2>3. CASE Writing(r)
    BY <1>1, <1>2, <1>3, <2>3, WritesRaise DEF KnowsWaivers
  <2> QED  BY <2>2, <2>3 DEF Step
<1>4. CASE q = r
  <2>1. req[r].run \in Run
    BY CloseFields
  <2>2. CASE req'[r] = IdleReq
    BY <1>4, <2>2 DEF KnowsWaivers, IdleReq
  <2>3. CASE Reads(r) \/ Blanks(r)
    BY <1>4, <2>3 DEF Reads, Blanks, Becomes, Reread, KnowsWaivers
  <2>4. CASE Passes(r)
    <3>1. req'[r].run.waivers = req[r].run.waivers
      BY <2>1, <2>4, PackageFields DEF Passes, Becomes
    <3> QED  BY <1>1, <1>4, <2>4, <3>1 DEF Passes, Stored, KnowsWaivers
  <2>5. CASE Begins(r)
    BY <1>1, <1>4, <2>1, <2>5, AttemptFields DEF Begins, Becomes, Stored,
       KnowsWaivers
  <2>6. CASE Sends(r)
    <3>1. req'[r].run.waivers = req[r].run.waivers
      BY <2>1, <2>6, ConfirmFields DEF Sends, Becomes
    <3> QED  BY <1>1, <1>4, <2>6, <3>1 DEF Sends, Stored, KnowsWaivers
  <2>7. CASE Rereads(r)
    BY <1>1, <1>2, <1>4, <2>1, <2>7, BumpFields DEF Rereads, Becomes, Reread,
       KnowsWaivers
  <2>8. CASE SavesNothing(r)
    BY <1>1, <1>4, <2>1, <2>8, BumpFields DEF SavesNothing, Becomes, Stored,
       KnowsWaivers
  <2>9. CASE Claims(r) \/ Saves(r)
    BY <1>4, <2>9 DEF Claims, Saves, Becomes, KnowsWaivers
  <2>10. CASE Finishes(r)
    BY <1>4, <2>1, <2>2, <2>10, FinishFields DEF Finishes, Becomes, KnowsWaivers
  <2>11. CASE Frees(r)
    BY <1>4, <2>2, <2>11 DEF Frees, Becomes, KnowsWaivers
  <2> QED
    BY <2>2, <2>3, <2>4, <2>5, <2>6, <2>7, <2>8, <2>9, <2>10, <2>11
    DEF Step, Silently, Writing, Ends, Updates, Resolves, Resets
<1> QED  BY <1>3, <1>4

LEMMA WaiverStep ==
  ASSUME Basis, WaiverInv, [Next]_vars
  PROVE  WaiverInv'
<1>1. SUFFICES ASSUME causes' \cap WaiverCause = {}
               PROVE  /\ row'.waivers \subseteq granted'
                      /\ \A q \in Request : KnowsWaivers(q)'
  BY WaiverInvIs DEF WaiverInv, Excused, WaiverCause, KnowsWaivers
<1>2. Waivable /\ row.waivers \subseteq granted
  BY <1>1, CloseCausesGrow, WaiverInvIs
  DEF Basis, RevisionInv, Waivable, Excused, WaiverCause
<1>3. CASE Expire \/ UNCHANGED vars
  BY <1>2, <1>3 DEF Expire, vars, historyVars, Waivable, KnowsWaivers
<1> QED
  BY <1>1, <1>2, <1>3, Kinds, WaiversStored, WaiversKnown DEF Basis

(***************************************************************************)
(* A waiver only stands for the latest result of its stage, until one of   *)
(* the named causes occurs (MonthClose.tla, WaiversLapse).                 *)
(***************************************************************************)
THEOREM WaiversLapseHolds == Spec => []WaiversLapse
<1>1. Init => WaiverInv
  BY BlankFields DEF Init, WaiverInv, NewRun
<1>2. Basis /\ WaiverInv /\ [Next]_vars => WaiverInv'
  BY WaiverStep
<1>3. WaiverInv => WaiversLapse
  BY DEF WaiverInv, WaiversLapse, Excused
<1> QED  BY <1>1, <1>2, <1>3, BasisHolds, PTL DEF Spec

-----------------------------------------------------------------------------
(***************************************************************************)
(* The reviewed package (ReviewedInv): nobody builds another one while it  *)
(* is being sent, because building is the work of a stage.                 *)
(***************************************************************************)
ReviewCause == ClaimCause \cup {"local_zip"}

Reviewed ==
    /\ localZip = 0
    /\ \A m \in mails : m.package = m.reviewed
    /\ \A r \in Request :
          req[r].pc \in {"attempt", "smtp"} => req[r].run.package = blob

LEMMA ReviewedOwn ==
  ASSUME Typed, NEW r \in Request, Step(r), Reviewed,
         req'[r].pc \in {"attempt", "smtp"}
  PROVE  req'[r].run.package = blob
<1>1. req[r].run \in Run
  BY CloseFields
<1>2. Begins(r) \/ Saves(r)
  BY DEF Step, Silently, Writing, Ends, Reads, Passes, Begins, Sends, Rereads,
         SavesNothing, Blanks, Claims, Saves, Finishes, Frees, Updates,
         Resolves, Resets, Becomes, IdleReq
<1>3. CASE Begins(r)
  BY <1>1, <1>3, AttemptFields DEF Begins, Becomes
<1>4. CASE Saves(r)
  <2>1. req[r].run.package = blob
    BY <1>4 DEF Saves, Reviewed
  <2> QED  BY <1>1, <1>4, <2>1, BumpFields DEF Saves, Becomes
<1> QED  BY <1>2, <1>3, <1>4

LEMMA ReviewedStep ==
  ASSUME Basis, ClaimInv, Reviewed, causes' \cap ReviewCause = {},
         causes \subseteq causes', NEW r \in Request, Step(r)
  PROVE  Reviewed'
<1>1. \A q \in Request \ {r} : req'[q] = req[q]
  BY DEF Step, Others
<1>2. CASE Passes(r) /\ req[r].pc = "work"
  <2>1. HasClaim(r)
    BY <1>2 DEF ClaimInv, Excused, ReviewCause, Claimant
  <2>2. \A q \in Request : req[q].pc \in {"attempt", "smtp"} => HasClaim(q)
    BY DEF ClaimInv, Excused, ReviewCause, Claimant
  <2>3. \A q \in Request : req[q].pc \notin {"attempt", "smtp"}
    BY <1>2, <2>1, <2>2, OneClaim DEF Basis, HoldingPc
  <2>4. \A q \in Request : req'[q].pc \notin {"attempt", "smtp"}
    BY <1>1, <1>2, <2>3 DEF Passes
  <2>5. localZip' = localZip /\ mails' = mails
    BY <1>2 DEF Passes, ReviewCause
  <2> QED  BY <2>4, <2>5 DEF Reviewed
<1>3. CASE ~(Passes(r) /\ req[r].pc = "work")
  <2>1. UNCHANGED <<blob, localZip>>
    BY <1>3 DEF Step, Silently, Writing, Ends, Reads, Passes, Begins, Sends,
       Rereads, SavesNothing, Blanks, Claims, Saves, Finishes, Frees, Updates,
       Resolves, Resets, World
  <2>2. \A m \in mails' : m.package = m.reviewed
    <3>1. CASE Sends(r)
      BY <3>1 DEF Sends, Reviewed
    <3>2. CASE ~Sends(r)
      BY <3>2 DEF Step, Silently, Writing, Ends, Reads, Passes, Begins,
         Rereads, SavesNothing, Blanks, Claims, Saves, Finishes, Frees, Updates,
         Resolves, Resets, World, Reviewed
    <3> QED  BY <3>1, <3>2
  <2> QED
    BY <1>1, <2>1, <2>2, ReviewedOwn DEF Reviewed, Basis
<1> QED  BY <1>2, <1>3

(***************************************************************************)
(* The mailed package is the reviewed one, until one of the named causes   *)
(* occurs (MonthClose.tla, MailIsReviewed).                                *)
(***************************************************************************)
THEOREM MailIsReviewedHolds == Spec => []MailIsReviewed
<1>1. Init => ReviewedInv
  BY DEF Init, ReviewedInv, IdleReq
<1>2. Basis /\ ClaimInv /\ ReviewedInv /\ [Next]_vars => ReviewedInv'
  <2> SUFFICES ASSUME Basis, ClaimInv, ReviewedInv, [Next]_vars,
                      causes' \cap ReviewCause = {}
               PROVE  Reviewed'
    BY DEF ReviewedInv, Reviewed, Excused, ReviewCause
  <2>1. causes \subseteq causes' /\ Reviewed
    BY CloseCausesGrow DEF ReviewedInv, Reviewed, Excused, ReviewCause
  <2>2. CASE Expire \/ UNCHANGED vars
    BY <2>1, <2>2 DEF Expire, vars, worldVars, Reviewed
  <2> QED
    BY <2>1, <2>2, Kinds, ReviewedStep DEF Basis
<1>3. ReviewedInv => MailIsReviewed
  BY DEF ReviewedInv, MailIsReviewed, ClaimCause, Excused
<1> QED  BY <1>1, <1>2, <1>3, BasisHolds, ClaimHolds, PTL DEF Spec

-----------------------------------------------------------------------------
(***************************************************************************)
(* The e-mail (MailInv).  One stage at a time may make the attempt live,   *)
(* the one whose copy is current, and only on a run whose attempt is not;  *)
(* from then on whoever still saves a copy saves this attempt.             *)
(***************************************************************************)
MailGood ==
    /\ Live => InFlight(row.attempt)
    /\ \A m \in mails : m.attempt = row.attempt.id
    /\ \A m1, m2 \in mails : m1 = m2
    /\ \A r \in Request : MailCopy(r)

Mailable == MailGood /\ \A r \in Request : UpToDate(r)

\* the e-mail becomes live only by a save of its attempt
LEMMA LiveStep ==
  ASSUME NEW r \in Request, Step(r), ~Saves(r), Live'
  PROVE  Live
<1>1. CASE Sends(r)
  BY <1>1 DEF Sends, Live
<1>2. CASE ~Sends(r)
  <2>1. mails' = mails /\ req'[r].pc # "smtp"
    BY <1>2 DEF Step, Silently, Writing, Ends, Reads, Passes, Begins, Rereads,
       SavesNothing, Blanks, Claims, Saves, Finishes, Frees, Updates, Resolves,
       Resets, World, Becomes, IdleReq
  <2> QED  BY <2>1 DEF Live, Step, Others
<1> QED  BY <1>1, <1>2

\* an attempt being saved or sent is the request's own
LEMMA OwnAttempt ==
  ASSUME LocalInv, NEW r \in Request, req[r].pc \in {"attempt", "smtp"}
  PROVE  /\ req[r].run.attempt = [id |-> req[r].n, state |-> "pending"]
         /\ req[r].run.attempt.id = req[r].n
         /\ req[r].run.attempt.state = "pending"
<1>1. req[r].run.attempt = [id |-> req[r].n, state |-> "pending"]
  BY DEF LocalInv, Local
<1> QED  BY <1>1

LEMMA SaveIsFirst ==
  ASSUME Typed, LocalInv, Mailable, causes' \cap MailCause = {},
         NEW r \in Request, Saves(r)
  PROVE  /\ ~Live /\ r \in fresh /\ req[r].run.rev = row.rev
         /\ row.by = req[r].n
         /\ req[r].run.attempt = [id |-> req[r].n, state |-> "pending"]
<1>1. r \in fresh /\ req[r].pc = "attempt"
  BY DEF Saves, NotBlind, MailCause
<1>2. req[r].run.rev = row.rev /\ row.by = req[r].n
  BY <1>1 DEF Mailable, UpToDate
<1>3. row.rev <= req[r].run.rev + 1
  BY <1>2, CloseFields
<1> QED
  BY <1>1, <1>2, <1>3 DEF Mailable, MailGood, MailCopy, LocalInv, Local

\* who writes while the e-mail is live writes its attempt
LEMMA AttemptKept ==
  ASSUME Typed, LocalInv, Mailable, causes' \cap MailCause = {}, Live,
         NEW r \in Request, Writing(r)
  PROVE  row'.attempt.id = row.attempt.id /\ InFlight(row'.attempt)
<1>1. /\ req[r].run \in Run /\ req[r].ok \in BOOLEAN
      /\ row.rev \in Nat /\ req[r].run.rev \in Nat
      /\ UpToDate(r) /\ MailCopy(r) /\ InFlight(row.attempt)
  BY CloseFields DEF Mailable, MailGood
<1>2. NotBlind(r) => r \in fresh
  BY DEF NotBlind, MailCause
<1>3. CASE Claims(r)
  BY <1>1, <1>3, ClaimFields DEF Claims, UpToDate
<1>4. ~Saves(r)
  BY SaveIsFirst
<1>5. CASE Finishes(r)
  <2>1. row.rev <= req[r].run.rev
    BY <1>1, <1>5 DEF Finishes, UpToDate
  <2>2. Agrees(req[r].run.attempt)
    BY <1>1, <1>5, <2>1 DEF Finishes, MailCopy
  <2> QED  BY <1>1, <1>5, <2>2, FinishFields DEF Finishes, Agrees
<1>6. CASE Frees(r)
  BY <1>1, <1>2, <1>6, FreeFields DEF Frees, UpToDate
<1>7. CASE Updates(r)
  <2>1. req[r].run = row
    BY <1>1, <1>7 DEF Updates, UpToDate
  <2>2. PICK waivers : row' = [Bumped(req[r].run) EXCEPT !.waivers = waivers]
    BY <1>7 DEF Updates
  <2> QED  BY <1>1, <2>1, <2>2, UpdateFields
<1>8. CASE Resolves(r)
  <2>1. req[r].run = row
    BY <1>1, <1>2, <1>8 DEF Resolves, UpToDate
  <2>2. Accepted(row.attempt.id) \/ Sending(row.attempt.id)
    <3>1. CASE mails # {}
      BY <3>1 DEF Mailable, MailGood, Accepted
    <3>2. ASSUME NEW q \in Request, req[q].pc = "smtp"
          PROVE  Sending(row.attempt.id)
      <4>1. row.attempt.id = req[q].n
        BY <3>2 DEF Mailable, MailGood, MailCopy
      <4>2. req[q].run.attempt.id = req[q].n
        BY <3>2, OwnAttempt
      <4> QED  BY <3>2, <4>1, <4>2 DEF Sending
    <3> QED  BY <3>1, <3>2 DEF Live
  <2>3. req[r].ok
    BY <1>8, <2>1, <2>2 DEF Resolves, MailCause
  <2> QED
    BY <1>1, <1>8, <2>1, <2>3, ResolveFields DEF Resolves, InFlight
<1>9. ~Resets(r)
  BY <1>1 DEF Resets, MailCause
<1> QED
  BY <1>3, <1>4, <1>5, <1>6, <1>7, <1>8, <1>9 DEF Writing

LEMMA MailGlobal ==
  ASSUME Basis, Mailable, causes' \cap MailCause = {},
         NEW r \in Request, Step(r)
  PROVE  /\ Live' => InFlight(row'.attempt)
         /\ \A m \in mails' : m.attempt = row'.attempt.id
         /\ \A m1, m2 \in mails' : m1 = m2
<1>1. CASE Sends(r)
  <2>1. /\ mails = {} /\ row.attempt.id = req[r].n
        /\ req[r].run.attempt.id = req[r].n
    BY <1>1, OwnAttempt DEF Sends, Mailable, MailGood, MailCopy, Basis
  <2>2. Live /\ row' = row
    BY <1>1 DEF Sends, Live, Stored
  <2> QED
    BY <1>1, <2>1, <2>2 DEF Sends, Mailable, MailGood
<1>2. CASE ~Sends(r)
  <2>1. mails' = mails
    BY <1>2 DEF Step, Silently, Writing, Ends, Reads, Passes, Begins, Rereads,
       SavesNothing, Blanks, Claims, Saves, Finishes, Frees, Updates, Resolves,
       Resets, World
  <2>2. CASE Silently(r) /\ ~Saves(r)
    BY <2>1, <2>2, LiveStep, SilentReads DEF Mailable, MailGood
  <2>3. CASE Saves(r)
    <3>1. ~Live
      BY <2>3, SaveIsFirst DEF Basis
    <3>2. row'.attempt.state = "pending"
      <4>1. row' = Bumped(req[r].run) /\ req[r].pc = "attempt"
        BY <2>3 DEF Saves
      <4>2. row'.attempt = req[r].run.attempt
        BY <4>1, BumpFields, CloseFields DEF Basis
      <4> QED  BY <4>1, <4>2, OwnAttempt DEF Basis
    <3> QED  BY <2>1, <3>1, <3>2 DEF Live, InFlight
  <2>4. CASE Writing(r) /\ ~Saves(r)
    <3>1. Live' => Live
      BY <2>4, LiveStep
    <3>2. Live => row'.attempt.id = row.attempt.id /\ InFlight(row'.attempt)
      BY <2>4, AttemptKept DEF Basis
    <3>3. mails # {} => Live
      BY DEF Live
    <3> QED
      BY <2>1, <3>1, <3>2, <3>3 DEF Mailable, MailGood
  <2> QED  BY <2>2, <2>3, <2>4 DEF Step
<1> QED  BY <1>1, <1>2

LEMMA MailOthers ==
  ASSUME Basis, Typed', Mailable, causes' \cap MailCause = {},
         NEW r \in Request, Step(r), NEW q \in Request, q # r
  PROVE  MailCopy(q)'
<1>1. req'[q] = req[q] /\ MailCopy(q) /\ UpToDate(q) /\ UpToDate(r)
  BY DEF Step, Others, Mailable, MailGood
<1>2. row.rev \in Nat /\ row'.rev \in Nat /\ req[q].run.rev \in Nat
  BY CloseFields DEF Typed, TypeOK, Run, Basis
<1>3. CASE Silently(r) /\ ~Saves(r)
  <2>1. row' = row /\ (q \in fresh' => q \in fresh)
    BY <1>3, SilentReads
  <2>3. Live' => Live
    BY <1>3, LiveStep
  <2>4. req[q].pc = "smtp" => mails' = {}
    <3>1. CASE Sends(r) /\ req[q].pc = "smtp"
      <4>1. req[q].n = req[r].n
        BY <3>1 DEF Sends, Mailable, MailGood, MailCopy
      <4>2. req[q].op \in STEP_IDS /\ req[r].op \in STEP_IDS
        BY <3>1, HolderHasStage DEF Sends, HoldingPc, Basis
      <4> QED  BY <4>1, <4>2 DEF Basis, LocalInv, Numbered
    <3>2. CASE ~Sends(r)
      BY <1>1, <1>3, <3>2 DEF Silently, Ends, Reads, Passes, Begins, Rereads,
         SavesNothing, Blanks, World, MailCopy
    <3> QED  BY <3>1, <3>2
  <2> QED
    BY <1>1, <2>1, <2>3, <2>4 DEF MailCopy, Agrees
<1>4. CASE Writing(r) /\ ~Saves(r)
  <2>1. row'.rev > row.rev /\ q \notin fresh'
    BY <1>1, <1>4, WritesRaise DEF Basis, MailCause
  <2>2. mails' = mails /\ (Live' => Live)
    BY <1>4, LiveStep DEF Writing, Claims, Saves, Finishes, Frees, Updates,
       Resolves, Resets, World
  <2>3. Live => row'.attempt.id = row.attempt.id
    BY <1>4, AttemptKept DEF Basis
  <2>4. req[q].pc = "smtp" => Live
    BY DEF Live
  <2>5. row'.rev <= req[q].run.rev + 1 => row.rev <= req[q].run.rev + 1
    BY <1>2, <2>1
  <2>6. row'.rev <= req[q].run.rev => row.rev <= req[q].run.rev
    BY <1>2, <2>1
  <2>7. req[q].pc = "work" => req[q].run.rev # row'.rev
    BY <1>1, <1>2, <2>1 DEF UpToDate
  <2> QED
    BY <1>1, <2>1, <2>2, <2>3, <2>4, <2>5, <2>6, <2>7 DEF MailCopy, Agrees
<1>5. CASE Saves(r)
  <2>1. ~Live /\ req[r].run.rev = row.rev /\ row.by = req[r].n
    BY <1>5, SaveIsFirst DEF Basis
  <2>2. row'.rev = row.rev + 1 /\ q \notin fresh'
    BY <1>5, <2>1, BumpFields, CloseFields DEF Saves, Basis
  <2>3. req[q].pc \in HoldingPc => req[q].n # row.by
    <3>1. req[r].op \in STEP_IDS
      BY <1>5, HolderHasStage DEF Saves, HoldingPc, Basis
    <3> QED
      BY <2>1, <3>1, HolderHasStage DEF Basis, LocalInv, Numbered
  <2>4. req[q].pc # "smtp"
    BY <2>1 DEF Live
  <2>5. req[q].pc \in {"work", "attempt"} => row'.rev > req[q].run.rev + 1
    BY <1>1, <1>2, <2>2, <2>3 DEF UpToDate, HoldingPc
  <2>6. req[q].pc \in {"finish", "finishWrite", "settle"} =>
           row'.rev > req[q].run.rev
    BY <1>1, <1>2, <2>2, <2>3 DEF UpToDate, HoldingPc
  <2> QED
    BY <1>1, <1>2, <2>2, <2>4, <2>5, <2>6 DEF MailCopy
<1> QED  BY <1>3, <1>4, <1>5 DEF Step

LEMMA MailOwn ==
  ASSUME Basis, Typed', Mailable, causes' \cap MailCause = {},
         NEW r \in Request, Step(r)
  PROVE  MailCopy(r)'
<1> DEFINE q == req[r]
           new == req'[r]
<1>1. /\ q.run \in Run /\ row.rev \in Nat /\ q.run.rev \in Nat
      /\ MailCopy(r) /\ UpToDate(r) /\ (Live => InFlight(row.attempt))
      /\ LocalInv
  BY CloseFields DEF Mailable, MailGood, Basis
<1>2. CASE new = IdleReq
  BY <1>2 DEF MailCopy, IdleReq
<1>3. CASE Reads(r) \/ Blanks(r)
  BY <1>3 DEF Reads, Blanks, Becomes, MailCopy
<1>4. CASE Passes(r)
  <2>1. /\ new.run.rev = q.run.rev /\ new.run.attempt = q.run.attempt
        /\ row' = row /\ fresh' = fresh
        /\ new.pc \in {"finish", "settle"}
        /\ q.pc \in {"work", "smtp", "finish", "finishWrite"}
    BY <1>1, <1>4, PackageFields DEF Passes, Becomes, Stored
  <2>2. Live' => Live
    BY <2>1, <1>4 DEF Live, Passes, Step, Others
  <2>3. SUFFICES ASSUME row.rev <= q.run.rev, Live PROVE Agrees(q.run.attempt)
    BY <2>1, <2>2 DEF MailCopy, Agrees
  <2>4. CASE q.pc = "work"
    <3>1. q.run.attempt = row.attempt
      BY <1>1, <2>3, <2>4 DEF MailCopy, UpToDate
    <3> QED  BY <1>1, <2>3, <3>1 DEF Agrees
  <2>5. CASE q.pc = "smtp"
    BY <1>1, <2>5, OwnAttempt DEF MailCopy, Agrees, InFlight
  <2>6. CASE q.pc \in {"finish", "finishWrite"}
    BY <1>1, <2>3, <2>6 DEF MailCopy
  <2> QED  BY <2>1, <2>4, <2>5, <2>6
<1>5. CASE Begins(r)
  <2>1. /\ new.pc = "attempt" /\ new.run.rev = q.run.rev /\ row' = row
        /\ q.pc = "work" /\ MaySend(q.run.attempt)
    BY <1>1, <1>5, AttemptFields DEF Begins, Becomes, Stored
  <2>2. Live' => Live
    BY <1>5, <2>1 DEF Live, Begins, World, Step, Others
  <2> QED  BY <1>1, <2>1, <2>2 DEF MailCopy
<1>6. CASE Sends(r)
  <2>1. /\ new.pc \in {"finish", "settle"} /\ row' = row
        /\ new.run.attempt.id = q.run.attempt.id
        /\ new.run.attempt.state \in {q.run.attempt.state, "confirmed"}
    BY <1>1, <1>6, ConfirmFields DEF Sends, Becomes, Stored
  <2>2. /\ q.run.attempt.id = row.attempt.id
        /\ q.run.attempt.state = "pending"
    BY <1>1, <1>6, OwnAttempt DEF Sends, MailCopy
  <2> QED  BY <2>1, <2>2 DEF MailCopy, Agrees, InFlight
<1>7. CASE Rereads(r)
  <2>1. /\ new.run.attempt = q.run.attempt /\ row' = row
        /\ new.pc \in {"finishWrite", "settleWrite"}
        /\ row.rev = q.run.rev /\ q.pc \in {"finish", "settle"}
    BY <1>1, <1>7, BumpFields DEF Rereads, Becomes, Reread
  <2>2. Live' => Live
    BY <1>7, <2>1 DEF Live, Rereads, World, Step, Others
  <2>3. Live => Agrees(q.run.attempt)
    BY <1>1, <2>1 DEF MailCopy
  <2> QED  BY <2>1, <2>2, <2>3 DEF MailCopy, Agrees
<1>8. CASE SavesNothing(r)
  <2>1. /\ new.pc = "settle" /\ new.run.rev = q.run.rev + 1 /\ row' = row
        /\ q.pc = "attempt"
    BY <1>1, <1>8, BumpFields DEF SavesNothing, Becomes, Stored
  <2>2. Live' => Live
    BY <1>8, <2>1 DEF Live, SavesNothing, World, Step, Others
  <2> QED  BY <1>1, <2>1, <2>2 DEF MailCopy
<1>9. CASE Claims(r)
  <2>1. /\ new.pc = "work" /\ new.run = row'
        /\ row'.attempt = row.attempt
    BY <1>1, <1>9, ClaimFields DEF Claims, Becomes, UpToDate
  <2>2. Live' => Live
    BY <1>9, <2>1 DEF Live, Claims, Step, Others
  <2> QED
    BY <1>1, <2>1, <2>2 DEF MailCopy, MaySend, InFlight
<1>10. CASE Saves(r)
  <2>1. /\ new.pc \in {"smtp", "settle"} /\ new.run = row' /\ new.n = q.n
        /\ row'.attempt = q.run.attempt
    BY <1>1, <1>10, BumpFields DEF Saves, Becomes
  <2>2. q.run.attempt.id = q.n /\ q.run.attempt.state = "pending"
    BY <1>1, <1>10, OwnAttempt DEF Saves
  <2>3. mails' = {}
    BY <1>10, SaveIsFirst DEF Saves, World, Live, Basis
  <2> QED
    BY <2>1, <2>2, <2>3 DEF MailCopy, Agrees, InFlight
<1>11. CASE Finishes(r) /\ new # IdleReq
  <2>1. /\ new.pc = "settle" /\ new.run = q.run /\ q.pc = "finishWrite"
        /\ row'.attempt = q.run.attempt /\ r \in fresh
    BY <1>1, <1>11, FinishFields DEF Finishes, Becomes
  <2>2. Live' => Live
    BY <1>11, <2>1 DEF Live, Finishes, World, Step, Others
  <2>3. row.rev <= q.run.rev
    BY <1>1, <2>1 DEF UpToDate
  <2>4. Live => InFlight(q.run.attempt)
    BY <1>1, <2>1, <2>3 DEF MailCopy, Agrees
  <2> QED  BY <2>1, <2>2, <2>4 DEF MailCopy, Agrees
<1>12. CASE Frees(r)
  BY <1>2, <1>12 DEF Frees, MailCopy
<1> QED
  BY <1>2, <1>3, <1>4, <1>5, <1>6, <1>7, <1>8, <1>9, <1>10, <1>11, <1>12
  DEF Step, Silently, Writing, Ends, Finishes, Updates, Resolves, Resets

LEMMA MailStep ==
  ASSUME Basis, MailInv, [Next]_vars
  PROVE  MailInv'
<1>1. SUFFICES ASSUME causes' \cap MailCause = {} PROVE MailGood'
  BY DEF MailInv, MailGood, Excused
<1>2. Mailable
  BY <1>1, CloseCausesGrow
  DEF MailInv, MailGood, Mailable, Basis, RevisionInv, Excused, MailCause
<1>3. CASE Expire \/ UNCHANGED vars
  <2>1. UNCHANGED <<row, fresh, req, mails>>
    BY <1>3 DEF Expire, vars, worldVars
  <2> QED
    BY <1>2, <2>1 DEF Mailable, MailGood, MailCopy, Live, Agrees
<1>4. ASSUME NEW r \in Request, Step(r) PROVE MailGood'
  <2>1. Typed'
    BY TypeStep DEF Basis
  <2>2. ASSUME NEW q \in Request PROVE MailCopy(q)'
    BY <1>1, <1>2, <1>4, <2>1, MailOthers, MailOwn
  <2> QED
    BY <1>1, <1>2, <1>4, <2>2, MailGlobal DEF MailGood
<1> QED
  BY <1>3, <1>4, Kinds DEF Basis

LEMMA MailHolds == Spec => []MailInv
<1>1. Init => MailInv
  BY DEF Init, MailInv, Live, MailCopy, IdleReq
<1>2. Basis /\ MailInv /\ [Next]_vars => MailInv'
  BY MailStep
<1> QED  BY <1>1, <1>2, BasisHolds, PTL DEF Spec

(***************************************************************************)
(* Every e-mail that went out is on the stored run, as an attempt nobody   *)
(* can repeat, until one of the named causes occurs (MailIsOnRecord).      *)
(***************************************************************************)
THEOREM MailIsOnRecordHolds == Spec => []MailIsOnRecord
<1>1. MailInv => MailIsOnRecord
  BY DEF MailInv, MailIsOnRecord, Live, InFlight
<1> QED  BY <1>1, MailHolds, PTL

(***************************************************************************)
(* The accountant gets one e-mail at most, until one of the named causes   *)
(* occurs; overruns and takeovers are not among them (OneMail).            *)
(***************************************************************************)
THEOREM OneMailHolds == Spec => []OneMail
<1>1. MailInv => OneMail
  BY DEF MailInv, OneMail
<1> QED  BY <1>1, MailHolds, PTL
=============================================================================
