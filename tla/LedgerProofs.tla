----------------------------- MODULE LedgerProofs ------------------------------
(* Proofs of the remediation ledger's other promises, on top of ExecuteInv:    *)
(* first what one step of one goroutine may touch, then each invariant of      *)
(* LedgerInv and the theorems, and the refinement at the end.                  *)
EXTENDS LedgerInv, RemediationProofs, WellFoundedInduction, FunctionTheorems

--------------------------------------------------------------------------------
(* What one step of a goroutine touches.                                       *)

ByWorker(w) == Step(w) \/ Request(w) \/ StoreError(w)

(* A goroutine only moves itself.                                              *)
LEMMA ByWorkerIsLocal ==
    ASSUME TypeOK, NEW w \in Workers, ByWorker(w)
    PROVE  OnlyWorker(w) /\ UNCHANGED startup
  <1>1. CASE ProposeStep(w)
    <2>1. CASE DeriveFromEvents(w)
      BY <2>1, ReturnIsLocal DEF DeriveFromEvents, OnlyWorker, TypeOK, WorkersType, loop
    <2> QED
      BY <1>1, <2>1, GotoIsLocal, ReturnIsLocal
      DEF ProposeStep, GetRunbook, CreateRunbook, CreateExecution, AuditProposed, EventProposed,
          AuditBlocked, EventBlocked, DeriveRollback, appendAudit, appendEvent, appendLastEvent
  <1>2. CASE ApproveStep(w)
    BY <1>2, GotoIsLocal, ReturnIsLocal
    DEF ApproveStep, approveAndAckExecute, Approve, ConsumeToken, MarkConfirmationTokenUsed,
        ToApproved, AuditApproved, EventApproved, appendAudit, appendEvent
  <1>3. CASE DeclineStep(w)
    BY <1>3, GotoIsLocal, ReturnIsLocal
    DEF DeclineStep, Decline, ToDeclined, AuditDeclined, EventDeclined, appendAudit,
        appendLastEvent
  <1>4. CASE ExecuteLoop(w)
    <2>1. idx[w] + 1 \in Nat
      BY DEF TypeOK, WorkersType
    <2>2. CASE \E ok \in BOOLEAN : ExecuteStep(w, ok)
      BY <2>2 DEF ExecuteStep, OnlyWorker, TypeOK, WorkersType
    <2> QED
      BY <1>4, <2>1, <2>2, GotoIsLocal, ReturnIsLocal, NextStepIsLocal, NextVerificationIsLocal
      DEF ExecuteLoop, Execute, ToExecuting, AuditStarted, EventStarted, EventStep, AuditStep,
          ToFailed, AuditFailed, EventFailed, ToVerifying, AuditVerifying, EventVerifying,
          EventStepVerification, EventInternalVerification, Leave, appendAudit, appendLastEvent
  <1>5. CASE Request(w)
    BY <1>5, BeginIsLocal
    DEF Request, Propose, RequestRollback, RequestExecute, RequestDecline
  <1>6. CASE StoreError(w)
    BY <1>6, ReturnIsLocal DEF StoreError
  <1> QED BY <1>1, <1>2, <1>3, <1>4, <1>5, <1>6 DEF ByWorker, Step

(* The statements that write the rows, the tokens and the history.             *)
LEMMA Writers ==
    ASSUME TypeOK, NEW w \in Workers, ByWorker(w)
    PROVE  /\ pc[w] # "step" => UNCHANGED host
           /\ pc[w] # "createRunbook" => UNCHANGED runbook
           /\ pc[w] # "createExecution" => UNCHANGED runbookHash
           /\ pc[w] \notin {"createExecution", "toApproved", "toDeclined", "toExecuting",
                            "toFailed", "toVerifying"} => UNCHANGED status
           /\ pc[w] # "markTokenUsed" => UNCHANGED used
           /\ pc[w] # "toApproved" => UNCHANGED grant
           /\ pc[w] # "toExecuting" => UNCHANGED owner
           /\ UNCHANGED binding
  <1> USE DEF rows, trail, tokens, history
  <1>1. CASE ProposeStep(w)
    BY <1>1
    DEF ProposeStep, GetRunbook, CreateRunbook, CreateExecution, AuditProposed, EventProposed,
        AuditBlocked, EventBlocked, DeriveRollback, DeriveFromEvents, appendAudit, appendEvent,
        appendLastEvent
  <1>2. CASE ApproveStep(w)
    BY <1>2
    DEF ApproveStep, approveAndAckExecute, Approve, ConsumeToken, MarkConfirmationTokenUsed,
        ToApproved, AuditApproved, EventApproved, appendAudit, appendEvent
  <1>3. CASE DeclineStep(w)
    BY <1>3
    DEF DeclineStep, Decline, ToDeclined, AuditDeclined, EventDeclined, appendAudit,
        appendLastEvent
  <1>4. CASE ExecuteLoop(w)
    BY <1>4
    DEF ExecuteLoop, Execute, ToExecuting, AuditStarted, EventStarted, ExecuteStep, EventStep,
        AuditStep, ToFailed, AuditFailed, EventFailed, ToVerifying, AuditVerifying,
        EventVerifying, EventStepVerification, EventInternalVerification, Leave, appendAudit,
        appendLastEvent
  <1>5. CASE Request(w)
    BY <1>5 DEF Request, Propose, RequestRollback, RequestExecute, RequestDecline
  <1>6. CASE StoreError(w)
    BY <1>6 DEF StoreError
  <1> QED BY <1>1, <1>2, <1>3, <1>4, <1>5, <1>6 DEF ByWorker, Step

(* The type of the event that is appended at a label.                          *)
EventAt(l) ==
    CASE l = "eventProposed" -> "runbook_proposed"
      [] l = "eventBlocked"  -> "runbook_blocked"
      [] l = "eventApproved" -> "runbook_approved"
      [] l = "eventDeclined" -> "runbook_declined"
      [] l = "eventStarted"  -> "execution_started"
      [] l = "eventFailed"   -> "remediation_failed"
      [] l = "eventVerifying" -> "verification_started"
      [] l = "stepVerification" -> "step_verification"
      [] OTHER -> "internal_verification"

EventPcs == {"eventProposed", "eventBlocked", "eventApproved", "eventDeclined", "eventStarted",
             "eventFailed", "eventVerifying", "stepVerification", "internalVerification"}

(* The statements that write the trail.                                        *)
LEMMA TrailWriters ==
    ASSUME TypeOK, NEW w \in Workers, ByWorker(w)
    PROVE  /\ \/ UNCHANGED events
              \/ /\ pc[w] \in EventPcs
                 /\ AppendRemediationEvent(call[w].ex, Event(EventAt(pc[w])))
              \/ /\ pc[w] = "eventStep"
                 /\ AppendRemediationEvent(call[w].ex, StepResult(idx[w], stepOk[w]))
           /\ \/ UNCHANGED audit
              \/ pc[w] # "idle" /\ \E typ \in AuditTypes : AppendAudit(call[w].ex, typ)
  <1> USE DEF rows, trail, tokens, history, EventAt, EventPcs, AuditTypes
  <1>1. CASE ProposeStep(w)
    BY <1>1
    DEF ProposeStep, GetRunbook, CreateRunbook, CreateExecution, AuditProposed, EventProposed,
        AuditBlocked, EventBlocked, DeriveRollback, DeriveFromEvents, appendAudit, appendEvent,
        appendLastEvent
  <1>2. CASE ApproveStep(w)
    BY <1>2
    DEF ApproveStep, approveAndAckExecute, Approve, ConsumeToken, MarkConfirmationTokenUsed,
        ToApproved, AuditApproved, EventApproved, appendAudit, appendEvent
  <1>3. CASE DeclineStep(w)
    BY <1>3
    DEF DeclineStep, Decline, ToDeclined, AuditDeclined, EventDeclined, appendAudit,
        appendLastEvent
  <1>4. CASE ExecuteLoop(w)
    BY <1>4
    DEF ExecuteLoop, Execute, ToExecuting, AuditStarted, EventStarted, ExecuteStep, EventStep,
        AuditStep, ToFailed, AuditFailed, EventFailed, ToVerifying, AuditVerifying,
        EventVerifying, EventStepVerification, EventInternalVerification, Leave, appendAudit,
        appendLastEvent
  <1>5. CASE Request(w)
    BY <1>5 DEF Request, Propose, RequestRollback, RequestExecute, RequestDecline
  <1>6. CASE StoreError(w)
    BY <1>6 DEF StoreError
  <1> QED BY <1>1, <1>2, <1>3, <1>4, <1>5, <1>6 DEF ByWorker, Step

(* The labels a call may go to from each label, other than returning.          *)
After(l) ==
    CASE l = "idle"           -> {"getRunbook", "derive", "getForApproval", "decline"}
      [] l = "getRunbook"     -> {"createRunbook", "createExecution"}
      [] l = "createRunbook"  -> {"createExecution"}
      [] l = "createExecution" -> {"auditProposed"}
      [] l = "auditProposed"  -> {"eventProposed"}
      [] l = "eventProposed"  -> {"auditBlocked"}
      [] l = "auditBlocked"   -> {"eventBlocked"}
      [] l = "derive"         -> {"successfulSteps"}
      [] l = "successfulSteps" -> {"getRunbook"}
      [] l = "getForApproval" -> {"approve", "execute"}
      [] l = "approve"        -> {"consumeToken"}
      [] l = "consumeToken"   -> {"markTokenUsed"}
      [] l = "markTokenUsed"  -> {"toApproved"}
      [] l = "toApproved"     -> {"auditApproved"}
      [] l = "auditApproved"  -> {"eventApproved"}
      [] l = "eventApproved"  -> {"execute"}
      [] l = "decline"        -> {"toDeclined"}
      [] l = "toDeclined"     -> {"auditDeclined"}
      [] l = "auditDeclined"  -> {"eventDeclined"}
      [] l = "execute"        -> {"toExecuting"}
      [] l = "toExecuting"    -> {"auditStarted"}
      [] l = "auditStarted"   -> {"eventStarted"}
      [] l = "eventStarted"   -> {"step", "toVerifying"}
      [] l = "step"           -> {"eventStep"}
      [] l = "eventStep"      -> {"auditStep"}
      [] l = "auditStep"      -> {"step", "toVerifying", "toFailed"}
      [] l = "toFailed"       -> {"auditFailed"}
      [] l = "auditFailed"    -> {"eventFailed"}
      [] l = "toVerifying"    -> {"auditVerifying"}
      [] l = "auditVerifying" -> {"eventVerifying"}
      [] l = "eventVerifying" -> {"stepVerification", "internalVerification"}
      [] l = "stepVerification" -> {"stepVerification", "internalVerification"}
      [] OTHER -> {}

(* A goroutine returns, or follows that graph with the arguments it has.       *)
LEMMA Flow ==
    ASSUME TypeOK, NEW w \in Workers, ByWorker(w), pc'[w] # "idle"
    PROVE  /\ pc'[w] \in After(pc[w])
           /\ pc[w] \notin {"idle", "successfulSteps"} => call'[w] = call[w]
  <1>1. CASE ProposeStep(w)
    <2>1. CASE DeriveFromEvents(w)
      BY <2>1, ReturnIsLocal DEF DeriveFromEvents, After, TypeOK, WorkersType
    <2> QED
      BY <1>1, <2>1, GotoIsLocal, ReturnIsLocal
      DEF ProposeStep, GetRunbook, CreateRunbook, CreateExecution, AuditProposed, EventProposed,
          AuditBlocked, EventBlocked, DeriveRollback, appendAudit, appendEvent, appendLastEvent,
          After
  <1>2. CASE ApproveStep(w)
    BY <1>2, GotoIsLocal, ReturnIsLocal
    DEF ApproveStep, approveAndAckExecute, Approve, ConsumeToken, MarkConfirmationTokenUsed,
        ToApproved, AuditApproved, EventApproved, appendAudit, appendEvent, After
  <1>3. CASE DeclineStep(w)
    BY <1>3, GotoIsLocal, ReturnIsLocal
    DEF DeclineStep, Decline, ToDeclined, AuditDeclined, EventDeclined, appendAudit,
        appendLastEvent, After
  <1>4. CASE ExecuteLoop(w)
    <2>1. idx[w] + 1 \in Nat
      BY DEF TypeOK, WorkersType
    <2>2. CASE \E ok \in BOOLEAN : ExecuteStep(w, ok)
      BY <2>2 DEF ExecuteStep, TypeOK, WorkersType, After
    <2>3. CASE Execute(w) \/ ToExecuting(w) \/ AuditStarted(w) \/ EventStep(w)
      BY <2>3, GotoIsLocal, ReturnIsLocal
      DEF Execute, ToExecuting, AuditStarted, EventStep, appendAudit, After
    <2>4. CASE EventStarted(w) \/ AuditStep(w)
      BY <2>1, <2>4, GotoIsLocal, NextStepIsLocal DEF EventStarted, AuditStep, After
    <2>5. CASE \/ ToFailed(w) \/ AuditFailed(w) \/ EventFailed(w)
               \/ ToVerifying(w) \/ AuditVerifying(w)
      BY <2>5, GotoIsLocal, ReturnIsLocal
      DEF ToFailed, AuditFailed, EventFailed, ToVerifying, AuditVerifying, Leave, appendAudit,
          appendLastEvent, After
    <2>6. CASE \/ EventVerifying(w) \/ EventStepVerification(w) \/ EventInternalVerification(w)
      BY <2>1, <2>6, ReturnIsLocal, NextVerificationIsLocal
      DEF EventVerifying, EventStepVerification, EventInternalVerification, appendLastEvent, After
    <2> QED BY <1>4, <2>2, <2>3, <2>4, <2>5, <2>6 DEF ExecuteLoop
  <1>5. CASE Request(w)
    BY <1>5
    DEF Request, Propose, RequestRollback, RequestExecute, RequestDecline, Begin, After, TypeOK,
        WorkersType
  <1>6. CASE StoreError(w)
    BY <1>6, ReturnIsLocal DEF StoreError
  <1> QED BY <1>1, <1>2, <1>3, <1>4, <1>5, <1>6 DEF ByWorker, Step

(* A goroutine changes one status at most, that of its execution, and only by  *)
(* these moves.                                                                *)
LEMMA StatusMoves ==
    ASSUME TypeOK, NEW w \in Workers, ByWorker(w),
           NEW e \in Executions, status'[e] # status[e]
    PROVE  /\ pc[w] # "idle" /\ e = call[w].ex
           /\ \/ /\ pc[w] = "createExecution" /\ status[e] = "none"
                 /\ status'[e] = IF call[w].rb.blocked THEN "blocked_l3" ELSE "proposed"
              \/ pc[w] = "toApproved" /\ status[e] = "proposed" /\ status'[e] = "approved"
              \/ pc[w] = "toDeclined" /\ status[e] = "proposed" /\ status'[e] = "declined"
              \/ /\ pc[w] = "toExecuting" /\ status[e] = "approved" /\ status'[e] = "executing"
                 /\ pc'[w] = "auditStarted"
              \/ /\ pc[w] = "toFailed" /\ status[e] = "executing"
                 /\ status'[e] = "remediation_failed" /\ pc'[w] = "auditFailed"
              \/ /\ pc[w] = "toVerifying" /\ status[e] = "executing"
                 /\ status'[e] = "verifying" /\ pc'[w] = "auditVerifying"
  <1> USE DEF TypeOK, RowsType
  <1>1. pc[w] \in {"createExecution", "toApproved", "toDeclined", "toExecuting", "toFailed",
                   "toVerifying"}
    BY Writers
  <1>2. CASE ProposeStep(w)
    BY <1>1, <1>2
    DEF ProposeStep, GetRunbook, CreateRunbook, CreateExecution, AuditProposed, EventProposed,
        AuditBlocked, EventBlocked, DeriveRollback, DeriveFromEvents, appendAudit,
        appendLastEvent
  <1>3. CASE ApproveStep(w)
    BY <1>1, <1>3
    DEF ApproveStep, approveAndAckExecute, Approve, ConsumeToken, MarkConfirmationTokenUsed,
        ToApproved, AuditApproved, EventApproved, appendAudit, appendEvent, TransitionExecution
  <1>4. CASE DeclineStep(w)
    BY <1>1, <1>4
    DEF DeclineStep, Decline, ToDeclined, AuditDeclined, EventDeclined, appendAudit,
        appendLastEvent, TransitionExecution
  <1>5. CASE ExecuteLoop(w)
    <2>1. ToExecuting(w) \/ ToFailed(w) \/ ToVerifying(w)
      BY <1>1, <1>5
      DEF ExecuteLoop, Execute, AuditStarted, EventStarted, ExecuteStep, EventStep, AuditStep,
          AuditFailed, EventFailed, AuditVerifying, EventVerifying, EventStepVerification,
          EventInternalVerification, appendAudit, appendLastEvent
    <2>2. CASE ToExecuting(w)
      BY <2>2, GotoIsLocal DEF ToExecuting, TransitionExecution
    <2>3. CASE ToFailed(w)
      BY <2>3, GotoIsLocal DEF ToFailed, Leave, TransitionExecution
    <2>4. CASE ToVerifying(w)
      BY <2>4, GotoIsLocal DEF ToVerifying, Leave, TransitionExecution
    <2> QED BY <2>1, <2>2, <2>3, <2>4
  <1>6. CASE Request(w)
    BY <1>1, <1>6
    DEF Request, Propose, RequestRollback, RequestExecute, RequestDecline, Begin
  <1>7. CASE StoreError(w)
    BY <1>7 DEF StoreError, rows
  <1> QED BY <1>2, <1>3, <1>4, <1>5, <1>6, <1>7 DEF ByWorker, Step

(* The action that may happen at a label, when the store does not fail.        *)
LEMMA AtLabel ==
    ASSUME NEW w \in Workers, ByWorker(w), ~StoreError(w)
    PROVE  /\ pc[w] = "idle" => Request(w)
           /\ pc[w] = "getRunbook" => GetRunbook(w)
           /\ pc[w] = "createRunbook" => CreateRunbook(w)
           /\ pc[w] = "createExecution" => CreateExecution(w)
           /\ pc[w] = "derive" => DeriveRollback(w)
           /\ pc[w] = "successfulSteps" => DeriveFromEvents(w)
           /\ pc[w] = "getForApproval" => approveAndAckExecute(w)
           /\ pc[w] = "approve" => Approve(w)
           /\ pc[w] = "consumeToken" => ConsumeToken(w)
           /\ pc[w] = "markTokenUsed" => MarkConfirmationTokenUsed(w)
           /\ pc[w] = "toApproved" => ToApproved(w)
           /\ pc[w] = "auditApproved" => AuditApproved(w)
           /\ pc[w] = "eventApproved" => EventApproved(w)
           /\ pc[w] = "execute" => Execute(w)
           /\ pc[w] = "toExecuting" => ToExecuting(w)
           /\ pc[w] = "eventStarted" => EventStarted(w)
           /\ pc[w] = "step" => \E ok \in BOOLEAN : ExecuteStep(w, ok)
           /\ pc[w] = "eventStep" => EventStep(w)
           /\ pc[w] = "auditStep" => AuditStep(w)
           /\ pc[w] = "toFailed" => ToFailed(w)
           /\ pc[w] = "toVerifying" => ToVerifying(w)
           /\ pc[w] = "toDeclined" => ToDeclined(w)
  <1>1. CASE ProposeStep(w)
    BY <1>1
    DEF ProposeStep, GetRunbook, CreateRunbook, CreateExecution, AuditProposed, EventProposed,
        AuditBlocked, EventBlocked, DeriveRollback, DeriveFromEvents, appendAudit, appendEvent,
        appendLastEvent
  <1>2. CASE ApproveStep(w)
    BY <1>2
    DEF ApproveStep, approveAndAckExecute, Approve, ConsumeToken, MarkConfirmationTokenUsed,
        ToApproved, AuditApproved, EventApproved, appendAudit, appendEvent
  <1>3. CASE DeclineStep(w)
    BY <1>3
    DEF DeclineStep, Decline, ToDeclined, AuditDeclined, EventDeclined, appendAudit,
        appendLastEvent
  <1>4. CASE ExecuteLoop(w)
    BY <1>4
    DEF ExecuteLoop, Execute, ToExecuting, AuditStarted, EventStarted, ExecuteStep, EventStep,
        AuditStep, ToFailed, AuditFailed, EventFailed, ToVerifying, AuditVerifying,
        EventVerifying, EventStepVerification, EventInternalVerification, Leave, appendAudit,
        appendLastEvent
  <1>5. CASE Request(w)
    BY <1>5 DEF Request, Propose, RequestRollback, RequestExecute, RequestDecline, Begin
  <1> QED BY <1>1, <1>2, <1>3, <1>4, <1>5 DEF ByWorker, Step

(* A failed store call writes nothing.                                         *)
LEMMA StoreErrorReturns ==
    ASSUME TypeOK, NEW w \in Workers, StoreError(w)
    PROVE  pc'[w] = "idle" /\ UNCHANGED <<rows, trail, tokens, history>>
  BY ReturnIsLocal DEF StoreError

(* The row of a runbook is written once, by a proposal of that execution.      *)
LEMMA WriteOnce ==
    ASSUME TypeOK, NEW w \in Workers, ByWorker(w), NEW e \in Executions
    PROVE  \/ runbook'[e] = runbook[e]
           \/ /\ pc[w] = "createRunbook" /\ pc'[w] = "createExecution" /\ e = call[w].ex
              /\ runbook[e] = None /\ runbook'[e] = call[w].rb /\ call[w].rb \in Contents
  <1>1. CASE pc[w] # "createRunbook"
    BY <1>1, Writers
  <1>2. CASE StoreError(w)
    BY <1>2, StoreErrorReturns DEF rows
  <1>3. CASE CreateRunbook(w)
    BY <1>3, GotoIsLocal DEF CreateRunbook, TypeOK, RowsType, WorkersType, ProposePcs
  <1> QED BY <1>1, <1>2, <1>3, AtLabel

(* The hash of a row is written with its first status.                         *)
LEMMA HashMoves ==
    ASSUME TypeOK, NEW w \in Workers, ByWorker(w), NEW e \in Executions,
           runbookHash'[e] # runbookHash[e] \/ (status[e] = "none" /\ status'[e] # "none")
    PROVE  /\ pc[w] = "createExecution" /\ e = call[w].ex /\ status[e] = "none"
           /\ status'[e] = IF call[w].rb.blocked THEN "blocked_l3" ELSE "proposed"
           /\ runbookHash'[e] = ContentHash(call[w].rb)
           /\ call[w].rb \in Contents
  <1>1. pc[w] = "createExecution"
    BY Writers, StatusMoves
  <1>2. CreateExecution(w)
    BY <1>1, AtLabel, StoreErrorReturns DEF rows
  <1> QED BY <1>1, <1>2 DEF CreateExecution, TypeOK, RowsType, WorkersType, ProposePcs

--------------------------------------------------------------------------------
(* The durable events.                                                         *)

(* What appending an event leaves and adds.                                    *)
LEMMA Appended ==
    ASSUME TrailType, NEW e \in Executions, NEW ev, AppendRemediationEvent(e, ev)
    PROVE  /\ \A d \in Executions \ {e} : events'[d] = events[d]
           /\ Len(events[e]) \in Nat
           /\ Len(events'[e]) = Len(events[e]) + 1
           /\ \A k \in 1..Len(events[e]) : events'[e][k] = events[e][k]
           /\ events'[e][Len(events[e]) + 1] = ev
  BY DEF TrailType, AppendRemediationEvent

(* The positions of one type of event after an append.                         *)
LEMMA EventsOfAfter ==
    ASSUME TrailType, NEW e \in Executions, NEW ev, AppendRemediationEvent(e, ev),
           NEW d \in Executions, NEW typ
    PROVE  EventsOf(d, typ)' = IF d = e /\ ev.type = typ
                               THEN EventsOf(d, typ) \cup {Len(events[e]) + 1}
                               ELSE EventsOf(d, typ)
  <1>1. CASE d # e
    BY <1>1, Appended DEF EventsOf
  <1>2. CASE d = e
    BY <1>2, Appended, SMTT(30) DEF EventsOf
  <1> QED BY <1>1, <1>2

(* Goroutines only add to the events of an execution, and a type of event only *)
(* from its own label.                                                         *)
LEMMA EventsGrow ==
    ASSUME TypeOK, NEW w \in Workers, ByWorker(w), NEW e \in Executions
    PROVE  /\ \A k \in 1..Len(events[e]) : events'[e][k] = events[e][k]
           /\ \A typ : EventsOf(e, typ) \subseteq EventsOf(e, typ)'
           /\ pc[w] # "eventStep" \/ call[w].ex # e => UNCHANGED Results(e)
           /\ pc[w] # "eventStarted" \/ call[w].ex # e =>
                 UNCHANGED EventsOf(e, "execution_started")
  <1>1. CASE UNCHANGED events
    BY <1>1 DEF EventsOf, Results
  <1>2. CASE /\ pc[w] \in EventPcs
             /\ AppendRemediationEvent(call[w].ex, Event(EventAt(pc[w])))
    <2>1. call[w].ex \in Executions
      BY <1>2, ActiveCall DEF TypeOK, EventPcs
    <2>2. Event(EventAt(pc[w])).type # "step_result"
      BY <1>2 DEF Event, EventAt, EventPcs
    <2>3. pc[w] # "eventStarted" => Event(EventAt(pc[w])).type # "execution_started"
      BY <1>2 DEF Event, EventAt, EventPcs
    <2> QED
      BY <1>2, <2>1, <2>2, <2>3, Appended, EventsOfAfter DEF TypeOK, Results
  <1>3. CASE /\ pc[w] = "eventStep"
             /\ AppendRemediationEvent(call[w].ex, StepResult(idx[w], stepOk[w]))
    <2>1. call[w].ex \in Executions
      BY <1>3, ActiveCall DEF TypeOK
    <2>2. StepResult(idx[w], stepOk[w]).type = "step_result"
      BY DEF StepResult
    <2> QED
      BY <1>3, <2>1, <2>2, Appended, EventsOfAfter DEF TypeOK, Results
  <1> QED BY <1>1, <1>2, <1>3, TrailWriters

(* They only add to the audit rows, too.                                       *)
LEMMA AuditGrows ==
    ASSUME TypeOK, NEW w \in Workers, ByWorker(w), NEW e \in Executions, NEW typ,
           AuditHas(e, typ)
    PROVE  AuditHas(e, typ)'
  <1>1. CASE UNCHANGED audit
    BY <1>1 DEF AuditHas
  <1>2. CASE pc[w] # "idle" /\ \E a \in AuditTypes : AppendAudit(call[w].ex, a)
    <2>1. PICK a \in AuditTypes : AppendAudit(call[w].ex, a)
      BY <1>2
    <2>2. call[w].ex \in Executions
      BY <1>2, ActiveCall DEF TypeOK
    <2>3. PICK j \in 1..Len(audit[e]) : audit[e][j] = typ
      BY DEF AuditHas
    <2>4. j \in 1..Len(audit'[e]) /\ audit'[e][j] = typ
      BY <2>1, <2>2, <2>3 DEF AppendAudit, TypeOK, TrailType
    <2> QED BY <2>4 DEF AuditHas
  <1> QED BY <1>1, <1>2, TrailWriters

--------------------------------------------------------------------------------
(* What the agent and the phone's token request touch.                         *)

(* A step that is none of a goroutine's: minting a token, the agent's crash,   *)
(* restart and recovery, or none at all.                                       *)
ByAgent == [Next]_vars /\ ~\E w \in Workers : ByWorker(w)

(* It is one of these.                                                         *)
LEMMA AgentSteps ==
    ASSUME ByAgent
    PROVE  \/ \E t \in Tokens, e \in Executions, a \in {"execute", "rollback"} :
                 MintConfirmationToken(t, e, a)
           \/ Crash \/ Recovery \/ RecoverError \/ UNCHANGED vars
  BY DEF ByAgent, Next, ByWorker

(* The agent leaves contents, tokens and the host alone and closes executions  *)
(* that are in flight; goroutines go on or are all gone.                       *)
LEMMA AgentWrites ==
    ASSUME TypeOK, ByAgent
    PROVE  /\ UNCHANGED <<runbook, runbookHash, used, host, grant, owner>>
           /\ UNCHANGED <<pc, call, loop>> \/ \A w \in Workers : pc'[w] = "idle"
           /\ \A t \in Tokens : binding[t] # None => binding'[t] = binding[t]
           /\ \A e \in Executions :
                 \/ status'[e] = status[e]
                 \/ /\ agent = "toInterrupted" /\ status[e] \in {"executing", "verifying"}
                    /\ status'[e] = "remediation_failed"
  <1> USE DEF rows, trail, tokens, history, startup
  <1>1. ASSUME NEW t \in Tokens, NEW e \in Executions, NEW a \in {"execute", "rollback"},
               MintConfirmationToken(t, e, a)
        PROVE  /\ UNCHANGED <<rows, used, history, pc, call, loop>>
               /\ \A u \in Tokens : binding[u] # None => binding'[u] = binding[u]
    BY <1>1 DEF MintConfirmationToken, TypeOK, TokensType
  <1>2. CASE Crash
    BY <1>2 DEF Crash
  <1>3. CASE Restart \/ RecoverList \/ RecoverAudit \/ RecoverEvent \/ RecoverError
    BY <1>3 DEF Restart, RecoverList, RecoverAudit, RecoverEvent, RecoverError
  <1>4. CASE RecoverTransition
    BY <1>4 DEF RecoverTransition, TransitionExecution, TypeOK, RowsType, StartupType
  <1>5. CASE UNCHANGED vars
    BY <1>5 DEF vars
  <1> QED BY <1>1, <1>2, <1>3, <1>4, <1>5, AgentSteps DEF Recovery

(* Recovery only adds its own events and audit rows.                           *)
LEMMA AgentTrail ==
    ASSUME TypeOK, ByAgent, NEW e \in Executions
    PROVE  /\ \A k \in 1..Len(events[e]) : events'[e][k] = events[e][k]
           /\ \A typ : EventsOf(e, typ) \subseteq EventsOf(e, typ)'
           /\ UNCHANGED Results(e)
           /\ UNCHANGED EventsOf(e, "execution_started")
           /\ \A typ : AuditHas(e, typ) => AuditHas(e, typ)'
  <1>1. CASE UNCHANGED trail
    BY <1>1 DEF trail, EventsOf, Results, AuditHas
  <1>2. CASE RecoverEvent
    <2>1. fixing \in Executions /\ AppendRemediationEvent(fixing, Event("remediation_failed"))
      BY <1>2 DEF RecoverEvent, TypeOK, StartupType
    <2>2. UNCHANGED audit
      BY <1>2 DEF RecoverEvent
    <2> QED
      BY <2>1, <2>2, Appended, EventsOfAfter DEF TypeOK, Results, Event, AuditHas
  <1>3. CASE RecoverAudit
    <2>1. fixing \in Executions /\ AppendAudit(fixing, "remediation.failed") /\ UNCHANGED events
      BY <1>3 DEF RecoverAudit, TypeOK, StartupType
    <2>2. ASSUME NEW typ, AuditHas(e, typ)
          PROVE  AuditHas(e, typ)'
      <3>1. PICK j \in 1..Len(audit[e]) : audit[e][j] = typ
        BY <2>2 DEF AuditHas
      <3>2. j \in 1..Len(audit'[e]) /\ audit'[e][j] = typ
        BY <2>1, <3>1 DEF AppendAudit, TypeOK, TrailType
      <3> QED BY <3>2 DEF AuditHas
    <2> QED BY <2>1, <2>2 DEF EventsOf, Results
  <1>4. UNCHANGED trail \/ RecoverEvent \/ RecoverAudit
    BY AgentSteps
    DEF MintConfirmationToken, Crash, Recovery, Restart, RecoverList, RecoverTransition,
        RecoverError, trail, vars
  <1> QED BY <1>1, <1>2, <1>3, <1>4

--------------------------------------------------------------------------------
(* The derivation of a rollback.                                               *)

(* A set of naturals that is not empty has a least element.                    *)
LEMMA LeastElement ==
    ASSUME NEW S \in SUBSET Nat, S # {}
    PROVE  \E x \in S : \A y \in S : ~(y < x)
  <1> DEFINE R == OpToRel(<, Nat)
  <1>1. PICK x \in S : \A y \in S : ~(<<y, x>> \in R)
    <2>1. IsWellFoundedOn(R, Nat)
      BY NatLessThanWellFounded
    <2> HIDE DEF R
    <2> QED BY <2>1, WFMin
  <1>2. \A y \in S : y < x => <<y, x>> \in R
    BY DEF OpToRel
  <1> QED BY <1>1, <1>2

(* Of a finite set of positions there is one decreasing enumeration.           *)
LEMMA LastFirstIsUnique ==
    ASSUME NEW S \in SUBSET Nat, IsFiniteSet(S), NEW f \in LastFirst(S), NEW g \in LastFirst(S)
    PROVE  f = g
  <1> DEFINE n == Cardinality(S)
             D == {i \in 1..n : f[i] # g[i]}
  <1>1. n \in Nat /\ IsFiniteSet(1..n) /\ Cardinality(1..n) = n
    BY FS_CardinalityType, FS_Interval
  <1>2. /\ f \in [1..n -> S] /\ \A i, j \in 1..n : i < j => f[i] > f[j]
        /\ g \in [1..n -> S] /\ \A i, j \in 1..n : i < j => g[i] > g[j]
    BY DEF LastFirst
  <1>3. f \in Injection(1..n, S) /\ g \in Injection(1..n, S)
    <2>1. \A i, j \in 1..n : i # j => f[i] # f[j] /\ g[i] # g[j]
      <3>1. ASSUME NEW i \in 1..n, NEW j \in 1..n, i < j
            PROVE  f[i] # f[j] /\ g[i] # g[j]
        <4>1. f[i] \in Nat /\ f[j] \in Nat /\ g[i] \in Nat /\ g[j] \in Nat
          BY <1>2
        <4> QED BY <1>2, <3>1, <4>1
      <3> QED BY <1>1, <3>1
    <2> QED BY <1>2, <2>1 DEF Injection, IsInjective
  <1>4. f \in Surjection(1..n, S) /\ g \in Surjection(1..n, S)
    BY <1>1, <1>3, FS_Injection
  <1>5. ASSUME D # {} PROVE FALSE
    <2>1. PICK i \in D : \A j \in D : ~(j < i)
      <3>1. D \in SUBSET Nat
        BY <1>1
      <3> HIDE DEF D
      <3> QED BY <1>5, <3>1, LeastElement
    <2>2. i \in 1..n /\ f[i] # g[i] /\ \A j \in 1..n : j < i => f[j] = g[j]
      BY <1>1, <2>1
    <2>3. PICK j \in 1..n : g[j] = f[i]
      BY <1>2, <1>4, <2>2 DEF Surjection
    <2>4. PICK k \in 1..n : f[k] = g[i]
      BY <1>2, <1>4, <2>2 DEF Surjection
    <2>5. j > i
      <3>1. j # i /\ (j < i => f[j] = f[i])
        BY <2>2, <2>3
      <3>2. f[i] \in Nat /\ (j < i => f[j] > f[i])
        BY <1>2, <2>2, <2>3
      <3> QED BY <1>1, <2>2, <3>1, <3>2
    <2>6. k > i
      <3>1. k # i /\ (k < i => g[k] = g[i])
        BY <2>2, <2>4
      <3>2. g[i] \in Nat /\ (k < i => g[k] > g[i])
        BY <1>2, <2>2, <2>4
      <3> QED BY <1>1, <2>2, <3>1, <3>2
    <2>7. f[i] \in Nat /\ g[i] \in Nat
      BY <1>2, <2>2
    <2>8. g[i] > g[j] /\ f[i] > f[k]
      BY <1>2, <2>2, <2>5, <2>6
    <2> QED BY <2>3, <2>4, <2>7, <2>8
  <1>6. \A i \in 1..n : f[i] = g[i]
    BY <1>5
  <1>7. f = [i \in 1..n |-> f[i]] /\ g = [i \in 1..n |-> g[i]]
    BY <1>2
  <1>8. [i \in 1..n |-> f[i]] = [i \in 1..n |-> g[i]]
    BY <1>6
  <1> QED BY <1>7, <1>8, Zenon

(* DeriveRollback reads the parent's content and its step results only.        *)
LEMMA SameDerivation ==
    ASSUME NEW e \in Executions, runbook'[e] = runbook[e], UNCHANGED Results(e),
           \A k \in Results(e) : events'[e][k] = events[e][k]
    PROVE  /\ UNCHANGED <<Successful(e), Undoable(e)>>
           /\ \A f \in LastFirst(Undoable(e)) : UNCHANGED RollbackRunbook(e, f)
  <1>1. Successful(e) = {k \in Results(e) : /\ events[e][k].ok
                                            /\ events[e][k].index \in 1..Len(runbook[e].steps)}
    BY DEF Successful, Results, EventsOf
  <1>2. Successful(e)' = {k \in Results(e)' :
                             /\ events'[e][k].ok
                             /\ events'[e][k].index \in 1..Len(runbook'[e].steps)}
    BY DEF Successful, Results, EventsOf
  <1>3. Successful(e)' = Successful(e)
    BY <1>1, <1>2
  <1>4. Undoable(e)' = Undoable(e)
    BY <1>1, <1>3 DEF Undoable
  <1>5. ASSUME NEW f \in LastFirst(Undoable(e))
        PROVE  UNCHANGED RollbackRunbook(e, f)
    <2>1. \A j \in 1..Cardinality(Undoable(e)) : events'[e][f[j]] = events[e][f[j]]
      BY <1>1 DEF LastFirst, Undoable
    <2>2. invertSteps(e, f)' = invertSteps(e, f)
      BY <1>4, <2>1 DEF invertSteps
    <2> QED BY <1>3, <1>4, <2>2 DEF RollbackRunbook
  <1> QED BY <1>3, <1>4, <1>5

(* So a derivation stays what it is once its parent runs no more steps.        *)
LEMMA DerivedStays ==
    ASSUME NEW r \in Executions, NEW rb, Derived(r, rb), Parent(r) \in Executions,
           runbook'[Parent(r)] = runbook[Parent(r)], UNCHANGED Results(Parent(r)),
           \A k \in Results(Parent(r)) : events'[Parent(r)][k] = events[Parent(r)][k]
    PROVE  Derived(r, rb)'
  <1> DEFINE p == Parent(r)
  <1>1. p \in Executions /\ Parent(r)' = p
    BY DEF Parent
  <1>2. PICK f \in LastFirst(Undoable(p)) : rb = RollbackRunbook(p, f)
    BY DEF Derived
  <1>3. LastFirst(Undoable(p))' = LastFirst(Undoable(p)) /\ RollbackRunbook(p, f)' = rb
    BY <1>1, <1>2, SameDerivation DEF LastFirst
  <1> QED BY <1>1, <1>2, <1>3 DEF Derived

(* Deriving twice gives the same content.                                      *)
LEMMA DerivedIsUnique ==
    ASSUME TypeOK, NEW r \in Executions, Parent(r) \in Executions,
           NEW a, Derived(r, a), NEW b, Derived(r, b)
    PROVE  a = b
  <1> DEFINE p == Parent(r)
  <1>1. Len(events[p]) \in Nat
    BY DEF TypeOK, TrailType
  <1>2. Undoable(p) \in SUBSET Nat /\ IsFiniteSet(Undoable(p))
    <2>1. Undoable(p) \subseteq 1..Len(events[p])
      BY DEF Undoable, Successful
    <2>2. IsFiniteSet(1..Len(events[p]))
      BY <1>1, FS_Interval
    <2> QED BY <1>1, <2>1, <2>2, FS_Subset
  <1> QED BY <1>2, LastFirstIsUnique DEF Derived

--------------------------------------------------------------------------------
(* The content of rows and proposals.                                          *)

(* No goroutine adds a result to an execution that runs no more steps.         *)
LEMMA ParentStays ==
    ASSUME TypeOK, ExecuteInv, NEW w \in Workers, ByWorker(w), NEW e \in Executions,
           status[e] \in DerivableStatuses
    PROVE  /\ UNCHANGED Results(e)
           /\ \A k \in Results(e) : events'[e][k] = events[e][k]
  <1>1. ~(pc[w] = "eventStep" /\ call[w].ex = e)
    BY DEF ExecuteInv, WorkerInv, OwnsExecution, StepPcs, DerivableStatuses
  <1> QED BY <1>1, EventsGrow DEF Results, EventsOf

(* So no goroutine changes what a stored or proposed rollback derives from.    *)
LEMMA DerivedIsKept ==
    ASSUME TypeOK, ExecuteInv, NEW w \in Workers, ByWorker(w), NEW r \in Executions, NEW rb,
           Derived(r, rb), status[Parent(r)] \in DerivableStatuses
    PROVE  Derived(r, rb)'
  <1>1. Parent(r) \in Executions
    BY DEF Parent, Executions
  <1>2. runbook'[Parent(r)] = runbook[Parent(r)]
    BY <1>1, WriteOnce DEF Derived
  <1> QED BY <1>1, <1>2, ParentStays, DerivedStays

(* A call of another goroutine that has just begun does not name an execution  *)
(* no row has been created for.                                                *)
LEMMA NobodyElseEnters ==
    ASSUME TypeOK, ExecuteInv, NEW w \in Workers, ByWorker(w), NEW v \in Workers, v # w,
           NEW e \in Executions, e[2] = "execute", status[e] = "none",
           pc[v] # "idle", call[v].ex = e,
           pc[w] # "idle" => call[w].ex # e
    PROVE  pc'[w] # "idle" => call'[w].ex # e
  <1>1. CASE pc[w] \notin {"idle", "successfulSteps"}
    BY <1>1, Flow
  <1>2. CASE pc[w] = "successfulSteps"
    <2>1. CASE StoreError(w)
      BY <2>1, StoreErrorReturns
    <2>2. CASE DeriveFromEvents(w)
      BY <2>2, ReturnIsLocal
      DEF DeriveFromEvents, NewCall, RollbackExecutionID, TypeOK, WorkersType
    <2> QED BY <1>2, <2>1, <2>2, AtLabel
  <1>3. CASE pc[w] = "idle"
    <2>1. Request(w)
      BY <1>3, AtLabel DEF StoreError, NoStorePcs
    <2>2. ASSUME NEW p \in Primaries, NEW rb \in Runbooks, Propose(w, p, rb)
          PROVE  call'[w].ex # e
      BY <2>2, BeginIsLocal DEF Propose, NewCall
    <2>3. ASSUME NEW p \in Primaries, RequestRollback(w, p)
          PROVE  call'[w].ex # e
      BY <2>3, BeginIsLocal DEF RequestRollback, NewCall
    <2>4. ASSUME NEW d \in Executions, NEW x \in Executions, NEW t \in Tokens,
                 RequestExecute(w, d, x, t)
          PROVE  call'[w].ex # e
      BY <2>4, BeginIsLocal DEF RequestExecute, NewCall
    <2>5. ASSUME NEW d \in Executions, RequestDecline(w, d)
          PROVE  call'[w].ex # e
      BY <2>5, BeginIsLocal DEF RequestDecline, NewCall
    <2> QED BY <2>1, <2>2, <2>3, <2>4, <2>5 DEF Request
  <1> QED BY <1>1, <1>2, <1>3

(* A step of one goroutine keeps what the others propose.                      *)
LEMMA OthersKeepTheirProposal ==
    ASSUME TypeOK, ExecuteInv, ContentInv, NEW w \in Workers, ByWorker(w),
           NEW v \in Workers, v # w
    PROVE  ProposalMatchesContent(v)'
  <1> DEFINE e == call[v].ex
  <1>1. pc'[v] = pc[v] /\ call'[v] = call[v]
    BY ByWorkerIsLocal DEF OnlyWorker, TypeOK, WorkersType
  <1> SUFFICES ASSUME pc[v] \in ProposePcs
               PROVE  ProposalMatchesContent(v)'
    BY <1>1 DEF ProposalMatchesContent
  <1>2. ProposalMatchesContent(v) /\ e \in Executions /\ call[v].rb \in Contents /\ pc[v] # "idle"
    BY ActiveCall DEF ContentInv, TypeOK, WorkersType, ProposePcs
  <1>3. \A r \in Executions, rb \in Contents :
           r = e /\ rb = call[v].rb /\ r[2] = "rollback" => Derived(r, rb)'
    BY <1>2, DerivedIsKept DEF ProposalMatchesContent, ExecuteInv, WorkerInv, ParentIsDone
  <1>4. ASSUME e[2] = "execute", pc[v] \in {"getRunbook", "createRunbook", "createExecution"}
        PROVE  /\ status'[e] = "none"
               /\ \A u \in Workers : pc'[u] # "idle" /\ call'[u].ex = e => u = v
               /\ runbook'[e] = runbook[e]
    <2>1. status[e] = "none" /\ \A u \in Workers : pc[u] # "idle" /\ call[u].ex = e => u = v
      BY <1>2, <1>4 DEF ProposalMatchesContent
    <2>2. pc[w] # "idle" => call[w].ex # e
      BY <2>1
    <2>3. status'[e] = "none"
      BY <1>2, <2>1, <2>2, StatusMoves
    <2>4. runbook'[e] = runbook[e]
      BY <1>2, <2>2, WriteOnce
    <2>5. pc'[w] # "idle" => call'[w].ex # e
      BY <1>2, <1>4, <2>1, <2>2, NobodyElseEnters
    <2>6. \A u \in Workers \ {w} : pc'[u] = pc[u] /\ call'[u] = call[u]
      BY ByWorkerIsLocal DEF OnlyWorker, TypeOK, WorkersType
    <2> QED BY <2>1, <2>3, <2>4, <2>5, <2>6
  <1>5. pc[v] \notin {"getRunbook", "createRunbook"} => runbook'[e] = call[v].rb
    <2>1. None \notin Contents
      BY ConstantsAssumption
    <2> QED BY <1>2, <2>1, WriteOnce DEF ProposalMatchesContent
  <1> QED
    BY <1>1, <1>2, <1>3, <1>4, <1>5 DEF ProposalMatchesContent

(* A proposal begins for an execution nobody has heard of.                     *)
LEMMA ProposeBegins ==
    ASSUME TypeOK, ContentInv, NEW w \in Workers, NEW p \in Primaries, NEW rb \in Runbooks,
           Propose(w, p, rb)
    PROVE  ProposalMatchesContent(w)'
  <1> DEFINE e == <<p, "execute">>
  <1>1. /\ pc'[w] = "getRunbook" /\ call'[w] = NewCall(e, None, None, rb)
        /\ \A v \in Workers \ {w} : pc'[v] = pc[v] /\ call'[v] = call[v]
        /\ UNCHANGED <<status, runbook>>
    BY BeginIsLocal DEF Propose, OnlyWorker, TypeOK, WorkersType, rows
  <1>2. /\ e \in Executions /\ e[2] = "execute" /\ runbook[e] = None
        /\ \A v \in Workers : pc[v] # "idle" => call[v].ex # e
    BY DEF Propose, Executions
  <1>3. status[e] = "none"
    BY <1>2 DEF ContentInv, RowMatchesContent
  <1>4. call'[w].ex = e
    BY <1>1 DEF NewCall
  <1> HIDE DEF e
  <1> QED
    BY <1>1, <1>2, <1>3, <1>4 DEF ProposalMatchesContent

(* A rollback's proposal begins with what DeriveRollback has just built.       *)
LEMMA DerivationBegins ==
    ASSUME TypeOK, ExecuteInv, NEW w \in Workers, DeriveFromEvents(w), pc'[w] # "idle"
    PROVE  ProposalMatchesContent(w)'
  <1> DEFINE e == call[w].ex
  <1>1. /\ e \in Executions /\ runbook[e] # None /\ e[2] = "execute"
        /\ status[e] \in DerivableStatuses
    BY ActiveCall
    DEF DeriveFromEvents, TypeOK, ExecuteInv, WorkerInv, RunbookIsStored, ParentIsDone,
        DerivePcs
  <1>2. PICK f \in LastFirst(Undoable(e)) :
           call'[w] = NewCall(RollbackExecutionID(e), None, None, RollbackRunbook(e, f))
    BY ReturnIsLocal DEF DeriveFromEvents, TypeOK, WorkersType
  <1> DEFINE r == RollbackExecutionID(e)
             rb == RollbackRunbook(e, f)
  <1>3. /\ pc'[w] = "getRunbook" /\ UNCHANGED <<runbook, events>>
        /\ call'[w].ex = r /\ call'[w].rb = rb
    BY <1>2, ReturnIsLocal DEF DeriveFromEvents, TypeOK, WorkersType, rows, trail, NewCall
  <1>4. r \in Executions /\ r[2] = "rollback" /\ Parent(r) = e
    BY <1>1 DEF RollbackExecutionID, Executions, Parent
  <1>5. Derived(r, rb)
    BY <1>1, <1>4 DEF Derived
  <1>6. \A q \in Executions : \A b : q = r /\ b = rb => Derived(q, b)'
    BY <1>1, <1>3, <1>4, <1>5, DerivedStays DEF Results, EventsOf
  <1> QED
    BY <1>3, <1>4, <1>6 DEF ProposalMatchesContent

(* A step within a proposal keeps it, and the write-once row gets or has the   *)
(* proposed content.                                                           *)
LEMMA ProposalGoesOn ==
    ASSUME TypeOK, ExecuteInv, ContentInv, NEW w \in Workers, ByWorker(w),
           pc[w] \in ProposePcs, pc'[w] \in ProposePcs
    PROVE  ProposalMatchesContent(w)'
  <1> DEFINE e == call[w].ex
             rb == call[w].rb
             early == {"getRunbook", "createRunbook"}
  <1>1. /\ pc'[w] \in After(pc[w]) /\ call'[w] = call[w] /\ ~StoreError(w)
        /\ \A v \in Workers \ {w} : pc'[v] = pc[v] /\ call'[v] = call[v]
        /\ e \in Executions /\ rb \in Contents /\ pc[w] # "idle" /\ ProposalMatchesContent(w)
    BY Flow, ByWorkerIsLocal, ActiveCall, StoreErrorReturns
    DEF OnlyWorker, TypeOK, WorkersType, ProposePcs, ContentInv
  <1>2. \A r \in Executions, b \in Contents :
           r = e /\ b = rb /\ r[2] = "rollback" => Derived(r, b) /\ Derived(r, b)'
    BY <1>1, DerivedIsKept DEF ProposalMatchesContent, ExecuteInv, WorkerInv, ParentIsDone
  <1>3. pc'[w] \in early => pc[w] = "getRunbook" /\ pc'[w] = "createRunbook"
    BY <1>1 DEF After, ProposePcs
  <1>4. pc'[w] = "createExecution" => pc[w] \in early
    BY <1>1 DEF After, ProposePcs
  <1>5. pc[w] \in early => UNCHANGED status
    BY Writers
  <1>6. pc'[w] \in early => runbook'[e] = runbook[e]
    BY <1>1, <1>3, WriteOnce
  <1>7. ASSUME pc'[w] \notin early
        PROVE  runbook'[e] = rb
    <2>1. CASE pc[w] = "getRunbook"
      <3>1. UNCHANGED runbook /\ runbook[e] # None
        BY <1>1, <1>7, <2>1, AtLabel, GotoIsLocal DEF GetRunbook, rows
      <3>2. e[2] = "rollback"
        BY <1>1, <2>1, <3>1 DEF ProposalMatchesContent, Executions
      <3>3. Derived(e, runbook[e]) /\ Derived(e, rb)
        BY <1>1, <1>2, <3>1, <3>2 DEF ContentInv, RollbackIsDerived
      <3>4. Parent(e) \in Executions
        BY <1>1 DEF Parent, Executions
      <3> QED BY <1>1, <3>1, <3>3, <3>4, DerivedIsUnique
    <2>2. CASE pc[w] = "createRunbook"
      BY <1>1, <2>2, AtLabel, ReturnIsLocal DEF CreateRunbook, TypeOK, RowsType, ProposePcs
    <2>3. CASE pc[w] \notin early
      <3>1. runbook[e] = rb /\ rb # None
        BY <1>1, <2>3, ConstantsAssumption DEF ProposalMatchesContent
      <3> QED BY <1>1, <3>1, WriteOnce
    <2> QED BY <2>1, <2>2, <2>3
  <1>8. pc'[w] \in early \cup {"createExecution"} => pc[w] \in early
    BY <1>3, <1>4
  <1> QED
    BY <1>1, <1>2, <1>3, <1>5, <1>6, <1>7, <1>8 DEF ProposalMatchesContent

(* Every step of a goroutine keeps its own proposal.                           *)
LEMMA OwnProposal ==
    ASSUME TypeOK, ExecuteInv, ContentInv, NEW w \in Workers, ByWorker(w)
    PROVE  ProposalMatchesContent(w)'
  <1> SUFFICES ASSUME pc'[w] \in ProposePcs
               PROVE  ProposalMatchesContent(w)'
    BY DEF ProposalMatchesContent
  <1>1. pc'[w] \in After(pc[w]) /\ ~StoreError(w)
    BY Flow, StoreErrorReturns DEF ProposePcs
  <1>2. pc[w] \in ProposePcs \cup {"idle", "successfulSteps"}
    BY <1>1 DEF After, ProposePcs
  <1>3. CASE pc[w] = "idle"
    <2>1. Request(w)
      BY <1>1, <1>3, AtLabel
    <2>2. \E p \in Primaries, rb \in Runbooks : Propose(w, p, rb)
      BY <2>1
      DEF Request, RequestRollback, RequestExecute, RequestDecline, Begin, TypeOK, WorkersType,
          ProposePcs
    <2> QED BY <2>2, ProposeBegins
  <1>4. CASE pc[w] = "successfulSteps"
    BY <1>1, <1>4, AtLabel, DerivationBegins DEF ProposePcs
  <1> QED BY <1>2, <1>3, <1>4, ProposalGoesOn

(* A step of a goroutine keeps rows and content in agreement.                  *)
LEMMA RowsByWorker ==
    ASSUME TypeOK, ExecuteInv, ContentInv, NEW w \in Workers, ByWorker(w), NEW e \in Executions
    PROVE  (RowMatchesContent(e) /\ RollbackIsDerived(e) /\ status[e] # "resolved")'
  <1>1. /\ RowMatchesContent(e) /\ RollbackIsDerived(e) /\ status[e] # "resolved"
        /\ None \notin Contents
    BY ConstantsAssumption DEF ContentInv, NeverResolved
  <1>2. CASE runbookHash'[e] # runbookHash[e] \/ (status[e] = "none" /\ status'[e] # "none")
    <2>1. /\ pc[w] = "createExecution" /\ e = call[w].ex /\ status[e] = "none"
          /\ status'[e] = IF call[w].rb.blocked THEN "blocked_l3" ELSE "proposed"
          /\ runbookHash'[e] = ContentHash(call[w].rb)
          /\ call[w].rb \in Contents
      BY <1>2, HashMoves
    <2>2. runbook[e] = call[w].rb /\ runbook'[e] = runbook[e]
      BY <2>1, Writers DEF ContentInv, ProposalMatchesContent, ProposePcs
    <2>3. (RowMatchesContent(e) /\ status[e] # "resolved")'
      BY <1>1, <2>1, <2>2 DEF RowMatchesContent, ContentHash, Contents
    <2>4. \A r \in Executions, b \in Contents :
             r = e /\ b = runbook[e] /\ r[2] = "rollback" => Derived(r, b)'
      BY <1>1, <2>1, <2>2, DerivedIsKept DEF RollbackIsDerived, ExecuteInv, RollbackFollowsParent
    <2> QED BY <1>1, <2>1, <2>2, <2>3, <2>4 DEF RollbackIsDerived
  <1>3. CASE runbookHash'[e] = runbookHash[e] /\ ~(status[e] = "none" /\ status'[e] # "none")
    <2>1. \/ status'[e] = status[e]
          \/ /\ status[e] \in {"proposed", "approved", "executing"}
             /\ status'[e] \in {"approved", "declined", "executing", "remediation_failed",
                                "verifying"}
      BY <1>3, StatusMoves
    <2>2. CASE runbook'[e] = runbook[e]
      <3>1. (RowMatchesContent(e) /\ status[e] # "resolved")'
        BY <1>1, <1>3, <2>1, <2>2 DEF RowMatchesContent, ContentHash
      <3>2. \A r \in Executions, b \in Contents :
               r = e /\ b = runbook[e] /\ r[2] = "rollback" => Derived(r, b)'
        BY <1>1, DerivedIsKept DEF RollbackIsDerived, ExecuteInv, RollbackFollowsParent
      <3>3. runbook[e] \in Contents \cup {None}
        BY DEF TypeOK, RowsType
      <3> QED BY <2>2, <3>1, <3>2, <3>3 DEF RollbackIsDerived
    <2>3. CASE runbook'[e] # runbook[e]
      <3>1. /\ pc[w] = "createRunbook" /\ e = call[w].ex /\ runbook[e] = None
            /\ runbook'[e] = call[w].rb /\ call[w].rb \in Contents
        BY <2>3, WriteOnce
      <3>2. status[e] = "none" /\ status'[e] = "none"
        BY <1>1, <3>1, Writers DEF RowMatchesContent
      <3>3. \A r \in Executions, b \in Contents :
               r = e /\ b = call[w].rb /\ r[2] = "rollback" => Derived(r, b)'
        BY <3>1, DerivedIsKept
        DEF ContentInv, ProposalMatchesContent, ExecuteInv, WorkerInv, ParentIsDone, ProposePcs
      <3> QED BY <1>1, <1>3, <3>1, <3>2, <3>3 DEF RowMatchesContent, RollbackIsDerived
    <2> QED BY <2>2, <2>3
  <1> QED BY <1>2, <1>3

(* The agent's own steps leave the content of rows alone.                      *)
LEMMA ContentByAgent ==
    ASSUME TypeOK, ExecuteInv, ContentInv, ByAgent
    PROVE  ContentInv'
  <1>1. ASSUME NEW r \in Executions, NEW rb, Derived(r, rb)
        PROVE  Derived(r, rb)'
    <2>1. Parent(r) \in Executions
      BY DEF Parent, Executions
    <2> QED BY <1>1, <2>1, AgentWrites, AgentTrail, DerivedStays DEF Results, EventsOf
  <1>2. ASSUME NEW e \in Executions
        PROVE  (RowMatchesContent(e) /\ RollbackIsDerived(e) /\ status[e] # "resolved")'
    <2>1. (RowMatchesContent(e) /\ status[e] # "resolved")'
      BY AgentWrites DEF ContentInv, RowMatchesContent, NeverResolved, ContentHash
    <2>2. RollbackIsDerived(e)'
      BY <1>1, AgentWrites DEF ContentInv, RollbackIsDerived
    <2> QED BY <2>1, <2>2
  <1>3. ASSUME NEW w \in Workers
        PROVE  ProposalMatchesContent(w)'
    <2>1. CASE pc'[w] \notin ProposePcs
      BY <2>1 DEF ProposalMatchesContent
    <2>2. CASE pc'[w] \in ProposePcs
      <3>1. UNCHANGED <<pc, call, runbook>> /\ call[w].ex \in Executions /\ call[w].rb \in Contents
        BY <2>2, AgentWrites, ActiveCall DEF ProposePcs, loop, TypeOK, WorkersType
      <3>2. status[call[w].ex] = "none" => status'[call[w].ex] = "none"
        BY <3>1, AgentWrites
      <3>3. \A r \in Executions, rb \in Contents :
               r = call[w].ex /\ rb = call[w].rb /\ r[2] = "rollback" => Derived(r, rb)'
        BY <1>1, <2>2, <3>1 DEF ContentInv, ProposalMatchesContent
      <3> QED
        BY <2>2, <3>1, <3>2, <3>3 DEF ContentInv, ProposalMatchesContent
    <2> QED BY <2>1, <2>2
  <1> QED BY <1>2, <1>3 DEF ContentInv, NeverResolved

(* Every step keeps ContentInv.                                                *)
LEMMA ContentNext ==
    ASSUME TypeOK, ExecuteInv, ContentInv, [Next]_vars
    PROVE  ContentInv'
  <1>1. ASSUME NEW w \in Workers, ByWorker(w)
        PROVE  ContentInv'
    <2>1. \A v \in Workers : ProposalMatchesContent(v)'
      BY <1>1, OwnProposal, OthersKeepTheirProposal
    <2> QED BY <1>1, <2>1, RowsByWorker DEF ContentInv, NeverResolved
  <1> QED BY <1>1, ContentByAgent DEF ByAgent

--------------------------------------------------------------------------------
(* The record of the host's runs.                                              *)

(* There are finitely many results.                                            *)
LEMMA ResultsFinite ==
    ASSUME TypeOK, NEW e \in Executions
    PROVE  /\ IsFiniteSet(Results(e)) /\ Cardinality(Results(e)) \in Nat
           /\ Results(e) \subseteq 1..Len(events[e])
           /\ Len(events[e]) \in Nat /\ Len(host[e]) \in Nat
  <1>1. Results(e) \subseteq 1..Len(events[e]) /\ Len(events[e]) \in Nat /\ Len(host[e]) \in Nat
    BY DEF Results, EventsOf, TypeOK, TrailType, HistoryType
  <1>2. IsFiniteSet(1..Len(events[e]))
    BY <1>1, FS_Interval
  <1>3. IsFiniteSet(Results(e))
    BY <1>1, <1>2, FS_Subset
  <1> QED BY <1>1, <1>3, FS_CardinalityType

(* The host sees a run only in the step loop, and only of that execution.      *)
LEMMA HostRuns ==
    ASSUME TypeOK, NEW w \in Workers, ByWorker(w), NEW e \in Executions
    PROVE  \/ host'[e] = host[e]
           \/ /\ pc[w] = "step" /\ pc'[w] = "eventStep" /\ e = call[w].ex
              /\ \E ok \in BOOLEAN : host'[e] = Append(host[e], [index |-> idx[w], ok |-> ok])
  <1>1. CASE pc[w] # "step"
    BY <1>1, Writers
  <1>2. CASE StoreError(w)
    BY <1>2, StoreErrorReturns DEF history
  <1>3. CASE \E ok \in BOOLEAN : ExecuteStep(w, ok)
    BY <1>3 DEF ExecuteStep, TypeOK, HistoryType, WorkersType
  <1> QED BY <1>1, <1>2, <1>3, AtLabel

(* The result of a run is written by the goroutine that did the run.           *)
LEMMA ResultIsWritten ==
    ASSUME TypeOK, NEW w \in Workers, ByWorker(w), NEW e \in Executions
    PROVE  \/ UNCHANGED Results(e)
           \/ /\ pc[w] = "eventStep" /\ pc'[w] = "auditStep" /\ e = call[w].ex
              /\ Results(e)' = Results(e) \cup {Len(events[e]) + 1}
              /\ Len(events[e]) + 1 \notin Results(e)
              /\ events'[e][Len(events[e]) + 1] = StepResult(idx[w], stepOk[w])
              /\ Cardinality(Results(e))' = Cardinality(Results(e)) + 1
  <1>1. CASE ~(pc[w] = "eventStep" /\ call[w].ex = e)
    BY <1>1, EventsGrow
  <1>2. CASE StoreError(w)
    BY <1>2, StoreErrorReturns DEF trail, Results, EventsOf
  <1>3. CASE EventStep(w) /\ call[w].ex = e
    <2>1. /\ AppendRemediationEvent(e, StepResult(idx[w], stepOk[w]))
          /\ pc[w] = "eventStep" /\ pc'[w] = "auditStep"
      BY <1>3, GotoIsLocal DEF EventStep
    <2>2. /\ Results(e)' = Results(e) \cup {Len(events[e]) + 1}
          /\ events'[e][Len(events[e]) + 1] = StepResult(idx[w], stepOk[w])
      BY <2>1, Appended, EventsOfAfter DEF TypeOK, Results, StepResult
    <2>3. Len(events[e]) + 1 \notin Results(e)
      BY ResultsFinite
    <2>4. Cardinality(Results(e) \cup {Len(events[e]) + 1}) = Cardinality(Results(e)) + 1
      BY <2>3, ResultsFinite, FS_AddElement
    <2> QED BY <1>3, <2>1, <2>2, <2>3, <2>4
  <1> QED BY <1>1, <1>2, <1>3, AtLabel

(* A step of a goroutine keeps the results in agreement with the runs.         *)
LEMMA ResultsByWorker ==
    ASSUME TypeOK, ExecuteInv, ContentInv, RecordInv, NEW w \in Workers, ByWorker(w),
           NEW e \in Executions
    PROVE  ResultsMatchRuns(e)'
  <1>1. /\ ResultsMatchRuns(e) /\ LoopMatchesRecord(w) /\ LoopMatchesHost(w) /\ OwnsExecution(w)
        /\ IsFiniteSet(Results(e)) /\ Cardinality(Results(e)) \in Nat
        /\ Results(e) \subseteq 1..Len(events[e])
        /\ Len(events[e]) \in Nat /\ Len(host[e]) \in Nat
        /\ \A k \in 1..Len(events[e]) : events'[e][k] = events[e][k] /\ events[e][k].index \in Nat
    <2>1. \A k \in 1..Len(events[e]) : events[e][k] \in Events
      BY DEF TypeOK, TrailType
    <2> QED
      BY <2>1, ResultsFinite, EventsGrow DEF RecordInv, ExecuteInv, WorkerInv, Events
  <1>2. CASE host'[e] # host[e]
    <2>1. PICK ok \in BOOLEAN : /\ pc[w] = "step" /\ e = call[w].ex
                                /\ host'[e] = Append(host[e], [index |-> idx[w], ok |-> ok])
      BY <1>2, HostRuns
    <2>2. /\ Len(host'[e]) = Len(host[e]) + 1
          /\ \A k \in 1..Len(host[e]) : host'[e][k] = host[e][k]
      BY <2>1 DEF TypeOK, HistoryType
    <2>3. UNCHANGED Results(e) /\ status[e] = "executing" /\ status'[e] = "executing"
      BY <1>1, <2>1, EventsGrow, Writers DEF OwnsExecution, StepPcs
    <2>4. Cardinality(Results(e)) = Len(host[e])
      BY <1>1, <2>1 DEF LoopMatchesRecord, StepPcs
    <2>5. \A k \in Results(e)' : /\ events'[e][k].index \in 1..Len(host'[e])
                                 /\ host'[e][events'[e][k].index].ok = events'[e][k].ok
      <3> SUFFICES ASSUME NEW k \in Results(e)
                   PROVE  /\ events'[e][k].index \in 1..Len(host'[e])
                          /\ host'[e][events'[e][k].index].ok = events'[e][k].ok
        BY <2>3
      <3>1. events'[e][k] = events[e][k] /\ events[e][k].index \in 1..Len(host[e])
        BY <1>1 DEF ResultsMatchRuns
      <3>2. host[e][events[e][k].index].ok = events[e][k].ok
        BY <1>1 DEF ResultsMatchRuns
      <3> QED BY <1>1, <2>2, <3>1, <3>2
    <2>6. \A j, k \in Results(e)' : j < k => events'[e][j].index < events'[e][k].index
      BY <1>1, <2>3 DEF ResultsMatchRuns
    <2>7. Cardinality(Results(e))' = Len(host'[e]) - 1
      BY <1>1, <2>2, <2>3, <2>4
    <2> QED BY <2>3, <2>5, <2>6, <2>7 DEF ResultsMatchRuns
  <1>3. CASE host'[e] = host[e] /\ Results(e)' # Results(e)
    <2> DEFINE n == Len(events[e]) + 1
    <2>1. /\ pc[w] = "eventStep" /\ e = call[w].ex
          /\ Results(e)' = Results(e) \cup {n}
          /\ events'[e][n] = StepResult(idx[w], stepOk[w])
          /\ Cardinality(Results(e))' = Cardinality(Results(e)) + 1
      BY <1>3, ResultIsWritten
    <2>2. /\ Len(host[e]) = idx[w] /\ stepOk[w] = host[e][idx[w]].ok
          /\ Cardinality(Results(e)) = Len(host[e]) - 1
          /\ \A k \in Results(e) : events[e][k].index < Len(host[e])
      BY <1>1, <2>1 DEF LoopMatchesHost, LoopMatchesRecord
    <2>3. events'[e][n].index = Len(host[e]) /\ events'[e][n].ok = host[e][Len(host[e])].ok
      BY <2>1, <2>2 DEF StepResult
    <2>4. Len(host[e]) \in 1..Len(host[e])
      BY <1>1, <2>2
    <2>5. \A k \in Results(e) : k < n /\ n \notin Results(e)
      BY <1>1
    <2>6. status[e] = "executing" /\ status'[e] = "executing"
      BY <1>1, <2>1, Writers DEF OwnsExecution, StepPcs
    <2>7. \A k \in Results(e)' : /\ events'[e][k].index \in 1..Len(host'[e])
                                 /\ host'[e][events'[e][k].index].ok = events'[e][k].ok
      <3>1. ASSUME NEW k \in Results(e)
            PROVE  /\ events'[e][k].index \in 1..Len(host[e])
                   /\ host[e][events'[e][k].index].ok = events'[e][k].ok
        BY <1>1 DEF ResultsMatchRuns
      <3> QED BY <1>3, <2>1, <2>3, <2>4, <3>1, ZenonT(30)
    <2>8. \A j, k \in Results(e)' : j < k => events'[e][j].index < events'[e][k].index
      <3> SUFFICES ASSUME NEW j \in Results(e) \cup {n}, NEW k \in Results(e) \cup {n}, j < k
                   PROVE  events'[e][j].index < events'[e][k].index
        BY <2>1
      <3>1. j \in Results(e)
        BY <1>1, <2>5
      <3>2. CASE k = n
        BY <1>1, <2>2, <2>3, <3>1, <3>2
      <3>3. CASE k \in Results(e)
        BY <1>1, <3>1, <3>3 DEF ResultsMatchRuns
      <3> QED BY <3>2, <3>3
    <2>9. Cardinality(Results(e))' = Len(host'[e])
      BY <1>1, <1>3, <2>1, <2>2, SMTT(30)
    <2> QED BY <2>6, <2>7, <2>8, <2>9 DEF ResultsMatchRuns
  <1>4. CASE host'[e] = host[e] /\ Results(e)' = Results(e)
    <2>1. status'[e] = "verifying" =>
             /\ Cardinality(Results(e)) = Len(host[e])
             /\ Len(host[e]) = Len(runbook'[e].steps)
      <3> SUFFICES ASSUME status'[e] = "verifying"
                   PROVE  /\ Cardinality(Results(e)) = Len(host[e])
                          /\ Len(host[e]) = Len(runbook'[e].steps)
        OBVIOUS
      <3>1. CASE status[e] = "verifying"
        <4>1. runbook'[e] = runbook[e]
          BY <3>1, WriteOnce DEF ContentInv, RowMatchesContent
        <4> QED BY <1>1, <3>1, <4>1 DEF ResultsMatchRuns
      <3>2. CASE status[e] # "verifying"
        <4>1. pc[w] = "toVerifying" /\ e = call[w].ex
          BY <3>2, StatusMoves
        <4>2. UNCHANGED runbook
          BY <4>1, Writers
        <4> QED BY <1>1, <4>1, <4>2 DEF LoopMatchesRecord, StepPcs
      <3> QED BY <3>1, <3>2
    <2> QED BY <1>1, <1>4, <2>1 DEF ResultsMatchRuns
  <1> QED BY <1>2, <1>3, <1>4

(* The loop of one goroutine is no business of the others.                     *)
LEMMA OthersKeepTheirRecord ==
    ASSUME TypeOK, ExecuteInv, RecordInv, NEW w \in Workers, ByWorker(w),
           NEW v \in Workers, v # w
    PROVE  LoopMatchesRecord(v)'
  <1> DEFINE e == call[v].ex
  <1>1. pc'[v] = pc[v] /\ call'[v] = call[v]
    BY ByWorkerIsLocal DEF OnlyWorker, TypeOK, WorkersType
  <1> SUFFICES ASSUME pc[v] \in StepPcs
               PROVE  LoopMatchesRecord(v)'
    BY <1>1 DEF LoopMatchesRecord, StepPcs
  <1>2. e \in Executions /\ runbook[e] # None /\ LoopMatchesRecord(v)
    BY ActiveCall DEF TypeOK, ExecuteInv, WorkerInv, RunbookIsStored, RecordInv, StepPcs
  <1>3. ~(pc[w] \in StepPcs /\ call[w].ex = e)
    BY DEF ExecuteInv, OwnerIsAlone
  <1>4. host'[e] = host[e] /\ UNCHANGED Results(e) /\ runbook'[e] = runbook[e]
    BY <1>1, <1>2, <1>3, HostRuns, ResultIsWritten, WriteOnce DEF StepPcs
  <1>5. \A k \in Results(e) : events'[e][k] = events[e][k]
    BY <1>2, EventsGrow DEF Results, EventsOf
  <1>6. Results(call[v].ex)' = Results(e)
    BY <1>4
  <1> QED
    BY <1>1, <1>2, <1>4, <1>5 DEF LoopMatchesRecord, AllRunsOk

(* Every step of the loop leaves its own record as its next label expects it.  *)
LEMMA OwnRecord ==
    ASSUME TypeOK, ExecuteInv, RecordInv, NEW w \in Workers, ByWorker(w)
    PROVE  LoopMatchesRecord(w)'
  <1> DEFINE e == call[w].ex
  <1> SUFFICES ASSUME pc'[w] \in StepPcs
               PROVE  LoopMatchesRecord(w)'
    BY DEF LoopMatchesRecord, StepPcs
  <1>1. pc'[w] \in After(pc[w]) /\ ~StoreError(w) /\ pc[w] \in StepPcs \cup {"toExecuting"}
    BY Flow, StoreErrorReturns DEF StepPcs, After
  <1>2. call'[w] = call[w] /\ e \in Executions /\ pc[w] # "idle"
    BY <1>1, Flow, ActiveCall DEF StepPcs, TypeOK
  <1>3. /\ LoopMatchesRecord(w) /\ LoopMatchesHost(w)
        /\ Cardinality(Results(e)) \in Nat /\ Len(host[e]) \in Nat
        /\ Results(e) \subseteq 1..Len(events[e])
    BY <1>2, ResultsFinite DEF RecordInv, ExecuteInv, WorkerInv
  <1>4. runbook'[e] = runbook[e]
    BY <1>1, <1>2, Writers DEF StepPcs
  <1>5. CASE pc[w] \in {"toExecuting", "auditStarted"}
    <2>1. pc'[w] \in {"auditStarted", "eventStarted"}
      BY <1>1, <1>5 DEF After
    <2>2. host[e] = <<>> /\ UNCHANGED host /\ UNCHANGED Results(e)
      <3>1. CASE pc[w] = "auditStarted"
        BY <1>2, <1>3, <3>1, Writers, ResultIsWritten DEF LoopMatchesHost
      <3>2. CASE pc[w] = "toExecuting"
        BY <1>1, <1>2, <2>1, <3>2, AtLabel, ReturnIsLocal, Writers, ResultIsWritten
        DEF ToExecuting, TransitionExecution, ExecuteInv, NothingRanEarly, NotStarted
      <3> QED BY <1>5, <3>1, <3>2
    <2>3. Cardinality(Results(e)) = 0 /\ Len(host[e]) = 0
      BY <1>2, <1>3, <2>2 DEF RecordInv, ResultsMatchRuns
    <2> QED BY <1>2, <2>1, <2>2, <2>3 DEF LoopMatchesRecord
  <1>6. CASE pc[w] = "eventStarted"
    <2>1. /\ host[e] = <<>> /\ UNCHANGED host /\ UNCHANGED Results(e)
          /\ Cardinality(Results(e)) = Len(host[e])
      BY <1>2, <1>3, <1>6, Writers, ResultIsWritten
      DEF LoopMatchesHost, LoopMatchesRecord, StepPcs
    <2>2. pc'[w] = IF 1 <= Len(runbook[e].steps) THEN "step" ELSE "toVerifying"
      BY <1>1, <1>6, AtLabel, NextStepIsLocal DEF EventStarted
    <2>3. runbook[e] # None /\ runbook[e] \in Contents
      BY <1>2, <1>6
      DEF ExecuteInv, WorkerInv, RunbookIsStored, StepPcs, TypeOK, RowsType
    <2>4. Len(runbook[e].steps) \in Nat
      BY <2>3 DEF Contents
    <2>5. pc'[w] = "toVerifying" => Len(host[e]) = Len(runbook[e].steps)
      BY <2>1, <2>2, <2>4
    <2> QED BY <1>2, <1>4, <2>1, <2>2, <2>5 DEF LoopMatchesRecord, AllRunsOk
  <1>7. CASE pc[w] = "step"
    <2>1. PICK ok \in BOOLEAN : host'[e] = Append(host[e], [index |-> idx[w], ok |-> ok])
      BY <1>1, <1>2, <1>7, AtLabel DEF ExecuteStep, TypeOK, HistoryType
    <2>2. pc'[w] = "eventStep" /\ UNCHANGED events /\ UNCHANGED Results(e)
      BY <1>1, <1>2, <1>7, AtLabel, ResultIsWritten, ZenonT(30) DEF After, ExecuteStep, trail
    <2>3. Len(host'[e]) = Len(host[e]) + 1
      BY <1>2, <2>1 DEF TypeOK, HistoryType
    <2>4. Cardinality(Results(e)) = Len(host[e])
      BY <1>3, <1>7 DEF LoopMatchesRecord, StepPcs
    <2>5. \A k \in Results(e) : events[e][k].index < Len(host'[e])
      BY <1>2, <1>3, <2>3 DEF RecordInv, ResultsMatchRuns
    <2> QED BY <1>2, <1>3, <2>2, <2>3, <2>4, <2>5 DEF LoopMatchesRecord
  <1>8. CASE pc[w] = "eventStep"
    <2>1. EventStep(w)
      BY <1>1, <1>8, AtLabel
    <2>2. AppendRemediationEvent(e, StepResult(idx[w], stepOk[w])) /\ pc'[w] = "auditStep"
      BY <2>1, GotoIsLocal DEF EventStep
    <2>3. Results(e)' = Results(e) \cup {Len(events[e]) + 1}
      BY <1>2, <2>2, EventsOfAfter DEF TypeOK, Results, StepResult
    <2>4. Len(events[e]) + 1 \in Results(e)' /\ Len(events[e]) + 1 \notin Results(e)
      BY <1>2, <1>3, <2>3, ResultsFinite
    <2>5. Cardinality(Results(e))' = Cardinality(Results(e)) + 1
      BY <1>2, <2>4, ResultIsWritten
    <2>6. UNCHANGED host /\ Cardinality(Results(e)) = Len(host[e]) - 1
      BY <1>3, <1>8, Writers DEF LoopMatchesRecord
    <2> QED BY <1>2, <1>3, <2>2, <2>5, <2>6 DEF LoopMatchesRecord
  <1>9. CASE pc[w] = "auditStep"
    <2>1. /\ UNCHANGED host /\ UNCHANGED Results(e)
          /\ Cardinality(Results(e)) = Len(host[e]) /\ host[e] # <<>>
      BY <1>2, <1>3, <1>9, Writers, ResultIsWritten DEF LoopMatchesRecord, StepPcs
    <2>2. /\ Len(host[e]) = idx[w] /\ stepOk[w] = host[e][idx[w]].ok
          /\ \A k \in 1..(idx[w] - 1) : host[e][k].ok
      BY <1>3, <1>9 DEF LoopMatchesHost
    <2>3. idx[w] \in 1..Len(host[e])
      BY <1>2, <2>1, <2>2 DEF TypeOK, HistoryType
    <2>4. Len(host[e]) <= Len(runbook[e].steps) /\ runbook[e] # None
      BY <1>2, <2>1 DEF ExecuteInv, RunsInOrderOnce
    <2>5. Len(runbook[e].steps) \in Nat
      BY <1>2, <2>4 DEF TypeOK, RowsType, Contents
    <2>6. CASE stepOk[w]
      <3>1. pc'[w] = IF idx[w] + 1 <= Len(runbook[e].steps) THEN "step" ELSE "toVerifying"
        BY <1>1, <1>9, <2>3, <2>6, AtLabel, NextStepIsLocal DEF AuditStep
      <3>2. AllRunsOk(e)
        <4>1. \A k \in 1..Len(host[e]) : k = idx[w] \/ k \in 1..(idx[w] - 1)
          BY <2>2, <2>3
        <4> QED BY <2>2, <2>6, <4>1 DEF AllRunsOk
      <3>3. pc'[w] = "toVerifying" => Len(host[e]) = Len(runbook[e].steps)
        BY <1>3, <2>2, <2>3, <2>4, <2>5, <3>1
      <3> QED BY <1>2, <1>4, <2>1, <3>1, <3>2, <3>3 DEF LoopMatchesRecord, AllRunsOk
    <2>7. CASE ~stepOk[w]
      <3>1. pc'[w] = "toFailed"
        BY <1>1, <1>9, <2>7, AtLabel, GotoIsLocal DEF AuditStep
      <3> QED BY <1>2, <2>1, <2>2, <2>3, <2>7, <3>1 DEF LoopMatchesRecord, AllRunsOk
    <2> QED BY <2>6, <2>7
  <1>10. pc[w] \notin {"toFailed", "toVerifying"}
    BY <1>1 DEF After, StepPcs
  <1> QED BY <1>1, <1>5, <1>6, <1>7, <1>8, <1>9, <1>10 DEF StepPcs

(* Every step keeps RecordInv.                                                 *)
LEMMA RecordNext ==
    ASSUME TypeOK, ExecuteInv, ContentInv, RecordInv, [Next]_vars
    PROVE  RecordInv'
  <1>1. ASSUME NEW w \in Workers, ByWorker(w)
        PROVE  RecordInv'
    <2>1. \A v \in Workers : LoopMatchesRecord(v)'
      BY <1>1, OwnRecord, OthersKeepTheirRecord
    <2> QED BY <1>1, <2>1, ResultsByWorker DEF RecordInv
  <1>2. CASE ByAgent
    <2>1. ASSUME NEW e \in Executions
          PROVE  /\ UNCHANGED Results(e) /\ host' = host /\ runbook' = runbook
                 /\ \A k \in Results(e) : events'[e][k] = events[e][k]
                 /\ status'[e] = "verifying" => status[e] = "verifying"
      BY <1>2, AgentTrail, AgentWrites DEF Results, EventsOf
    <2>2. ASSUME NEW e \in Executions
          PROVE  ResultsMatchRuns(e)'
      BY <2>1 DEF RecordInv, ResultsMatchRuns
    <2>3. ASSUME NEW w \in Workers
          PROVE  LoopMatchesRecord(w)'
      <3>1. CASE pc'[w] \notin StepPcs
        BY <3>1 DEF LoopMatchesRecord, StepPcs
      <3>2. CASE pc'[w] \in StepPcs
        <4>1. UNCHANGED <<pc, call>> /\ call[w].ex \in Executions
          BY <1>2, <3>2, AgentWrites, ActiveCall DEF StepPcs, loop, TypeOK
        <4> DEFINE e == call[w].ex
        <4>2. /\ host' = host /\ runbook' = runbook /\ UNCHANGED Results(e)
              /\ \A k \in Results(e) : events'[e][k] = events[e][k]
          BY <2>1, <4>1
        <4> QED BY <4>1, <4>2 DEF RecordInv, LoopMatchesRecord, AllRunsOk
      <3> QED BY <3>1, <3>2
    <2> QED BY <2>2, <2>3 DEF RecordInv
  <1> QED BY <1>1, <1>2 DEF ByAgent

--------------------------------------------------------------------------------
(* The authority of a run.                                                     *)

(* What a token stands for is never the empty binding.                         *)
LEMMA BindingIsSet ==
    ASSUME NEW e \in Executions, NEW rb \in Contents
    PROVE  remediationTokenBinding(e, ContentHash(rb)) # None
  <1>1. ContentHash(rb) \in Hashes
    BY HashType
  <1>2. e[2] \in {"execute", "rollback"} /\ Incident(e) \in Incidents
    BY ConstantsAssumption DEF Executions, Incident
  <1>3. remediationTokenBinding(e, ContentHash(rb)) \in Bindings
    BY <1>1, <1>2 DEF remediationTokenBinding, Bindings
  <1> QED BY <1>3, NoneIsNoBinding

(* ConsumeToken's update is conditional, so a used token stays used.           *)
LEMMA UsedGrows ==
    ASSUME TypeOK, NEW w \in Workers, ByWorker(w)
    PROVE  /\ used \subseteq used'
           /\ pc'[w] = "toApproved" => /\ pc[w] = "markTokenUsed" /\ call[w].tk \notin used
                                       /\ call[w].tk \in used' /\ call'[w] = call[w]
  <1>1. pc'[w] = "toApproved" => /\ pc[w] = "markTokenUsed" /\ ~StoreError(w)
                                 /\ call'[w] = call[w]
    BY Flow, StoreErrorReturns DEF After
  <1>2. CASE pc[w] # "markTokenUsed"
    BY <1>1, <1>2, Writers
  <1>3. CASE StoreError(w)
    BY <1>1, <1>3, StoreErrorReturns DEF tokens
  <1>4. CASE MarkConfirmationTokenUsed(w)
    BY <1>1, <1>4, ReturnIsLocal DEF MarkConfirmationTokenUsed
  <1> QED BY <1>2, <1>3, <1>4, AtLabel

(* A grant is given with the move to approved, to the token that was won.      *)
LEMMA GrantMoves ==
    ASSUME TypeOK, NEW w \in Workers, ByWorker(w), NEW e \in Executions
    PROVE  \/ grant'[e] = grant[e] /\ (status[e] = "proposed" => status'[e] # "approved")
           \/ /\ pc[w] = "toApproved" /\ pc'[w] = "auditApproved" /\ e = call[w].ex
              /\ status[e] = "proposed" /\ status'[e] = "approved" /\ grant'[e] = call[w].tk
  <1>1. CASE pc[w] # "toApproved"
    BY <1>1, Writers, StatusMoves
  <1>2. CASE StoreError(w)
    BY <1>2, StoreErrorReturns DEF history, rows
  <1>3. CASE ToApproved(w)
    BY <1>3, GotoIsLocal DEF ToApproved, TransitionExecution, TypeOK, RowsType, HistoryType
  <1> QED BY <1>1, <1>2, <1>3, AtLabel

(* A step of a goroutine keeps every run's token.                              *)
LEMMA GrantsByWorker ==
    ASSUME TypeOK, ExecuteInv, ContentInv, AuthorityInv, NEW w \in Workers, ByWorker(w),
           NEW e \in Executions
    PROVE  /\ grant'[e] # None => grant'[e] \in used'
           /\ status'[e] \in {"approved", "executing"} \cup DerivableStatuses => Granted(e)'
  <1>1. TokenIsHeld(w) /\ UNCHANGED binding /\ used \subseteq used'
    BY Writers, UsedGrows DEF AuthorityInv
  <1>2. CASE grant'[e] = grant[e] /\ (status[e] = "proposed" => status'[e] # "approved")
    <2>1. status'[e] \in {"approved", "executing"} \cup DerivableStatuses
             => status[e] \in {"approved", "executing"} \cup DerivableStatuses
      BY <1>2, StatusMoves DEF DerivableStatuses
    <2>2. status[e] \in {"approved", "executing"} \cup DerivableStatuses
             => Granted(e) /\ runbook'[e] = runbook[e]
      BY WriteOnce DEF AuthorityInv, ContentInv, RowMatchesContent, DerivableStatuses
    <2> QED
      BY <1>1, <1>2, <2>1, <2>2
      DEF AuthorityInv, Granted, remediationTokenBinding, ContentHash
  <1>3. CASE /\ pc[w] = "toApproved" /\ e = call[w].ex /\ status[e] = "proposed"
             /\ status'[e] = "approved" /\ grant'[e] = call[w].tk
    <2>1. /\ call[w].tk \in used
          /\ binding[call[w].tk] = remediationTokenBinding(e, ContentHash(runbook[e]))
      BY <1>1, <1>3 DEF TokenIsHeld
    <2>2. UNCHANGED runbook
      BY <1>3, Writers
    <2> QED
      BY <1>1, <1>3, <2>1, <2>2 DEF Granted, remediationTokenBinding, ContentHash
  <1> QED BY <1>2, <1>3, GrantMoves

(* No token is behind two executions.                                          *)
LEMMA GrantsStayUnique ==
    ASSUME TypeOK, AuthorityInv, NEW w \in Workers, ByWorker(w),
           NEW e \in Executions, NEW d \in Executions, grant'[e] # None, grant'[e] = grant'[d]
    PROVE  e = d
  <1>1. CASE grant'[e] = grant[e] /\ grant'[d] = grant[d]
    BY <1>1 DEF AuthorityInv
  <1>2. CASE pc[w] = "toApproved" /\ (grant'[e] # grant[e] \/ grant'[d] # grant[d])
    BY <1>2, GrantMoves DEF AuthorityInv, TokenIsHeld
  <1> QED BY <1>1, <1>2, GrantMoves

(* What another goroutine holds stays in its hands.                            *)
LEMMA OthersKeepTheirToken ==
    ASSUME TypeOK, AuthorityInv, NEW w \in Workers, ByWorker(w), NEW v \in Workers, v # w
    PROVE  TokenIsHeld(v)'
  <1> DEFINE c == call[v]
  <1>1. /\ pc'[v] = pc[v] /\ call'[v] = call[v] /\ TokenIsHeld(v)
        /\ \A u \in Workers \ {w} : pc'[u] = pc[u] /\ call'[u] = call[u]
    BY ByWorkerIsLocal DEF OnlyWorker, TypeOK, WorkersType, AuthorityInv
  <1>2. ASSUME pc[v] \in {"consumeToken", "markTokenUsed", "toApproved"}
        PROVE  runbook'[c.ex] = runbook[c.ex]
    BY <1>1, <1>2, ActiveCall, WriteOnce DEF TypeOK, TokenIsHeld
  <1>3. UNCHANGED binding /\ used \subseteq used'
    BY Writers, UsedGrows
  <1>4. ASSUME pc[v] = "toApproved"
        PROVE  /\ \A e \in Executions : grant'[e] # c.tk
               /\ \A u \in Workers : pc'[u] = "toApproved" /\ call'[u].tk = c.tk => u = v
    <2>1. /\ c.tk \in used /\ \A e \in Executions : grant[e] # c.tk
          /\ \A u \in Workers : pc[u] = "toApproved" /\ call[u].tk = c.tk => u = v
      BY <1>1, <1>4 DEF TokenIsHeld
    <2>2. \A e \in Executions : grant'[e] # c.tk
      BY <2>1, GrantMoves
    <2>3. ~(pc'[w] = "toApproved" /\ call'[w].tk = c.tk)
      BY <2>1, UsedGrows
    <2> QED BY <1>1, <2>1, <2>2, <2>3
  <1> QED
    BY <1>1, <1>2, <1>3, <1>4 DEF TokenIsHeld, remediationTokenBinding, ContentHash

(* Approve and ConsumeToken check what the next label relies on.               *)
LEMMA OwnToken ==
    ASSUME TypeOK, AuthorityInv, NEW w \in Workers, ByWorker(w)
    PROVE  TokenIsHeld(w)'
  <1> DEFINE c == call[w]
  <1> SUFFICES ASSUME pc'[w] \in {"consumeToken", "markTokenUsed", "toApproved"}
               PROVE  TokenIsHeld(w)'
    BY DEF TokenIsHeld
  <1>1. pc'[w] \in After(pc[w]) /\ ~StoreError(w)
    BY Flow, StoreErrorReturns
  <1>2. pc[w] \in {"approve", "consumeToken", "markTokenUsed"}
    BY <1>1 DEF After
  <1>3. /\ call'[w] = call[w] /\ TokenIsHeld(w) /\ UNCHANGED <<runbook, binding, grant>>
    BY <1>1, <1>2, Flow, Writers DEF AuthorityInv
  <1>4. CASE pc[w] = "approve"
    <2>1. pc'[w] = "consumeToken"
      BY <1>1, <1>4 DEF After
    <2>2. validateHash(c.ex, c.req)
      BY <1>1, <1>4, <2>1, AtLabel, ReturnIsLocal DEF Approve
    <2> QED BY <1>3, <2>1, <2>2 DEF validateHash, TokenIsHeld, ContentHash
  <1>5. CASE pc[w] = "consumeToken"
    <2>1. pc'[w] = "markTokenUsed"
      BY <1>1, <1>5 DEF After
    <2>2. binding[c.tk] = remediationTokenBinding(c.ex, c.req)
      BY <1>1, <1>5, <2>1, AtLabel, ReturnIsLocal DEF ConsumeToken
    <2> QED
      BY <1>3, <1>5, <2>1, <2>2 DEF TokenIsHeld, ContentHash, remediationTokenBinding
  <1>6. CASE pc[w] = "markTokenUsed"
    <2>1. pc'[w] = "toApproved" /\ c.tk \notin used /\ c.tk \in used' /\ c.tk \in Tokens
      BY <1>1, <1>6, UsedGrows DEF After, TypeOK, WorkersType, ApprovePcs
    <2>2. \A e \in Executions : grant'[e] # c.tk
      BY <1>3, <2>1, ConstantsAssumption DEF AuthorityInv
    <2>3. \A v \in Workers : pc'[v] = "toApproved" /\ call'[v].tk = c.tk => v = w
      <3> SUFFICES ASSUME NEW v \in Workers, v # w, pc'[v] = "toApproved", call'[v].tk = c.tk
                   PROVE  FALSE
        OBVIOUS
      <3>1. pc[v] = "toApproved" /\ call[v].tk = c.tk
        BY ByWorkerIsLocal DEF OnlyWorker, TypeOK, WorkersType
      <3> QED BY <2>1, <3>1 DEF AuthorityInv, TokenIsHeld
    <2> QED
      BY <1>3, <1>6, <2>1, <2>2, <2>3 DEF TokenIsHeld, ContentHash, remediationTokenBinding
  <1> QED BY <1>2, <1>4, <1>5, <1>6

(* Every step keeps AuthorityInv: a binding is written once, too.              *)
LEMMA AuthorityNext ==
    ASSUME TypeOK, ExecuteInv, ContentInv, AuthorityInv, [Next]_vars
    PROVE  AuthorityInv'
  <1>1. ASSUME NEW w \in Workers, ByWorker(w)
        PROVE  AuthorityInv'
    <2>1. \A v \in Workers : TokenIsHeld(v)'
      BY <1>1, OwnToken, OthersKeepTheirToken
    <2> QED BY <1>1, <2>1, GrantsByWorker, GrantsStayUnique DEF AuthorityInv
  <1>2. CASE ByAgent
    <2>1. /\ UNCHANGED <<runbook, used, grant>>
          /\ \A t \in Tokens : binding[t] # None => binding'[t] = binding[t]
      BY <1>2, AgentWrites
    <2>2. ASSUME NEW e \in Executions,
                 status'[e] \in {"approved", "executing"} \cup DerivableStatuses
          PROVE  Granted(e)'
      <3>1. status[e] \in {"approved", "executing"} \cup DerivableStatuses
        BY <1>2, <2>2, AgentWrites DEF DerivableStatuses
      <3>2. Granted(e) /\ runbook[e] \in Contents /\ grant[e] \in Tokens
        BY <3>1
        DEF AuthorityInv, ContentInv, RowMatchesContent, DerivableStatuses, TypeOK, RowsType,
            Granted, TokensType
      <3>3. binding'[grant[e]] = binding[grant[e]]
        BY <2>1, <3>2, BindingIsSet DEF Granted
      <3> QED BY <2>1, <3>2, <3>3 DEF Granted, ContentHash, remediationTokenBinding
    <2>3. ASSUME NEW w \in Workers
          PROVE  TokenIsHeld(w)'
      <3>1. CASE pc'[w] \notin {"consumeToken", "markTokenUsed", "toApproved"}
        BY <3>1 DEF TokenIsHeld
      <3>2. CASE pc'[w] \in {"consumeToken", "markTokenUsed", "toApproved"}
        <4>1. /\ UNCHANGED <<pc, call>> /\ TokenIsHeld(w)
              /\ call[w].ex \in Executions /\ call[w].tk \in Tokens
          BY <1>2, <3>2, AgentWrites, ActiveCall
          DEF loop, TypeOK, AuthorityInv, WorkersType, ApprovePcs
        <4>2. runbook[call[w].ex] \in Contents /\ call[w].req = ContentHash(runbook[call[w].ex])
          BY <3>2, <4>1 DEF TokenIsHeld, TypeOK, RowsType
        <4>3. pc[w] # "consumeToken" => binding'[call[w].tk] = binding[call[w].tk]
          BY <2>1, <3>2, <4>1, <4>2, BindingIsSet DEF TokenIsHeld
        <4> QED
          BY <2>1, <3>2, <4>1, <4>2, <4>3
          DEF TokenIsHeld, ContentHash, remediationTokenBinding
      <3> QED BY <3>1, <3>2
    <2> QED BY <2>1, <2>2, <2>3 DEF AuthorityInv
  <1> QED BY <1>1, <1>2 DEF ByAgent

--------------------------------------------------------------------------------
(* The order of the trail.                                                     *)

(* An approval that is on record stays there.                                  *)
LEMMA RecordStays ==
    ASSUME TypeOK, [Next]_vars, NEW e \in Executions
    PROVE  /\ ApprovalIsRecorded(e) => ApprovalIsRecorded(e)'
           /\ AuditHas(e, "remediation.approved") => AuditHas(e, "remediation.approved")'
           /\ EventsOf(e, "execution_started") \subseteq EventsOf(e, "execution_started")'
           /\ EventsOf(e, "runbook_approved") \subseteq EventsOf(e, "runbook_approved")'
  <1>1. ASSUME NEW w \in Workers, ByWorker(w)
        PROVE  /\ \A typ : EventsOf(e, typ) \subseteq EventsOf(e, typ)'
               /\ \A typ : AuditHas(e, typ) => AuditHas(e, typ)'
    BY <1>1, EventsGrow, AuditGrows
  <1>2. CASE ByAgent
    BY <1>2, AgentTrail DEF ApprovalIsRecorded
  <1> QED BY <1>1, <1>2 DEF ByAgent, ApprovalIsRecorded

(* Execute's first event is written by the owner of the execution, once.       *)
LEMMA StartIsWritten ==
    ASSUME TypeOK, NEW w \in Workers, ByWorker(w), NEW e \in Executions
    PROVE  \/ UNCHANGED EventsOf(e, "execution_started")
           \/ /\ pc[w] = "eventStarted" /\ pc'[w] # "idle" /\ e = call[w].ex
              /\ EventsOf(e, "execution_started")' =
                    EventsOf(e, "execution_started") \cup {Len(events[e]) + 1}
  <1>1. CASE ~(pc[w] = "eventStarted" /\ call[w].ex = e)
    BY <1>1, EventsGrow
  <1>2. CASE StoreError(w)
    BY <1>2, StoreErrorReturns DEF trail, EventsOf
  <1>3. CASE EventStarted(w) /\ call[w].ex = e
    <2>1. AppendRemediationEvent(e, Event("execution_started")) /\ pc[w] = "eventStarted"
      BY <1>3 DEF EventStarted
    <2>2. Event("execution_started").type = "execution_started"
      BY DEF Event
    <2>3. pc'[w] # "idle"
      BY <1>3, NextStepIsLocal DEF EventStarted
    <2> QED BY <1>3, <2>1, <2>2, <2>3, EventsOfAfter DEF TypeOK
  <1> QED BY <1>1, <1>2, <1>3, AtLabel

(* Whoever is at a label knows what is on record: a goroutine's own step.      *)
LEMMA OwnTrail ==
    ASSUME TypeOK, ExecuteInv, TrailInv, NEW w \in Workers, ByWorker(w)
    PROVE  TrailSoFar(w)'
  <1> DEFINE e == call[w].ex
             known == {"eventApproved", "execute", "toExecuting"} \cup StepPcs
  <1> SUFFICES ASSUME pc'[w] \in known
               PROVE  TrailSoFar(w)'
    BY DEF TrailSoFar, StepPcs
  <1>1. pc'[w] \in After(pc[w]) /\ ~StoreError(w) /\ [Next]_vars
    BY Flow, StoreErrorReturns DEF StepPcs, Next, ByWorker
  <1>2. /\ call'[w] = call[w] /\ e \in Executions /\ TrailSoFar(w)
        /\ pc[w] \in {"getForApproval", "auditApproved", "eventApproved", "execute",
                      "toExecuting"} \cup StepPcs
    BY <1>1, Flow, ActiveCall DEF StepPcs, After, TypeOK, TrailInv
  <1>3. CASE pc[w] = "getForApproval"
    <2>1. pc'[w] = "execute"
      BY <1>1, <1>3 DEF After, StepPcs
    <2>2. status[e] \in {"executing"} \cup DerivableStatuses
      BY <1>1, <1>3, <2>1, AtLabel, GotoIsLocal, ReturnIsLocal DEF approveAndAckExecute
    <2>3. ApprovalIsRecorded(e)'
      BY <1>1, <1>2, <2>2, RecordStays DEF TrailInv, TrailOfOne
    <2> QED BY <1>2, <2>1, <2>3 DEF TrailSoFar, StepPcs
  <1>4. CASE pc[w] = "auditApproved"
    <2>1. pc'[w] = "eventApproved" /\ AppendAudit(e, "remediation.approved")
      BY <1>1, <1>4, AtLabel DEF After, AuditApproved, appendAudit
    <2>2. Len(audit'[e]) \in 1..Len(audit'[e]) /\ audit'[e][Len(audit'[e])] = "remediation.approved"
      BY <1>2, <2>1 DEF AppendAudit, TypeOK, TrailType
    <2> QED BY <1>2, <2>1, <2>2 DEF TrailSoFar, AuditHas, StepPcs
  <1>5. CASE pc[w] = "eventApproved"
    <2>1. pc'[w] = "execute" /\ AppendRemediationEvent(e, Event("runbook_approved"))
      BY <1>1, <1>5, AtLabel DEF After, EventApproved, appendEvent
    <2>2. Event("runbook_approved").type = "runbook_approved"
      BY DEF Event
    <2>3. Len(events[e]) + 1 \in EventsOf(e, "runbook_approved")'
      BY <1>2, <2>1, <2>2, EventsOfAfter DEF TypeOK
    <2>4. AuditHas(e, "remediation.approved")'
      BY <1>1, <1>2, <1>5, RecordStays DEF TrailSoFar
    <2> QED BY <1>2, <2>1, <2>3, <2>4 DEF TrailSoFar, ApprovalIsRecorded, StepPcs
  <1>6. CASE pc[w] = "execute"
    <2>1. pc'[w] = "toExecuting"
      BY <1>1, <1>6 DEF After
    <2> QED BY <1>1, <1>2, <1>6, <2>1, RecordStays DEF TrailSoFar, StepPcs
  <1>7. CASE pc[w] = "toExecuting"
    <2>1. pc'[w] = "auditStarted" /\ status[e] = "approved"
      BY <1>1, <1>7, AtLabel, ReturnIsLocal DEF After, ToExecuting, TransitionExecution
    <2>2. EventsOf(e, "execution_started") = {} /\ UNCHANGED EventsOf(e, "execution_started")
      BY <1>2, <1>7, <2>1, StartIsWritten DEF TrailInv, TrailOfOne, NotStarted
    <2> QED BY <1>2, <2>1, <2>2 DEF TrailSoFar
  <1>8. CASE pc[w] = "auditStarted"
    <2>1. pc'[w] = "eventStarted"
      BY <1>1, <1>8 DEF After
    <2>2. EventsOf(e, "execution_started") = {} /\ UNCHANGED EventsOf(e, "execution_started")
      BY <1>2, <1>8, StartIsWritten DEF TrailSoFar
    <2> QED BY <1>2, <2>1, <2>2 DEF TrailSoFar
  <1>9. CASE pc[w] = "eventStarted"
    <2>1. pc'[w] \in {"step", "toVerifying"}
      BY <1>1, <1>9 DEF After
    <2>2. AppendRemediationEvent(e, Event("execution_started"))
      BY <1>1, <1>9, AtLabel DEF EventStarted
    <2>3. Event("execution_started").type = "execution_started"
      BY DEF Event
    <2>4. Len(events[e]) + 1 \in EventsOf(e, "execution_started")'
      BY <1>2, <2>2, <2>3, EventsOfAfter DEF TypeOK
    <2> QED BY <1>2, <2>1, <2>4 DEF TrailSoFar
  <1>10. CASE pc[w] \in StepPcs \ {"auditStarted", "eventStarted"}
    <2>1. pc'[w] \notin {"eventApproved", "execute", "toExecuting", "auditStarted", "eventStarted"}
      BY <1>1, <1>10 DEF After, StepPcs
    <2>2. EventsOf(e, "execution_started") # {} /\ UNCHANGED EventsOf(e, "execution_started")
      BY <1>2, <1>10, StartIsWritten DEF TrailSoFar
    <2> QED BY <1>2, <2>1, <2>2 DEF TrailSoFar
  <1> QED BY <1>2, <1>3, <1>4, <1>5, <1>6, <1>7, <1>8, <1>9, <1>10

(* and another goroutine's, which is not the owner.                            *)
LEMMA OthersKeepTheirTrail ==
    ASSUME TypeOK, ExecuteInv, TrailInv, NEW w \in Workers, ByWorker(w),
           NEW v \in Workers, v # w
    PROVE  TrailSoFar(v)'
  <1> DEFINE e == call[v].ex
  <1>1. pc'[v] = pc[v] /\ call'[v] = call[v] /\ [Next]_vars
    BY ByWorkerIsLocal DEF OnlyWorker, TypeOK, WorkersType, Next, ByWorker
  <1>2. pc[v] # "idle" => e \in Executions
    BY ActiveCall DEF TypeOK
  <1>3. pc[v] \in StepPcs => UNCHANGED EventsOf(e, "execution_started")
    <2>1. pc[v] \in StepPcs => ~(pc[w] = "eventStarted" /\ call[w].ex = e)
      BY DEF ExecuteInv, OwnerIsAlone, StepPcs
    <2> QED BY <1>1, <1>2, <2>1, StartIsWritten DEF StepPcs
  <1>4. TrailSoFar(v)
    BY DEF TrailInv
  <1>5. pc[v] \in {"eventApproved", "execute", "toExecuting"} =>
           /\ ApprovalIsRecorded(e) => ApprovalIsRecorded(e)'
           /\ AuditHas(e, "remediation.approved") => AuditHas(e, "remediation.approved")'
    BY <1>1, <1>2, RecordStays
  <1> QED BY <1>1, <1>3, <1>4, <1>5 DEF TrailSoFar, StepPcs

(* The trail of one execution keeps its order when a goroutine takes a step:   *)
(* what it adds comes last, and what must come before it is there.             *)
LEMMA TrailByWorker ==
    ASSUME TypeOK, ExecuteInv, TrailInv, NEW w \in Workers, ByWorker(w), NEW e \in Executions
    PROVE  TrailOfOne(e)'
  <1> DEFINE started == EventsOf(e, "execution_started")
             approved == EventsOf(e, "runbook_approved")
             results == EventsOf(e, "step_result")
             n == Len(events[e]) + 1
  <1>1. /\ TrailOfOne(e) /\ TrailSoFar(w) /\ [Next]_vars
        /\ n \in Nat /\ started \subseteq 1..(n - 1) /\ approved \subseteq 1..(n - 1)
        /\ started \subseteq started' /\ approved \subseteq approved'
        /\ AuditHas(e, "remediation.approved") => AuditHas(e, "remediation.approved")'
        /\ ApprovalIsRecorded(e) => ApprovalIsRecorded(e)'
    BY RecordStays DEF TrailInv, Next, ByWorker, EventsOf, TypeOK, TrailType
  <1>2. status'[e] \in {"executing"} \cup DerivableStatuses => ApprovalIsRecorded(e)'
    <2>1. CASE status[e] \in {"executing"} \cup DerivableStatuses
      BY <1>1, <2>1 DEF TrailOfOne
    <2>2. CASE /\ status[e] \notin {"executing"} \cup DerivableStatuses
               /\ status'[e] \in {"executing"} \cup DerivableStatuses
      <3>1. pc[w] = "toExecuting" /\ e = call[w].ex
        BY <2>2, StatusMoves DEF DerivableStatuses
      <3> QED BY <1>1, <3>1 DEF TrailSoFar
    <2> QED BY <2>1, <2>2
  <1>3. CASE UNCHANGED started
    <2>1. status'[e] \in NotStarted => status[e] \in NotStarted
      BY StatusMoves DEF NotStarted
    <2>2. status'[e] \in NotStarted => started' = {}
      BY <1>1, <1>3, <2>1 DEF TrailOfOne
    <2>3. \A k \in started' : \E j \in approved' : j < k
      BY <1>1, <1>3 DEF TrailOfOne
    <2>4. \A k \in results' : \E j \in started' : j < k
      <3>1. CASE results' = results
        BY <1>1, <1>3, <3>1 DEF TrailOfOne
      <3>2. CASE results' # results
        <4>1. pc[w] = "eventStep" /\ e = call[w].ex /\ results' = results \cup {n}
          BY <3>2, ResultIsWritten DEF Results
        <4>2. started # {}
          BY <1>1, <4>1 DEF TrailSoFar, StepPcs
        <4>3. \E j \in started' : j < n
          BY <1>1, <1>3, <4>2
        <4> QED BY <1>1, <1>3, <4>1, <4>3 DEF TrailOfOne
      <3> QED BY <3>1, <3>2
    <2> QED BY <1>1, <1>2, <1>3, <2>2, <2>3, <2>4 DEF TrailOfOne
  <1>4. CASE started' # started
    <2>1. pc[w] = "eventStarted" /\ e = call[w].ex /\ started' = started \cup {n}
      BY <1>4, StartIsWritten
    <2>2. started = {} /\ status[e] = "executing" /\ UNCHANGED status
      BY <1>1, <2>1, Writers DEF TrailSoFar, ExecuteInv, WorkerInv, OwnsExecution, StepPcs
    <2>3. approved # {} /\ AuditHas(e, "remediation.approved")
      BY <1>1, <2>2 DEF TrailOfOne, ApprovalIsRecorded
    <2>4. \E j \in approved' : j < n
      BY <1>1, <2>3
    <2>5. results' = results
      BY <2>1, ResultIsWritten DEF Results
    <2>6. results = {}
      BY <1>1, <2>2 DEF TrailOfOne
    <2>7. status'[e] \notin NotStarted
      BY <2>2 DEF NotStarted
    <2> QED
      BY <1>1, <1>2, <2>1, <2>2, <2>3, <2>4, <2>5, <2>6, <2>7 DEF TrailOfOne
  <1> QED BY <1>3, <1>4

(* Every step keeps TrailInv.                                                  *)
LEMMA TrailNext ==
    ASSUME TypeOK, ExecuteInv, TrailInv, [Next]_vars
    PROVE  TrailInv'
  <1>1. ASSUME NEW w \in Workers, ByWorker(w)
        PROVE  TrailInv'
    <2>1. \A v \in Workers : TrailSoFar(v)'
      BY <1>1, OwnTrail, OthersKeepTheirTrail
    <2> QED BY <1>1, <2>1, TrailByWorker DEF TrailInv
  <1>2. CASE ByAgent
    <2>1. ASSUME NEW e \in Executions
          PROVE  /\ UNCHANGED EventsOf(e, "execution_started")
                 /\ UNCHANGED EventsOf(e, "step_result")
                 /\ EventsOf(e, "runbook_approved") \subseteq EventsOf(e, "runbook_approved")'
                 /\ ApprovalIsRecorded(e) => ApprovalIsRecorded(e)'
                 /\ AuditHas(e, "remediation.approved") => AuditHas(e, "remediation.approved")'
      BY <1>2, AgentTrail DEF Results, ApprovalIsRecorded
    <2>2. ASSUME NEW e \in Executions
          PROVE  TrailOfOne(e)'
      <3>1. /\ status'[e] \in NotStarted => status[e] \in NotStarted
            /\ status'[e] \in {"executing"} \cup DerivableStatuses =>
                  status[e] \in {"executing"} \cup DerivableStatuses
        BY <1>2, AgentWrites DEF NotStarted, DerivableStatuses
      <3> QED BY <2>1, <3>1 DEF TrailInv, TrailOfOne
    <2>3. ASSUME NEW w \in Workers
          PROVE  TrailSoFar(w)'
      <3>1. CASE pc'[w] = "idle"
        BY <3>1 DEF TrailSoFar, StepPcs
      <3>2. CASE pc'[w] # "idle"
        <4> DEFINE e == call[w].ex
        <4>1. UNCHANGED <<pc, call>> /\ e \in Executions
          BY <1>2, <3>2, AgentWrites, ActiveCall DEF loop, TypeOK
        <4>2. /\ UNCHANGED EventsOf(e, "execution_started")
              /\ ApprovalIsRecorded(e) => ApprovalIsRecorded(e)'
              /\ AuditHas(e, "remediation.approved") => AuditHas(e, "remediation.approved")'
          BY <2>1, <4>1
        <4> QED BY <4>1, <4>2 DEF TrailInv, TrailSoFar
      <3> QED BY <3>1, <3>2
    <2> QED BY <2>2, <2>3 DEF TrailInv
  <1> QED BY <1>1, <1>2 DEF ByAgent

--------------------------------------------------------------------------------
(* Incarnations.                                                               *)

(* An execution's owner is written with its move to executing.                 *)
LEMMA OwnerMoves ==
    ASSUME TypeOK, NEW w \in Workers, ByWorker(w), NEW e \in Executions
    PROVE  \/ /\ owner'[e] = owner[e]
              /\ pc[w] = "toExecuting" /\ pc'[w] # "idle" => e # call[w].ex
              /\ status[e] = "approved" => status'[e] # "executing"
           \/ /\ pc[w] = "toExecuting" /\ pc'[w] = "auditStarted" /\ e = call[w].ex
              /\ status[e] = "approved" /\ status'[e] = "executing" /\ owner'[e] = crashes
  <1>1. CASE pc[w] # "toExecuting"
    BY <1>1, Writers, StatusMoves
  <1>2. CASE StoreError(w)
    BY <1>2, StoreErrorReturns DEF history, rows
  <1>3. CASE ToExecuting(w)
    BY <1>3, GotoIsLocal, ReturnIsLocal
    DEF ToExecuting, TransitionExecution, TypeOK, RowsType, HistoryType
  <1> QED BY <1>1, <1>2, <1>3, AtLabel

(* Every step keeps OwnerInv: a crash leaves what is in flight to an earlier   *)
(* incarnation.                                                                *)
LEMMA OwnerNext ==
    ASSUME TypeOK, ExecuteInv, OwnerInv, [Next]_vars
    PROVE  OwnerInv'
  <1>1. ASSUME NEW w \in Workers, ByWorker(w)
        PROVE  OwnerInv'
    <2>1. agent = "up" /\ UNCHANGED <<agent, crashes>>
      BY <1>1, ByWorkerIsLocal, AgentIsUp, AtLabel
      DEF startup, ExecuteInv, StoreError, NoStorePcs, Request, Propose, RequestRollback,
          RequestExecute, RequestDecline, Begin
    <2>2. crashes \in Nat
      BY DEF TypeOK, StartupType
    <2>3. ASSUME NEW v \in Workers, pc'[v] \in StepPcs
          PROVE  owner'[call'[v].ex] = crashes
      <3>1. CASE v = w
        <4>1. pc[w] \in StepPcs \cup {"toExecuting"} /\ call'[w] = call[w] /\ call[w].ex \in Executions
          BY <1>1, <2>3, <3>1, Flow, ActiveCall DEF StepPcs, After, TypeOK
        <4> QED BY <1>1, <2>3, <3>1, <4>1, OwnerMoves DEF OwnerInv, StepPcs
      <3>2. CASE v # w
        <4>1. pc'[v] = pc[v] /\ call'[v] = call[v]
          BY <1>1, <3>2, ByWorkerIsLocal DEF OnlyWorker, TypeOK, WorkersType
        <4>2. call[v].ex \in Executions /\ status[call[v].ex] = "executing"
          BY <2>3, <4>1, ActiveCall
          DEF TypeOK, StepPcs, ExecuteInv, WorkerInv, OwnsExecution
        <4> QED BY <1>1, <2>3, <4>1, <4>2, OwnerMoves DEF OwnerInv
      <3> QED BY <3>1, <3>2
    <2>4. ASSUME NEW e \in Executions, status'[e] \in {"executing", "verifying"}
          PROVE  owner'[e] \in 0..crashes
      BY <1>1, <2>1, <2>2, <2>4, OwnerMoves, StatusMoves DEF OwnerInv
    <2> QED BY <2>1, <2>3, <2>4 DEF OwnerInv
  <1>2. CASE ByAgent
    <2>1. /\ UNCHANGED owner
          /\ \A e \in Executions : status'[e] \in {"executing", "verifying"} => status'[e] = status[e]
      BY <1>2, AgentWrites
    <2>2. crashes \in Nat /\ crashes' \in Nat
      BY <1>2, NextType DEF TypeOK, StartupType, ByAgent, ExecuteInv, WorkerInv
    <2>3. \/ /\ crashes' = crashes + 1 /\ agent' = "down" /\ \A w \in Workers : pc'[w] = "idle"
          \/ /\ UNCHANGED <<crashes, pc, call>>
             /\ agent = "up" => agent' = "up"
      BY <1>2, AgentSteps
      DEF MintConfirmationToken, Crash, Recovery, Restart, RecoverList, RecoverTransition,
          RecoverAudit, RecoverEvent, RecoverError, RecoverNext, startup, vars
    <2>4. \A w \in Workers : pc'[w] \in StepPcs => owner'[call'[w].ex] = crashes'
      BY <2>1, <2>3 DEF OwnerInv, StepPcs
    <2>5. ASSUME NEW e \in Executions, status'[e] \in {"executing", "verifying"}
          PROVE  owner'[e] \in 0..(IF agent' = "up" THEN crashes' ELSE crashes' - 1)
      <3>1. owner'[e] = owner[e]
            /\ owner[e] \in 0..(IF agent = "up" THEN crashes ELSE crashes - 1)
        BY <2>1, <2>5 DEF OwnerInv
      <3> QED BY <2>2, <2>3, <3>1
    <2> QED BY <2>4, <2>5 DEF OwnerInv
  <1> QED BY <1>1, <1>2 DEF ByAgent

--------------------------------------------------------------------------------
(* The theorems.                                                               *)

(* The empty ledger satisfies every invariant.                                 *)
LEMMA InitLedger == Init => LedgerInv
  <1> SUFFICES ASSUME Init PROVE LedgerInv
    OBVIOUS
  <1>1. \A e \in Executions : \A typ : EventsOf(e, typ) = {}
    BY DEF Init, EventsOf
  <1>2. RecordInv
    BY <1>1, FS_EmptySet
    DEF Init, RecordInv, ResultsMatchRuns, LoopMatchesRecord, Results, StepPcs
  <1>3. ContentInv
    BY DEF Init, ContentInv, RowMatchesContent, RollbackIsDerived, ProposalMatchesContent,
           NeverResolved, ProposePcs
  <1>4. AuthorityInv
    BY DEF Init, AuthorityInv, TokenIsHeld, DerivableStatuses
  <1>5. TrailInv
    BY <1>1
    DEF Init, TrailInv, TrailOfOne, TrailSoFar, DerivableStatuses, StepPcs
  <1>6. OwnerInv
    BY DEF Init, OwnerInv, StepPcs
  <1> QED BY <1>2, <1>3, <1>4, <1>5, <1>6 DEF LedgerInv

(* With the types and ExecuteInv, LedgerInv is inductive: content, record,     *)
(* authority, trail and incarnations agree after every step.                   *)
THEOREM LedgerInductive == Spec => []LedgerInv
  <1>1. Init => LedgerInv
    BY InitLedger
  <1>2. TypeOK /\ ExecuteInv /\ LedgerInv /\ [Next]_vars => LedgerInv'
    BY ContentNext, RecordNext, AuthorityNext, TrailNext, OwnerNext DEF LedgerInv
  <1> QED BY <1>1, <1>2, Inductive, PTL DEF Spec

(* The durable record: step_result events tell exactly what the host saw, save *)
(* that the last run may have none, and verifying is reached with all of them. *)
THEOREM LedgerIsTrue == Spec => []LedgerTracksHost
  <1>1. LedgerInv => LedgerTracksHost
    BY DEF LedgerInv, RecordInv, ResultsMatchRuns, Results, EventsOf, LedgerTracksHost
  <1> QED BY <1>1, LedgerInductive, PTL

(* The rollback that is reviewed is the one that runs: once stored, its        *)
(* content is the derivation from its parent's results, whoever derives it     *)
(* again and however the requests race.                                        *)
THEOREM RollbackStable == Spec => []RollbackIsStable
  <1>1. ExecuteInv /\ LedgerInv => RollbackIsStable
    <2> SUFFICES ASSUME ExecuteInv, LedgerInv, NEW p \in Primaries,
                        runbook[<<p, "rollback">>] # None
                 PROVE  LET e == <<p, "execute">>
                            r == <<p, "rollback">>
                        IN  /\ status[e] \in DerivableStatuses
                            /\ \E f \in LastFirst(Undoable(e)) : runbook[r] = RollbackRunbook(e, f)
                            /\ runbookHash[r] \in {None, ContentHash(runbook[r])}
      BY DEF RollbackIsStable
    <2> DEFINE e == <<p, "execute">>
               r == <<p, "rollback">>
    <2>1. r \in Executions /\ r[2] = "rollback" /\ Parent(r) = e
      BY DEF Executions, Parent
    <2>2. status[e] \in DerivableStatuses
      BY <2>1 DEF ExecuteInv, RollbackFollowsParent
    <2>3. Derived(r, runbook[r])
      BY <2>1 DEF LedgerInv, ContentInv, RollbackIsDerived
    <2>4. runbookHash[r] \in {None, ContentHash(runbook[r])}
      BY <2>1 DEF LedgerInv, ContentInv, RowMatchesContent
    <2> QED BY <2>1, <2>2, <2>3, <2>4 DEF Derived
  <1> QED BY <1>1, Inductive, LedgerInductive, PTL

(* No run without authority: whatever is approved, runs or has run has a       *)
(* consumed token of its own, minted for its kind of action, its incident and  *)
(* exactly the content that is stored, and is not L3.                          *)
THEOREM TokenAuthority == Spec => []EveryRunHasItsToken
  <1>1. TypeOK /\ ExecuteInv /\ LedgerInv => EveryRunHasItsToken
    <2> SUFFICES ASSUME TypeOK, ExecuteInv, LedgerInv PROVE EveryRunHasItsToken
      OBVIOUS
    <2>1. ASSUME NEW e \in Executions,
                 \/ status[e] \in {"approved", "executing"} \cup DerivableStatuses
                 \/ host[e] # <<>>
          PROVE  /\ runbook[e] # None /\ ~runbook[e].blocked /\ grant[e] \in used
                 /\ binding[grant[e]] = remediationTokenBinding(e, ContentHash(runbook[e]))
      <3>1. status[e] \in {"approved", "executing"} \cup DerivableStatuses
        BY <2>1
        DEF ExecuteInv, NothingRanEarly, NotStarted, TypeOK, RowsType, Statuses,
            DerivableStatuses
      <3>2. Granted(e) /\ RowMatchesContent(e)
        BY <3>1 DEF LedgerInv, AuthorityInv, ContentInv
      <3> QED BY <3>1, <3>2 DEF Granted, RowMatchesContent, DerivableStatuses
    <2>2. \A e, d \in Executions : grant[e] # None /\ grant[e] = grant[d] => e = d
      BY DEF LedgerInv, AuthorityInv
    <2> QED BY <2>1, <2>2 DEF EveryRunHasItsToken
  <1> QED BY <1>1, Inductive, LedgerInductive, PTL

(* The trail is in order: approval on record, as an audit row and an event,    *)
(* before the one execution_started, and that before every step_result.        *)
THEOREM TrailOrdered == Spec => []TrailIsOrdered
  <1>1. TypeOK /\ LedgerInv => TrailIsOrdered
    <2> SUFFICES ASSUME TypeOK, LedgerInv, NEW e \in Executions
                 PROVE  LET at(typ) == {k \in 1..Len(events[e]) : events[e][k].type = typ}
                        IN  /\ Cardinality(at("execution_started")) <= 1
                            /\ \A k \in at("execution_started") :
                                  /\ \E j \in at("runbook_approved") : j < k
                                  /\ \E j \in 1..Len(audit[e]) : audit[e][j] = "remediation.approved"
                            /\ \A k \in at("step_result") :
                                  \E j \in at("execution_started") : j < k
      BY DEF TrailIsOrdered
    <2> DEFINE started == EventsOf(e, "execution_started")
    <2>1. TrailOfOne(e)
      BY DEF LedgerInv, TrailInv
    <2>2. Cardinality(started) <= 1
      <3>1. CASE started = {}
        BY <3>1, FS_EmptySet
      <3>2. CASE started # {}
        <4>1. PICK k \in started : started = {k}
          BY <2>1, <3>2 DEF TrailOfOne
        <4> QED BY <4>1, FS_Singleton
      <3> QED BY <3>1, <3>2
    <2> QED BY <2>1, <2>2 DEF TrailOfOne, EventsOf, AuditHas
  <1> QED BY <1>1, Inductive, LedgerInductive, PTL

--------------------------------------------------------------------------------
(* The refinement: the ledger, with its goroutines, tokens, rows and trails,   *)
(* implements ExecutionLifecycle.  Every statement maps to one step of the     *)
(* lifecycle or to none: the conditional updates of the status move the phase, *)
(* the insert of a row makes the plan, a host step adds to the log, a crash    *)
(* begins a new incarnation, and everything else the lifecycle does not see.   *)

(* The plan the refinement mapping gives an execution.                         *)
Plan == [e \in Executions |-> IF status[e] = "none" THEN <<>> ELSE runbook[e].steps]

(* The empty ledger maps to an empty lifecycle.                                *)
LEMMA InitImplements == Init => Lifecycle!Init
  BY DEF Init, Lifecycle!Init

(* An execution's plan is made with its row and never changes.                 *)
LEMMA PlanStays ==
    ASSUME TypeOK, LedgerInv, [Next]_vars, NEW e \in Executions,
           status[e] # "none" \/ status'[e] = "none"
    PROVE  Plan'[e] = Plan[e]
  <1>1. CASE status[e] # "none"
    <2>1. runbook[e] # None
      BY <1>1 DEF LedgerInv, ContentInv, RowMatchesContent
    <2>2. runbook'[e] = runbook[e]
      BY <2>1, WriteOnce, AgentWrites DEF ByAgent
    <2>3. status'[e] # "none"
      BY <1>1, StatusMoves, AgentWrites DEF ByAgent
    <2> QED BY <1>1, <2>2, <2>3 DEF Plan
  <1>2. CASE status[e] = "none" /\ status'[e] = "none"
    BY <1>2 DEF Plan
  <1> QED BY <1>1, <1>2

(* So a step that creates no row leaves all plans alone.                       *)
LEMMA PlansStay ==
    ASSUME TypeOK, LedgerInv, [Next]_vars,
           \A e \in Executions : status[e] # "none" \/ status'[e] = "none"
    PROVE  UNCHANGED Plan
  <1>1. \A e \in Executions : Plan'[e] = Plan[e]
    BY PlanStays
  <1>2. Plan = [e \in Executions |-> Plan[e]] /\ Plan' = [e \in Executions |-> Plan'[e]]
    BY DEF Plan
  <1> QED BY <1>1, <1>2

(* The steps of a derived rollback undo, last first, runs that succeeded.      *)
LEMMA DerivedUndoes ==
    ASSUME TypeOK, ExecuteInv, LedgerInv, NEW r \in Executions, NEW rb \in Contents,
           Derived(r, rb), status[Parent(r)] \in DerivableStatuses
    PROVE  Lifecycle!Undoes(rb.steps, r)
  <1> DEFINE p == Parent(r)
             done == {k \in 1..Len(host[p]) : host[p][k].ok /\ UndoOf[Plan[p][k]] # NoUndo}
             n == Cardinality(Undoable(p))
  <1>1. /\ p \in Executions /\ p = <<r[1], "execute">>
        /\ Plan[p] = runbook[p].steps /\ ResultsMatchRuns(p)
        /\ status[p] \in {"verifying", "remediation_failed"}
    BY DEF Parent, Executions, Plan, DerivableStatuses, LedgerInv, RecordInv, ContentInv,
           NeverResolved
  <1>2. PICK g \in LastFirst(Undoable(p)) : rb = RollbackRunbook(p, g)
    BY DEF Derived
  <1>3. /\ g \in [1..n -> Undoable(p)] /\ \A i, j \in 1..n : i < j => g[i] > g[j]
        /\ rb.steps = [j \in 1..n |-> UndoOf[runbook[p].steps[events[p][g[j]].index]]]
    BY <1>2 DEF LastFirst, RollbackRunbook, invertSteps
  <1>4. n \in Nat /\ Len(rb.steps) = n
    <2>1. Undoable(p) \subseteq Results(p) /\ IsFiniteSet(Results(p))
      BY <1>1, ResultsFinite DEF Undoable, Successful, Results, EventsOf
    <2>2. n \in Nat
      BY <2>1, FS_Subset, FS_CardinalityType
    <2>3. rb.steps \in Seq(Kinds)
      BY DEF Contents
    <2>4. DOMAIN rb.steps = 1..n
      BY <1>3
    <2>5. DOMAIN rb.steps = 1..Len(rb.steps) /\ Len(rb.steps) \in Nat
      BY <2>3
    <2> HIDE DEF n
    <2> QED BY <2>2, <2>4, <2>5
  <1> DEFINE f == [j \in 1..n |-> events[p][g[j]].index]
  <1>5. ASSUME NEW k \in Undoable(p)
        PROVE  /\ k \in Results(p)
               /\ events[p][k].index \in 1..Len(host[p])
               /\ host[p][events[p][k].index].ok
               /\ UndoOf[Plan[p][events[p][k].index]] # NoUndo
    <2>1. /\ k \in Results(p) /\ events[p][k].ok
          /\ UndoOf[runbook[p].steps[events[p][k].index]] # NoUndo
      BY DEF Undoable, Successful, Results, EventsOf
    <2> QED BY <1>1, <2>1 DEF ResultsMatchRuns
  <1>6. f \in [1..n -> done]
    BY <1>3, <1>5
  <1>7. ASSUME NEW i \in 1..n, NEW j \in 1..n, i < j
        PROVE  f[i] > f[j]
    <2>1. g[i] \in Results(p) /\ g[j] \in Results(p) /\ g[j] < g[i]
      <3>1. g[i] \in Results(p) /\ g[j] \in Results(p) /\ g[i] > g[j]
        BY <1>3, <1>5, <1>7
      <3>2. g[i] \in Nat /\ g[j] \in Nat
        BY <1>1, <3>1, ResultsFinite
      <3> QED BY <3>1, <3>2
    <2>2. events[p][g[j]].index < events[p][g[i]].index
      BY <1>1, <2>1 DEF ResultsMatchRuns
    <2>3. events[p][g[j]].index \in 1..Len(host[p]) /\ events[p][g[i]].index \in 1..Len(host[p])
      BY <1>1, <2>1 DEF ResultsMatchRuns
    <2> QED BY <2>2, <2>3
  <1>8. \A j \in 1..n : rb.steps[j] = UndoOf[Plan[p][f[j]]]
    BY <1>1, <1>3
  <1>9. \E h \in [1..Len(rb.steps) -> done] :
           /\ \A i, j \in 1..Len(rb.steps) : i < j => h[i] > h[j]
           /\ \A j \in 1..Len(rb.steps) : rb.steps[j] = UndoOf[Plan[p][h[j]]]
    <2> HIDE DEF f, n, done
    <2> QED BY <1>4, <1>6, <1>7, <1>8
  <1> DEFINE q == <<r[1], "execute">>
             undone == {k \in 1..Len(host[q]) : host[q][k].ok /\ UndoOf[Plan[q][k]] # NoUndo}
  <1>10. p = q /\ done = undone
    BY <1>1
  <1>11. /\ status[q] \in {"verifying", "remediation_failed"}
         /\ \E h \in [1..Len(rb.steps) -> undone] :
                /\ \A i, j \in 1..Len(rb.steps) : i < j => h[i] > h[j]
                /\ \A j \in 1..Len(rb.steps) : rb.steps[j] = UndoOf[Plan[q][h[j]]]
    <2> HIDE DEF p, q, done, undone
    <2> QED BY <1>1, <1>9, <1>10
  <1> QED
    BY ONLY <1>11, Zenon DEF Lifecycle!Undoes, Plan

(* The insert of a row proposes an execution, and a rollback's steps undo runs *)
(* of its parent.                                                              *)
LEMMA CreateImplements ==
    ASSUME TypeOK, ExecuteInv, LedgerInv, TypeOK', LedgerInv', [Next]_vars,
           NEW w \in Workers, CreateExecution(w),
           NEW e \in Executions, e = call[w].ex, status[e] = "none"
    PROVE  Lifecycle!Propose(e)
  <1> DEFINE rb == call[w].rb
  <1>1. /\ e \in Executions /\ rb \in Contents /\ runbook[e] = rb
        /\ pc[w] = "createExecution" /\ ProposalMatchesContent(w)
    BY ActiveCall
    DEF CreateExecution, TypeOK, WorkersType, ProposePcs, LedgerInv, ContentInv,
        ProposalMatchesContent
  <1>2. /\ status' = [status EXCEPT ![e] = IF rb.blocked THEN "blocked_l3" ELSE "proposed"]
        /\ UNCHANGED <<runbook, host, owner, crashes>>
    BY DEF CreateExecution, rows, history, startup
  <1>3. status'[e] # "none" /\ \A d \in Executions \ {e} : status'[d] = status[d]
    BY <1>1, <1>2 DEF TypeOK, RowsType
  <1>4. Plan'[e] = rb.steps /\ rb.steps \in Seq(Kinds)
    BY <1>1, <1>2, <1>3 DEF Plan, Contents
  <1>5. Plan' = [Plan EXCEPT ![e] = Plan'[e]]
    <2>1. \A d \in Executions : d # e => Plan'[d] = Plan[d]
      BY <1>3, PlanStays
    <2>2. Plan = [d \in Executions |-> Plan[d]] /\ Plan' = [d \in Executions |-> Plan'[d]]
      BY DEF Plan
    <2> QED BY <2>1, <2>2
  <1>6. e[2] = "rollback" => Lifecycle!Undoes(rb.steps, e)
    BY <1>1, DerivedUndoes
    DEF ProposalMatchesContent, ProposePcs, ExecuteInv, WorkerInv, ParentIsDone
  <1>7. Lifecycle!Move(e, "none", "proposed") \/ Lifecycle!Move(e, "none", "blocked_l3")
    BY <1>2 DEF Lifecycle!Move
  <1> QED
    BY <1>2, <1>4, <1>5, <1>6, <1>7 DEF Lifecycle!Propose, Plan

(* The insert is a step of the lifecycle, and losing it is none.               *)
LEMMA CreationImplements ==
    ASSUME TypeOK, ExecuteInv, LedgerInv, TypeOK', LedgerInv', [Next]_vars,
           NEW w \in Workers, CreateExecution(w)
    PROVE  [Lifecycle!Next]_(Lifecycle!vars)
  <1>1. CASE status[call[w].ex] = "none"
    <2>1. call[w].ex \in Executions
      BY ActiveCall DEF CreateExecution, TypeOK
    <2>2. PICK e \in Executions : e = call[w].ex
      BY <2>1
    <2>3. Lifecycle!Propose(e)
      BY <1>1, <2>2, CreateImplements
    <2> QED BY <2>3 DEF Lifecycle!Next
  <1>2. CASE status[call[w].ex] # "none"
    <2>1. UNCHANGED <<status, runbook, host, owner, crashes>>
      BY <1>2 DEF CreateExecution, history, startup
    <2>2. UNCHANGED Plan
      BY <2>1 DEF Plan
    <2> QED BY <2>1, <2>2 DEF Lifecycle!vars, Plan
  <1> QED BY <1>1, <1>2

(* The loop agrees with the lifecycle: an execution a goroutine runs belongs   *)
(* to this incarnation, and its log is where the loop index says.              *)
LEMMA LoopIsOwned ==
    ASSUME TypeOK, ExecuteInv, LedgerInv, NEW w \in Workers, pc[w] \in StepPcs
    PROVE  /\ call[w].ex \in Executions /\ status[call[w].ex] = "executing"
           /\ owner[call[w].ex] = crashes
           /\ Plan[call[w].ex] = runbook[call[w].ex].steps
           /\ LoopMatchesHost(w) /\ LoopMatchesRecord(w)
  <1>1. call[w].ex \in Executions
    BY ActiveCall DEF StepPcs, TypeOK
  <1> QED
    BY <1>1 DEF ExecuteInv, WorkerInv, OwnsExecution, LedgerInv, OwnerInv, RecordInv, Plan

(* The host steps are the lifecycle's, in order and once.                      *)
LEMMA RunImplements ==
    ASSUME TypeOK, ExecuteInv, LedgerInv, [Next]_vars,
           NEW w \in Workers, NEW ok \in BOOLEAN, ExecuteStep(w, ok)
    PROVE  [Lifecycle!Next]_(Lifecycle!vars)
  <1> DEFINE e == call[w].ex
  <1>1. /\ e \in Executions /\ status[e] = "executing" /\ owner[e] = crashes
        /\ Plan[e] = runbook[e].steps /\ LoopMatchesHost(w) /\ pc[w] = "step"
    BY LoopIsOwned DEF ExecuteStep, StepPcs
  <1>2. /\ UNCHANGED <<status, runbook, owner, crashes>>
        /\ host' = [host EXCEPT ![e] = Append(@, [index |-> idx[w], ok |-> ok])]
    BY DEF ExecuteStep, rows, startup
  <1>3. UNCHANGED Plan
    BY <1>2 DEF Plan
  <1>4. /\ Len(host[e]) \in Nat /\ idx[w] \in Nat /\ Len(Plan[e]) \in Nat
        /\ idx[w] = Len(host[e]) + 1 /\ Len(host[e]) < Len(Plan[e])
        /\ \A k \in 1..Len(host[e]) : host[e][k].ok
    <2>1. host[e] \in Seq(Runs) /\ idx[w] \in Nat /\ runbook[e] \in Contents
      BY <1>1 DEF TypeOK, HistoryType, WorkersType, RowsType, ExecuteInv, WorkerInv,
                  RunbookIsStored, StepPcs
    <2>2. Len(host[e]) \in Nat /\ Len(runbook[e].steps) \in Nat
      BY <2>1 DEF Contents
    <2> QED BY <1>1, <2>1, <2>2 DEF LoopMatchesHost
  <1>5. host' = [host EXCEPT ![e] = Append(@, [index |-> Len(@) + 1, ok |-> ok])]
    BY <1>2, <1>4
  <1>6. Lifecycle!RunStep(e, ok)
    <2>1. Lifecycle!AllOk(e)
      BY <1>4 DEF Lifecycle!AllOk
    <2> QED BY <1>1, <1>2, <1>3, <1>4, <1>5, <2>1 DEF Lifecycle!RunStep, Plan
  <1> QED BY <1>1, <1>6 DEF Lifecycle!Next

(* The conditional updates of the status are the lifecycle's moves.            *)
LEMMA MovesImplement ==
    ASSUME TypeOK, ExecuteInv, LedgerInv, [Next]_vars, NEW w \in Workers,
           ToApproved(w) \/ ToDeclined(w) \/ ToExecuting(w) \/ ToFailed(w) \/ ToVerifying(w)
    PROVE  [Lifecycle!Next]_(Lifecycle!vars)
  <1> DEFINE e == call[w].ex
  <1>1. e \in Executions /\ UNCHANGED <<runbook, host, crashes>>
    BY ActiveCall
    DEF TypeOK, ToApproved, ToDeclined, ToExecuting, ToFailed, ToVerifying, Leave, history,
        startup
  <1>2. status[e] # "none" \/ UNCHANGED status
    BY DEF ToApproved, ToDeclined, ToExecuting, ToFailed, ToVerifying, Leave,
           TransitionExecution
  <1>3. UNCHANGED Plan
    <2>1. \A d \in Executions : status[d] # "none" \/ status'[d] = "none"
      BY <1>1, <1>2
      DEF ToApproved, ToDeclined, ToExecuting, ToFailed, ToVerifying, Leave,
          TransitionExecution, TypeOK, RowsType
    <2> QED BY <2>1, PlansStay
  <1>4. CASE UNCHANGED <<status, owner>>
    BY <1>1, <1>3, <1>4 DEF Lifecycle!vars, Plan
  <1>5. CASE ToApproved(w) /\ ~UNCHANGED <<status, owner>>
    <2>1. Lifecycle!Approve(e)
      BY <1>1, <1>3, <1>5
      DEF ToApproved, TransitionExecution, Lifecycle!Approve, Lifecycle!Move, Plan
    <2> QED BY <1>1, <2>1 DEF Lifecycle!Next
  <1>6. CASE ToDeclined(w) /\ ~UNCHANGED <<status, owner>>
    <2>1. Lifecycle!Decline(e)
      BY <1>1, <1>3, <1>6
      DEF ToDeclined, TransitionExecution, Lifecycle!Decline, Lifecycle!Move, Plan, history
    <2> QED BY <1>1, <2>1 DEF Lifecycle!Next
  <1>7. CASE ToExecuting(w) /\ ~UNCHANGED <<status, owner>>
    <2>1. Lifecycle!Start(e)
      BY <1>1, <1>3, <1>7
      DEF ToExecuting, TransitionExecution, Lifecycle!Start, Lifecycle!Move, Plan
    <2> QED BY <1>1, <2>1 DEF Lifecycle!Next
  <1>8. CASE ToVerifying(w) /\ ~UNCHANGED <<status, owner>>
    <2>1. /\ pc[w] = "toVerifying" /\ UNCHANGED owner
          /\ status[e] = "executing" /\ status' = [status EXCEPT ![e] = "verifying"]
      BY <1>8 DEF ToVerifying, Leave, TransitionExecution, history
    <2>2. Len(host[e]) = Len(Plan[e]) /\ AllRunsOk(e) /\ owner[e] = crashes
      BY <2>1, LoopIsOwned DEF StepPcs, LoopMatchesRecord
    <2>3. Lifecycle!AllOk(e)
      BY <2>2 DEF AllRunsOk, Lifecycle!AllOk
    <2>4. Lifecycle!Complete(e)
      BY <1>1, <1>3, <2>1, <2>2, <2>3 DEF Lifecycle!Complete, Lifecycle!Move, Plan
    <2> QED BY <1>1, <2>4 DEF Lifecycle!Next
  <1>9. CASE ToFailed(w) /\ ~UNCHANGED <<status, owner>>
    <2>1. /\ pc[w] = "toFailed" /\ UNCHANGED owner
          /\ status[e] = "executing" /\ status' = [status EXCEPT ![e] = "remediation_failed"]
      BY <1>9 DEF ToFailed, Leave, TransitionExecution, history
    <2>2. ~AllRunsOk(e) /\ owner[e] = crashes
      BY <2>1, LoopIsOwned DEF StepPcs, LoopMatchesRecord
    <2>3. ~Lifecycle!AllOk(e)
      BY <2>2 DEF AllRunsOk, Lifecycle!AllOk
    <2>4. Lifecycle!Fail(e)
      BY <1>1, <1>3, <2>1, <2>2, <2>3 DEF Lifecycle!Fail, Lifecycle!Move, Plan
    <2> QED BY <1>1, <2>4 DEF Lifecycle!Next
  <1> QED BY <1>4, <1>5, <1>6, <1>7, <1>8, <1>9

(* A goroutine's step is a step of the lifecycle or none.                      *)
LEMMA WorkerImplements ==
    ASSUME TypeOK, ExecuteInv, LedgerInv, TypeOK', LedgerInv', [Next]_vars,
           NEW w \in Workers, ByWorker(w)
    PROVE  [Lifecycle!Next]_(Lifecycle!vars)
  <1>1. CASE \/ StoreError(w)
             \/ pc[w] \notin {"createExecution", "toApproved", "toDeclined", "toExecuting",
                              "toFailed", "toVerifying", "step"}
    <2>1. UNCHANGED <<status, host, owner, crashes>>
      BY <1>1, Writers, StoreErrorReturns, ByWorkerIsLocal DEF rows, history, startup
    <2>2. UNCHANGED Plan
      BY <2>1, PlansStay
    <2> QED BY <2>1, <2>2 DEF Lifecycle!vars, Plan
  <1>2. CASE /\ ~StoreError(w)
             /\ pc[w] \in {"createExecution", "toApproved", "toDeclined", "toExecuting",
                           "toFailed", "toVerifying", "step"}
    <2>1. \/ CreateExecution(w)
          \/ ToApproved(w) \/ ToDeclined(w) \/ ToExecuting(w) \/ ToFailed(w) \/ ToVerifying(w)
          \/ \E ok \in BOOLEAN : ExecuteStep(w, ok)
      <3>1. /\ pc[w] = "createExecution" => CreateExecution(w)
            /\ pc[w] = "toApproved" => ToApproved(w)
            /\ pc[w] = "toDeclined" => ToDeclined(w)
            /\ pc[w] = "toExecuting" => ToExecuting(w)
            /\ pc[w] = "toFailed" => ToFailed(w)
            /\ pc[w] = "toVerifying" => ToVerifying(w)
            /\ pc[w] = "step" => \E ok \in BOOLEAN : ExecuteStep(w, ok)
        BY <1>2, AtLabel
      <3> QED BY <1>2, <3>1
    <2> QED BY <2>1, CreationImplements, MovesImplement, RunImplements
  <1> QED BY <1>1, <1>2

(* Of the agent's own steps only a crash and recovery's transition are seen:   *)
(* recovery closes what an earlier incarnation started.                        *)
LEMMA AgentImplements ==
    ASSUME TypeOK, ExecuteInv, LedgerInv, ByAgent
    PROVE  [Lifecycle!Next]_(Lifecycle!vars)
  <1>1. UNCHANGED <<runbook, host, owner>> /\ [Next]_vars
    BY AgentWrites DEF ByAgent
  <1>2. UNCHANGED Plan
    <2>1. \A e \in Executions : status[e] # "none" \/ status'[e] = "none"
      BY AgentWrites
    <2> QED BY <1>1, <2>1, PlansStay
  <1>3. CASE UNCHANGED <<status, crashes>>
    BY <1>1, <1>2, <1>3 DEF Lifecycle!vars, Plan
  <1>4. CASE Crash
    <2>1. crashes' = crashes + 1 /\ UNCHANGED status
      BY <1>4 DEF Crash, rows
    <2> QED BY <1>1, <1>2, <2>1 DEF Lifecycle!Next, Lifecycle!NewIncarnation, Plan
  <1>5. CASE RecoverTransition
    <2>1. PICK s \in {"executing", "verifying"} :
             status[fixing] = s /\ status' = [status EXCEPT ![fixing] = "remediation_failed"]
      BY <1>5 DEF RecoverTransition, TransitionExecution
    <2>2. fixing \in Executions /\ crashes' = crashes /\ agent = "toInterrupted"
      BY <1>5 DEF RecoverTransition, TypeOK, StartupType
    <2>3. owner[fixing] # crashes
      <3>1. owner[fixing] \in 0..(crashes - 1) /\ crashes \in Nat
        BY <2>1, <2>2 DEF LedgerInv, OwnerInv, TypeOK, StartupType
      <3> QED BY <3>1
    <2>4. Lifecycle!CloseInterrupted(fixing)
      BY <1>1, <1>2, <2>1, <2>2, <2>3 DEF Lifecycle!CloseInterrupted, Lifecycle!Move, Plan
    <2> QED BY <2>2, <2>4 DEF Lifecycle!Next
  <1>6. CASE \E t \in Tokens, e \in Executions, a \in {"execute", "rollback"} :
                MintConfirmationToken(t, e, a)
    <2>1. UNCHANGED <<status, crashes>>
      BY <1>6 DEF MintConfirmationToken, rows, startup
    <2> QED BY <1>3, <2>1
  <1>7. CASE Restart \/ RecoverList \/ RecoverAudit \/ RecoverEvent \/ RecoverError \/ UNCHANGED vars
    <2>1. UNCHANGED <<status, crashes>>
      BY <1>7
      DEF Restart, RecoverList, RecoverAudit, RecoverEvent, RecoverError, vars, rows, startup
    <2> QED BY <1>3, <2>1
  <1> QED BY <1>4, <1>5, <1>6, <1>7, AgentSteps DEF Recovery

(* The ledger implements the lifecycle: whatever the goroutines, store errors, *)
(* crashes and restarts do, each execution goes through its phases in order,   *)
(* only its owner runs its steps, one after the other while they succeed, it   *)
(* ends verifying exactly when all ran and succeeded, only a later incarnation *)
(* closes it, and a rollback undoes steps of its parent that ran, last first.  *)
THEOREM LedgerImplementsLifecycle == Spec => ImplementsLifecycle
  <1>1. TypeOK /\ ExecuteInv /\ LedgerInv /\ TypeOK' /\ LedgerInv' /\ [Next]_vars
        => [Lifecycle!Next]_(Lifecycle!vars)
    BY WorkerImplements, AgentImplements DEF ByAgent
  <1> QED
    BY <1>1, InitImplements, Inductive, LedgerInductive, PTL
    DEF Spec, ImplementsLifecycle, Lifecycle!Spec
================================================================================
