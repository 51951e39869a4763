--------------------------- MODULE RemediationProofs ---------------------------
(* Proofs about the remediation ledger, for any number of goroutines, ids,     *)
(* tokens, runbooks, crashes and store errors.  First that every step keeps    *)
(* the types, then that it keeps ExecuteInv (RemediationInv), action by        *)
(* action; the theorems are at the end.                                        *)
EXTENDS RemediationInv, FiniteSetTheorems, TLAPS

(* ContentHash maps a runbook to a hash.                                       *)
LEMMA HashType ==
    ASSUME NEW rb \in Contents
    PROVE  ContentHash(rb) \in Hashes
  BY DEF Contents, ContentHash, Hashes

(* A goroutine that is in a call has arguments, and they name an execution.    *)
LEMMA ActiveCall ==
    ASSUME WorkersType, NEW w \in Workers, pc[w] # "idle"
    PROVE  call[w] \in Calls /\ call[w].ex \in Executions
  BY DEF WorkersType, Calls

(* Moving on within a call keeps the types when the new label finds the        *)
(* arguments it needs.                                                         *)
LEMMA GotoType ==
    ASSUME WorkersType, NEW w \in Workers, NEW l \in Pcs \ {"idle"}, pc[w] # "idle",
           Goto(w, l),
           l \in ProposePcs => call[w].rb \in Contents,
           l \in ApprovePcs => call[w].tk \in Tokens
    PROVE  WorkersType'
  BY DEF WorkersType, Goto, loop

(* A goroutine that returns is idle, which needs no arguments.                 *)
LEMMA ReturnType ==
    ASSUME WorkersType, NEW w \in Workers, Return(w)
    PROVE  WorkersType'
  BY DEF WorkersType, Return, Pcs, ProposePcs, ApprovePcs

(* A request handler starts with the arguments its first label needs.          *)
LEMMA BeginType ==
    ASSUME WorkersType, NEW w \in Workers, NEW l \in Pcs \ {"idle"}, NEW c \in Calls,
           Begin(w, l, c),
           l \in ProposePcs => c.rb \in Contents,
           l \in ApprovePcs => c.tk \in Tokens
    PROVE  WorkersType'
  BY DEF WorkersType, Begin, loop

(* store.AppendAudit keeps the trail a sequence of audit types.                *)
LEMMA AuditType ==
    ASSUME TrailType, NEW e \in Executions, NEW typ \in AuditTypes, AppendAudit(e, typ),
           UNCHANGED events
    PROVE  TrailType'
  BY DEF TrailType, AppendAudit

(* store.AppendRemediationEvent keeps the trail a sequence of events.          *)
LEMMA EventType ==
    ASSUME TrailType, NEW e \in Executions, NEW ev \in Events,
           AppendRemediationEvent(e, ev), UNCHANGED audit
    PROVE  TrailType'
  BY DEF TrailType, AppendRemediationEvent

(* Each part of the type invariant only depends on its own variables.          *)
LEMMA SameTypes ==
    /\ RowsType /\ UNCHANGED rows => RowsType'
    /\ TrailType /\ UNCHANGED trail => TrailType'
    /\ TokensType /\ UNCHANGED tokens => TokensType'
    /\ HistoryType /\ UNCHANGED history => HistoryType'
    /\ StartupType /\ UNCHANGED startup => StartupType'
  BY DEF RowsType, TrailType, TokensType, HistoryType, StartupType, rows, trail,
         tokens, history, startup

(* A step that writes no row, token or host run and only moves its worker.     *)
LEMMA ReadType ==
    ASSUME TypeOK, WorkersType', UNCHANGED <<rows, trail, tokens, history, startup, errors>>
    PROVE  TypeOK'
  BY SameTypes DEF TypeOK

(* Staying within the labels of one operation keeps the call's arguments.      *)
SameOperation(at, next) ==
    /\ at \in Pcs \ {"idle"}
    /\ next \in Pcs \ {"idle"}
    /\ next \in ProposePcs => at \in ProposePcs
    /\ next \in ApprovePcs => at \in ApprovePcs

(* A move within one operation keeps the types.                                *)
LEMMA MoveType ==
    ASSUME WorkersType, NEW w \in Workers, NEW next, SameOperation(pc[w], next), Goto(w, next)
    PROVE  WorkersType'
  BY GotoType DEF SameOperation, WorkersType

(* Manager.appendAudit keeps the types.                                        *)
LEMMA appendAuditType ==
    ASSUME TypeOK, NEW w \in Workers, NEW at, NEW typ \in AuditTypes, NEW next,
           SameOperation(at, next), appendAudit(w, at, typ, next)
    PROVE  TypeOK'
  <1>1. WorkersType'
    BY MoveType DEF TypeOK, appendAudit
  <1>2. TrailType'
    BY ActiveCall, AuditType DEF TypeOK, appendAudit, SameOperation
  <1> QED
    BY <1>1, <1>2, SameTypes DEF TypeOK, appendAudit

(* An event without an index is an event.                                      *)
LEMMA PlainEvent ==
    ASSUME NEW typ \in EventTypes
    PROVE  Event(typ) \in Events
  BY DEF Event, Events

(* Manager.appendEvent keeps the types.                                        *)
LEMMA appendEventType ==
    ASSUME TypeOK, NEW w \in Workers, NEW at, NEW typ \in EventTypes, NEW next,
           SameOperation(at, next), appendEvent(w, at, typ, next)
    PROVE  TypeOK'
  <1>1. WorkersType'
    BY MoveType DEF TypeOK, appendEvent
  <1>2. TrailType'
    BY ActiveCall, EventType, PlainEvent DEF TypeOK, appendEvent, SameOperation
  <1> QED
    BY <1>1, <1>2, SameTypes DEF TypeOK, appendEvent

(* So does an event after which the call returns.                              *)
LEMMA appendLastEventType ==
    ASSUME TypeOK, NEW w \in Workers, NEW at \in Pcs \ {"idle"}, NEW typ \in EventTypes,
           appendLastEvent(w, at, typ)
    PROVE  TypeOK'
  <1>1. WorkersType'
    BY ReturnType DEF TypeOK, appendLastEvent
  <1>2. TrailType'
    BY ActiveCall, EventType, PlainEvent DEF TypeOK, appendLastEvent
  <1> QED
    BY <1>1, <1>2, SameTypes DEF TypeOK, appendLastEvent

(* The empty ledger is well typed.                                             *)
LEMMA InitTypeOK == Init => TypeOK
  BY DEF Init, TypeOK, RowsType, TrailType, TokensType, HistoryType, WorkersType,
         StartupType, Statuses, Pcs, Agents, ProposePcs, ApprovePcs

(* The labels, spelled out.                                                    *)
LEMMA Labels ==
    /\ ProposePcs \subseteq Pcs \ {"idle"}
    /\ ApprovePcs \subseteq Pcs \ {"idle"}
    /\ DeclinePcs \subseteq Pcs \ {"idle"}
    /\ DerivePcs \subseteq Pcs \ {"idle"}
    /\ ExecutePcs \subseteq Pcs \ {"idle"}
    /\ ProposePcs \cap (ApprovePcs \cup DeclinePcs \cup DerivePcs \cup ExecutePcs) = {}
    /\ ApprovePcs \cap (DeclinePcs \cup DerivePcs \cup ExecutePcs) = {}
    /\ "idle" \in Pcs
  BY DEF Pcs, ProposePcs, ApprovePcs, DeclinePcs, DerivePcs, ExecutePcs, StepPcs, EndPcs

(* What DeriveRollback builds from the parent's events is a runbook.           *)
LEMMA RollbackType ==
    ASSUME RowsType, TrailType, NEW e \in Executions, runbook[e] # None,
           NEW f \in LastFirst(Undoable(e))
    PROVE  RollbackRunbook(e, f) \in Contents
  <1> DEFINE n == Cardinality(Undoable(e))
  <1>1. runbook[e] \in Contents /\ runbook[e].steps \in Seq(Kinds)
    BY DEF RowsType, Contents
  <1>2. events[e] \in Seq(Events) /\ Len(events[e]) \in Nat
    BY DEF TrailType
  <1>3. IsFiniteSet(1..Len(events[e]))
    BY <1>2, FS_Interval
  <1>4. /\ IsFiniteSet(Successful(e))
        /\ IsFiniteSet(Undoable(e))
        /\ IsFiniteSet(Successful(e) \ Undoable(e))
    BY <1>3, FS_Subset DEF Successful, Undoable
  <1>5. n \in Nat /\ Cardinality(Successful(e) \ Undoable(e)) \in Nat
    BY <1>4, FS_CardinalityType
  <1>6. f \in [1..n -> Undoable(e)]
    BY DEF LastFirst
  <1>7. ASSUME NEW j \in 1..n
        PROVE  UndoOf[runbook[e].steps[events[e][f[j]].index]] \in Kinds
    <2> DEFINE k == f[j]
    <2>1. k \in Undoable(e)
      BY <1>6
    <2>2. /\ events[e][k].index \in 1..Len(runbook[e].steps)
          /\ UndoOf[runbook[e].steps[events[e][k].index]] # NoUndo
      BY <2>1 DEF Undoable, Successful
    <2>3. runbook[e].steps[events[e][k].index] \in Kinds
      BY <1>1, <2>2
    <2> QED
      BY <2>2, <2>3, ConstantsAssumption
  <1>8. invertSteps(e, f) \in [1..n -> Kinds]
    BY <1>7 DEF invertSteps
  <1>9. invertSteps(e, f) \in Seq(Kinds)
    BY <1>5, <1>8
  <1> QED
    BY <1>5, <1>9 DEF RollbackRunbook, rollbackForcesL3, Contents

(* Every step of Propose and of DeriveRollback keeps the types.                *)
LEMMA ProposeStepType ==
    ASSUME TypeOK, NEW w \in Workers, RunbookIsStored(w), ProposeStep(w)
    PROVE  TypeOK'
  <1>1. CASE GetRunbook(w)
    <2>1. WorkersType'
      BY <1>1, MoveType DEF GetRunbook, TypeOK, SameOperation, Pcs, ProposePcs, ApprovePcs
    <2> QED BY <1>1, <2>1, ReadType DEF GetRunbook
  <1>2. CASE CreateRunbook(w)
    <2>1. WorkersType'
      BY <1>2, MoveType, ReturnType
      DEF CreateRunbook, TypeOK, SameOperation, Pcs, ProposePcs, ApprovePcs
    <2>2. call[w].ex \in Executions /\ call[w].rb \in Contents
      BY <1>2, ActiveCall DEF CreateRunbook, TypeOK, WorkersType, ProposePcs
    <2>3. RowsType'
      BY <1>2, <2>2 DEF CreateRunbook, TypeOK, RowsType
    <2> QED BY <1>2, <2>1, <2>3, SameTypes DEF CreateRunbook, TypeOK
  <1>3. CASE CreateExecution(w)
    <2>1. WorkersType'
      BY <1>3, MoveType, ReturnType
      DEF CreateExecution, TypeOK, SameOperation, Pcs, ProposePcs, ApprovePcs
    <2>2. call[w].ex \in Executions /\ ContentHash(call[w].rb) \in Hashes
      BY <1>3, ActiveCall, HashType DEF CreateExecution, TypeOK, WorkersType, ProposePcs
    <2>3. RowsType'
      BY <1>3, <2>2 DEF CreateExecution, TypeOK, RowsType, Statuses
    <2> QED BY <1>3, <2>1, <2>3, SameTypes DEF CreateExecution, TypeOK
  <1>4. CASE AuditProposed(w)
    BY <1>4, appendAuditType
    DEF AuditProposed, SameOperation, Pcs, ProposePcs, ApprovePcs, AuditTypes
  <1>5. CASE EventProposed(w)
    BY <1>5, appendEventType, appendLastEventType
    DEF EventProposed, SameOperation, Pcs, ProposePcs, ApprovePcs, EventTypes
  <1>6. CASE AuditBlocked(w)
    BY <1>6, appendAuditType
    DEF AuditBlocked, SameOperation, Pcs, ProposePcs, ApprovePcs, AuditTypes
  <1>7. CASE EventBlocked(w)
    BY <1>7, appendLastEventType DEF EventBlocked, Pcs, ProposePcs, EventTypes
  <1>8. CASE DeriveRollback(w)
    <2>1. WorkersType'
      BY <1>8, MoveType, ReturnType
      DEF DeriveRollback, TypeOK, SameOperation, Pcs, DerivePcs, ProposePcs, ApprovePcs
    <2> QED BY <1>8, <2>1, ReadType DEF DeriveRollback
  <1>9. CASE DeriveFromEvents(w)
    <2>1. CASE Undoable(call[w].ex) = {}
      BY <1>9, <2>1, ReturnType, ReadType DEF DeriveFromEvents, TypeOK
    <2>2. CASE Undoable(call[w].ex) # {}
      <3> DEFINE e == call[w].ex
      <3>1. e \in Executions /\ runbook[e] # None
        BY <1>9, ActiveCall DEF DeriveFromEvents, TypeOK, RunbookIsStored
      <3>2. PICK f \in LastFirst(Undoable(e)) :
              /\ call' = [call EXCEPT ![w] =
                            NewCall(RollbackExecutionID(e), None, None, RollbackRunbook(e, f))]
              /\ pc' = [pc EXCEPT ![w] = "getRunbook"]
              /\ UNCHANGED loop
        BY <1>9, <2>2 DEF DeriveFromEvents
      <3>3. RollbackRunbook(e, f) \in Contents
        BY <3>1, RollbackType DEF TypeOK
      <3>4. RollbackExecutionID(e) \in Executions
        BY <3>1 DEF RollbackExecutionID, Executions
      <3> DEFINE c == NewCall(RollbackExecutionID(e), None, None, RollbackRunbook(e, f))
      <3>5. c \in Calls /\ c.rb \in Contents
        BY <3>3, <3>4 DEF NewCall, Calls
      <3> HIDE DEF c
      <3>6. WorkersType'
        BY <3>2, <3>5, Labels DEF TypeOK, WorkersType, loop, Pcs, ProposePcs, ApprovePcs, c
      <3> QED BY <1>9, <3>6, ReadType DEF DeriveFromEvents
    <2> QED BY <2>1, <2>2
  <1> QED
    BY <1>1, <1>2, <1>3, <1>4, <1>5, <1>6, <1>7, <1>8, <1>9 DEF ProposeStep

(* Every step of approveAndAckExecute and Approve keeps the types.             *)
LEMMA ApproveStepType ==
    ASSUME TypeOK, NEW w \in Workers, ApproveStep(w)
    PROVE  TypeOK'
  <1>1. CASE approveAndAckExecute(w)
    <2>1. WorkersType'
      BY <1>1, MoveType, ReturnType
      DEF approveAndAckExecute, TypeOK, SameOperation, Pcs, ApprovePcs, ProposePcs, ExecutePcs
    <2> QED BY <1>1, <2>1, ReadType DEF approveAndAckExecute
  <1>2. CASE Approve(w)
    <2>1. WorkersType'
      BY <1>2, MoveType, ReturnType
      DEF Approve, TypeOK, SameOperation, Pcs, ApprovePcs, ProposePcs
    <2> QED BY <1>2, <2>1, ReadType DEF Approve
  <1>3. CASE ConsumeToken(w)
    <2>1. WorkersType'
      BY <1>3, MoveType, ReturnType
      DEF ConsumeToken, TypeOK, SameOperation, Pcs, ApprovePcs, ProposePcs
    <2> QED BY <1>3, <2>1, ReadType DEF ConsumeToken
  <1>4. CASE MarkConfirmationTokenUsed(w)
    <2>1. WorkersType'
      BY <1>4, MoveType, ReturnType
      DEF MarkConfirmationTokenUsed, TypeOK, SameOperation, Pcs, ApprovePcs, ProposePcs
    <2>2. call[w].tk \in Tokens
      BY <1>4 DEF MarkConfirmationTokenUsed, TypeOK, WorkersType, ApprovePcs
    <2>3. TokensType'
      BY <1>4, <2>2 DEF MarkConfirmationTokenUsed, TypeOK, TokensType
    <2> QED BY <1>4, <2>1, <2>3, SameTypes DEF MarkConfirmationTokenUsed, TypeOK
  <1>5. CASE ToApproved(w)
    <2>1. WorkersType'
      BY <1>5, MoveType, ReturnType
      DEF ToApproved, TypeOK, SameOperation, Pcs, ApprovePcs, ProposePcs
    <2>2. call[w].tk \in Tokens /\ call[w].ex \in Executions
      BY <1>5, ActiveCall DEF ToApproved, TypeOK, WorkersType, ApprovePcs
    <2>3. RowsType' /\ HistoryType'
      BY <1>5, <2>2
      DEF ToApproved, TransitionExecution, TypeOK, RowsType, HistoryType, Statuses
    <2> QED BY <1>5, <2>1, <2>3, SameTypes DEF ToApproved, TypeOK
  <1>6. CASE AuditApproved(w)
    BY <1>6, appendAuditType
    DEF AuditApproved, SameOperation, Pcs, ApprovePcs, ProposePcs, AuditTypes
  <1>7. CASE EventApproved(w)
    BY <1>7, appendEventType
    DEF EventApproved, SameOperation, Pcs, ApprovePcs, ProposePcs, ExecutePcs, EventTypes
  <1> QED
    BY <1>1, <1>2, <1>3, <1>4, <1>5, <1>6, <1>7 DEF ApproveStep

(* Every step of Decline keeps the types.                                      *)
LEMMA DeclineStepType ==
    ASSUME TypeOK, NEW w \in Workers, DeclineStep(w)
    PROVE  TypeOK'
  <1>1. CASE Decline(w)
    <2>1. WorkersType'
      BY <1>1, MoveType, ReturnType
      DEF Decline, TypeOK, SameOperation, Pcs, DeclinePcs, ApprovePcs, ProposePcs
    <2> QED BY <1>1, <2>1, ReadType DEF Decline
  <1>2. CASE ToDeclined(w)
    <2>1. WorkersType'
      BY <1>2, MoveType, ReturnType
      DEF ToDeclined, TypeOK, SameOperation, Pcs, DeclinePcs, ApprovePcs, ProposePcs
    <2>2. call[w].ex \in Executions
      BY <1>2, ActiveCall DEF ToDeclined, TypeOK
    <2>3. RowsType'
      BY <1>2, <2>2 DEF ToDeclined, TransitionExecution, TypeOK, RowsType, Statuses
    <2> QED BY <1>2, <2>1, <2>3, SameTypes DEF ToDeclined, TypeOK
  <1>3. CASE AuditDeclined(w)
    BY <1>3, appendAuditType
    DEF AuditDeclined, SameOperation, Pcs, DeclinePcs, ApprovePcs, ProposePcs, AuditTypes
  <1>4. CASE EventDeclined(w)
    BY <1>4, appendLastEventType DEF EventDeclined, Pcs, DeclinePcs, EventTypes
  <1> QED
    BY <1>1, <1>2, <1>3, <1>4 DEF DeclineStep

(* The two loop heads move the worker and set its index.                       *)
LEMMA NextStepType ==
    ASSUME WorkersType, NEW w \in Workers, pc[w] \in StepPcs, NEW i \in Nat, NextStep(w, i)
    PROVE  WorkersType'
  BY DEF WorkersType, NextStep, Pcs, ExecutePcs, StepPcs, ProposePcs, ApprovePcs

(* The same for the loop over the verification results.                        *)
LEMMA NextVerificationType ==
    ASSUME WorkersType, NEW w \in Workers, pc[w] \in EndPcs, NEW i \in Nat,
           NextVerification(w, i)
    PROVE  WorkersType'
  BY DEF WorkersType, NextVerification, Pcs, ExecutePcs, EndPcs, ProposePcs, ApprovePcs

(* Both ways out of executing keep the types.                                  *)
LEMMA LeaveType ==
    ASSUME TypeOK, NEW w \in Workers, NEW at, NEW to \in Statuses, NEW next,
           SameOperation(at, next), Leave(w, at, to, next)
    PROVE  TypeOK'
  <1>1. WorkersType'
    BY MoveType, ReturnType DEF Leave, TypeOK
  <1>2. call[w].ex \in Executions
    BY ActiveCall DEF Leave, TypeOK, SameOperation
  <1>3. RowsType'
    BY <1>2 DEF Leave, TransitionExecution, TypeOK, RowsType
  <1> QED BY <1>1, <1>3, SameTypes DEF Leave, TypeOK

(* Every step of Execute keeps the types.                                      *)
LEMMA ExecuteLoopType ==
    ASSUME TypeOK, NEW w \in Workers, ExecuteLoop(w)
    PROVE  TypeOK'
  <1> USE DEF TypeOK
  <1>1. CASE Execute(w)
    <2>1. WorkersType'
      BY <1>1, MoveType, ReturnType
      DEF Execute, SameOperation, Pcs, ExecutePcs, ApprovePcs, ProposePcs
    <2> QED BY <1>1, <2>1, ReadType DEF Execute
  <1>2. CASE ToExecuting(w)
    <2>1. WorkersType'
      BY <1>2, MoveType, ReturnType
      DEF ToExecuting, SameOperation, Pcs, ExecutePcs, StepPcs, ApprovePcs, ProposePcs
    <2>2. call[w].ex \in Executions /\ crashes \in Nat
      BY <1>2, ActiveCall DEF ToExecuting, StartupType
    <2>3. RowsType' /\ HistoryType'
      BY <1>2, <2>2, ZenonT(30)
      DEF ToExecuting, TransitionExecution, RowsType, HistoryType, Statuses
    <2> QED BY <1>2, <2>1, <2>3, SameTypes DEF ToExecuting
  <1>3. CASE AuditStarted(w)
    BY <1>3, appendAuditType DEF AuditStarted, SameOperation, Pcs, ApprovePcs, ProposePcs, ExecutePcs, StepPcs, EndPcs, AuditTypes
  <1>4. CASE EventStarted(w)
    <2>1. WorkersType'
      BY <1>4, NextStepType DEF EventStarted, StepPcs
    <2>2. TrailType'
      BY <1>4, ActiveCall, EventType, PlainEvent DEF EventStarted, EventTypes
    <2> QED BY <1>4, <2>1, <2>2, SameTypes DEF EventStarted
  <1>5. CASE \E ok \in BOOLEAN : ExecuteStep(w, ok)
    <2>1. PICK ok \in BOOLEAN : ExecuteStep(w, ok)
      BY <1>5
    <2>2. WorkersType'
      BY <2>1 DEF ExecuteStep, WorkersType, Pcs, ExecutePcs, StepPcs, ProposePcs, ApprovePcs
    <2>3. call[w].ex \in Executions /\ [index |-> idx[w], ok |-> ok] \in Runs
      BY <2>1, ActiveCall DEF ExecuteStep, WorkersType, Runs
    <2>4. HistoryType'
      BY <2>1, <2>3 DEF ExecuteStep, HistoryType
    <2> QED BY <2>1, <2>2, <2>4, SameTypes DEF ExecuteStep
  <1>6. CASE EventStep(w)
    <2>1. WorkersType'
      BY <1>6, MoveType DEF EventStep, SameOperation, Pcs, ApprovePcs, ProposePcs, ExecutePcs, StepPcs, EndPcs
    <2>2. StepResult(idx[w], stepOk[w]) \in Events
      BY DEF WorkersType, StepResult, Events, EventTypes
    <2>3. TrailType'
      BY <1>6, <2>2, ActiveCall, EventType DEF EventStep
    <2> QED BY <1>6, <2>1, <2>3, SameTypes DEF EventStep
  <1>7. CASE AuditStep(w)
    <2>1. idx[w] + 1 \in Nat
      BY DEF WorkersType
    <2>2. WorkersType'
      BY <1>7, <2>1, NextStepType, MoveType DEF AuditStep, SameOperation, Pcs, ApprovePcs, ProposePcs, ExecutePcs, StepPcs, EndPcs
    <2>3. TrailType'
      BY <1>7, ActiveCall, AuditType DEF AuditStep, AuditTypes
    <2> QED BY <1>7, <2>2, <2>3, SameTypes DEF AuditStep
  <1>8. CASE ToFailed(w)
    BY <1>8, LeaveType DEF ToFailed, Statuses, SameOperation, Pcs, ApprovePcs, ProposePcs, ExecutePcs, StepPcs, EndPcs
  <1>9. CASE AuditFailed(w)
    BY <1>9, appendAuditType DEF AuditFailed, SameOperation, Pcs, ApprovePcs, ProposePcs, ExecutePcs, StepPcs, EndPcs, AuditTypes
  <1>10. CASE EventFailed(w)
    BY <1>10, appendLastEventType DEF EventFailed, Pcs, ExecutePcs, EndPcs, EventTypes
  <1>11. CASE ToVerifying(w)
    BY <1>11, LeaveType DEF ToVerifying, Statuses, SameOperation, Pcs, ApprovePcs, ProposePcs, ExecutePcs, StepPcs, EndPcs
  <1>12. CASE AuditVerifying(w)
    BY <1>12, appendAuditType DEF AuditVerifying, SameOperation, Pcs, ApprovePcs, ProposePcs, ExecutePcs, StepPcs, EndPcs, AuditTypes
  <1>13. CASE EventVerifying(w)
    <2>1. WorkersType'
      BY <1>13, NextVerificationType DEF EventVerifying, EndPcs
    <2>2. TrailType'
      BY <1>13, ActiveCall, EventType, PlainEvent DEF EventVerifying, EventTypes
    <2> QED BY <1>13, <2>1, <2>2, SameTypes DEF EventVerifying
  <1>14. CASE EventStepVerification(w)
    <2>1. idx[w] + 1 \in Nat
      BY DEF WorkersType
    <2>2. WorkersType'
      BY <1>14, <2>1, NextVerificationType DEF EventStepVerification, EndPcs
    <2>3. TrailType'
      BY <1>14, ActiveCall, EventType, PlainEvent DEF EventStepVerification, EventTypes
    <2> QED BY <1>14, <2>2, <2>3, SameTypes DEF EventStepVerification
  <1>15. CASE EventInternalVerification(w)
    BY <1>15, appendLastEventType
    DEF EventInternalVerification, Pcs, ExecutePcs, EndPcs, EventTypes
  <1> QED
    BY <1>1, <1>2, <1>3, <1>4, <1>5, <1>6, <1>7, <1>8, <1>9, <1>10, <1>11, <1>12, <1>13,
       <1>14, <1>15 DEF ExecuteLoop

(* A new request keeps the types.                                              *)
LEMMA RequestType ==
    ASSUME TypeOK, NEW w \in Workers, Request(w)
    PROVE  TypeOK'
  <1> USE DEF TypeOK
  <1>1. ASSUME NEW p \in Primaries, NEW rb \in Runbooks, Propose(w, p, rb)
        PROVE  TypeOK'
    <2> DEFINE c == NewCall(<<p, "execute">>, None, None, rb)
    <2>1. c \in Calls /\ c.rb \in Contents
      BY ConstantsAssumption DEF NewCall, Calls, Executions
    <2>2. Begin(w, "getRunbook", c)
      BY <1>1 DEF Propose
    <2> HIDE DEF c
    <2>3. WorkersType'
      BY <2>1, <2>2, BeginType DEF Pcs, ProposePcs, ApprovePcs
    <2> QED BY <1>1, <2>3, ReadType DEF Propose
  <1>2. ASSUME NEW p \in Primaries, RequestRollback(w, p)
        PROVE  TypeOK'
    <2> DEFINE c == NewCall(<<p, "execute">>, None, None, None)
    <2>1. c \in Calls
      BY DEF NewCall, Calls, Executions
    <2>2. Begin(w, "derive", c)
      BY <1>2 DEF RequestRollback
    <2> HIDE DEF c
    <2>3. WorkersType'
      BY <2>1, <2>2, BeginType DEF Pcs, ProposePcs, ApprovePcs, DerivePcs
    <2> QED BY <1>2, <2>3, ReadType DEF RequestRollback
  <1>3. ASSUME NEW e \in Executions, NEW x \in Executions, NEW t \in Tokens,
               RequestExecute(w, e, x, t)
        PROVE  TypeOK'
    <2> DEFINE c == NewCall(e, runbookHash[x], t, None)
    <2>1. runbookHash[x] \in Hashes
      BY <1>3 DEF RequestExecute, RowsType
    <2>2. c \in Calls /\ c.tk \in Tokens
      BY <2>1 DEF NewCall, Calls
    <2>3. Begin(w, "getForApproval", c)
      BY <1>3 DEF RequestExecute
    <2> HIDE DEF c
    <2>4. WorkersType'
      BY <2>2, <2>3, BeginType DEF Pcs, ProposePcs, ApprovePcs
    <2> QED BY <1>3, <2>4, ReadType DEF RequestExecute
  <1>4. ASSUME NEW e \in Executions, RequestDecline(w, e)
        PROVE  TypeOK'
    <2> DEFINE c == NewCall(e, None, None, None)
    <2>1. c \in Calls
      BY DEF NewCall, Calls
    <2>2. Begin(w, "decline", c)
      BY <1>4 DEF RequestDecline
    <2> HIDE DEF c
    <2>3. WorkersType'
      BY <2>1, <2>2, BeginType DEF Pcs, ProposePcs, ApprovePcs, DeclinePcs
    <2> QED BY <1>4, <2>3, ReadType DEF RequestDecline
  <1> QED
    BY <1>1, <1>2, <1>3, <1>4 DEF Request

(* A failing store call keeps the types.                                       *)
LEMMA StoreErrorType ==
    ASSUME TypeOK, NEW w \in Workers, StoreError(w)
    PROVE  TypeOK'
  BY ReturnType, SameTypes DEF StoreError, TypeOK

(* MintConfirmationToken keeps the types.                                      *)
LEMMA MintType ==
    ASSUME TypeOK, NEW t \in Tokens, NEW e \in Executions, NEW a \in {"execute", "rollback"},
           MintConfirmationToken(t, e, a)
    PROVE  TypeOK'
  <1>1. Incident(e) \in Incidents
    BY ConstantsAssumption DEF Incident, Executions
  <1>2. runbookHash[e] \in Hashes
    BY DEF MintConfirmationToken, TypeOK, RowsType
  <1>3. <<a, Incident(e), runbookHash[e]>> \in Bindings
    BY <1>1, <1>2 DEF Bindings
  <1>4. TokensType'
    BY <1>3 DEF MintConfirmationToken, TypeOK, TokensType
  <1>5. WorkersType'
    BY DEF MintConfirmationToken, TypeOK, WorkersType, loop
  <1> QED BY <1>4, <1>5, SameTypes DEF MintConfirmationToken, TypeOK

(* A crash keeps the types.                                                    *)
LEMMA CrashType ==
    ASSUME TypeOK, Crash
    PROVE  TypeOK'
  <1>1. WorkersType'
    BY DEF Crash, WorkersType, Pcs, ProposePcs, ApprovePcs
  <1>2. StartupType'
    BY DEF Crash, TypeOK, StartupType, Agents
  <1> QED BY <1>1, <1>2, SameTypes DEF Crash, TypeOK

(* Taking the next in-flight row keeps the startup well typed.                 *)
LEMMA RecoverNextType ==
    ASSUME NEW S \in SUBSET Executions, RecoverNext(S), crashes \in Nat, UNCHANGED crashes
    PROVE  StartupType'
  BY DEF RecoverNext, StartupType, Agents

(* Every step of RecoverInterrupted keeps the types.                           *)
LEMMA RecoveryType ==
    ASSUME TypeOK, Recovery \/ RecoverError
    PROVE  TypeOK'
  <1> USE DEF TypeOK
  <1>1. UNCHANGED <<pc, call, loop>> => WorkersType'
    BY DEF WorkersType, loop
  <1>2. CASE Restart
    <2>1. StartupType'
      BY <1>2 DEF Restart, StartupType, Agents
    <2> QED BY <1>1, <1>2, <2>1, SameTypes DEF Restart
  <1>3. CASE RecoverList
    <2>1. StartupType'
      BY <1>3, RecoverNextType DEF RecoverList, InFlightExecutions, StartupType
    <2> QED BY <1>1, <1>3, <2>1, SameTypes DEF RecoverList
  <1>4. CASE RecoverTransition
    <2>1. StartupType'
      BY <1>4 DEF RecoverTransition, StartupType, Agents
    <2>2. RowsType'
      BY <1>4 DEF RecoverTransition, TransitionExecution, StartupType, RowsType, Statuses
    <2> QED BY <1>1, <1>4, <2>1, <2>2, SameTypes DEF RecoverTransition
  <1>5. CASE RecoverAudit
    <2>1. StartupType'
      BY <1>5 DEF RecoverAudit, StartupType, Agents
    <2>2. fixing \in Executions
      BY <1>5 DEF RecoverAudit, StartupType
    <2>3. TrailType'
      BY <1>5, <2>2, AuditType DEF RecoverAudit, AuditTypes
    <2> QED BY <1>1, <1>5, <2>1, <2>3, SameTypes DEF RecoverAudit
  <1>6. CASE RecoverEvent
    <2>1. StartupType'
      BY <1>6, RecoverNextType DEF RecoverEvent, StartupType
    <2>2. fixing \in Executions
      BY <1>6 DEF RecoverEvent, StartupType
    <2>3. TrailType'
      BY <1>6, <2>2, EventType, PlainEvent DEF RecoverEvent, EventTypes
    <2> QED BY <1>1, <1>6, <2>1, <2>3, SameTypes DEF RecoverEvent
  <1>7. CASE RecoverError
    <2>1. StartupType'
      BY <1>7 DEF RecoverError, StartupType, Agents
    <2> QED BY <1>1, <1>7, <2>1, SameTypes DEF RecoverError
  <1> QED
    BY <1>2, <1>3, <1>4, <1>5, <1>6, <1>7 DEF Recovery

(* Every step keeps the types; DeriveFromEvents needs to know that the runbook *)
(* it inverts is there.                                                        *)
LEMMA NextType ==
    ASSUME TypeOK, \A w \in Workers : RunbookIsStored(w), [Next]_vars
    PROVE  TypeOK'
  <1>1. CASE UNCHANGED vars
    <2>1. WorkersType'
      BY <1>1 DEF TypeOK, WorkersType, vars, loop
    <2> QED BY <1>1, <2>1, SameTypes DEF TypeOK, vars
  <1>2. CASE Next
    BY <1>2, ProposeStepType, ApproveStepType, DeclineStepType, ExecuteLoopType, RequestType,
       StoreErrorType, MintType, CrashType, RecoveryType
    DEF Next, Step
  <1> QED BY <1>1, <1>2

--------------------------------------------------------------------------------
(* Preservation of ExecuteInv.                                                 *)

(* Only worker w moves.                                                        *)
OnlyWorker(w) ==
    /\ pc' = [pc EXCEPT ![w] = pc'[w]]
    /\ call' = [call EXCEPT ![w] = call'[w]]
    /\ idx' = [idx EXCEPT ![w] = idx'[w]]
    /\ stepOk' = [stepOk EXCEPT ![w] = stepOk'[w]]

(* A worker that is in a call may take its step: the agent is up.              *)
LEMMA AgentIsUp ==
    ASSUME NobodyWhileDown, NEW w \in Workers, pc[w] # "idle"
    PROVE  agent = "up"
  BY DEF NobodyWhileDown

(* What the other goroutines rely on is kept by a step that keeps the rows     *)
(* and the host they look at.                                                  *)
LEMMA OthersKeepTheirInv ==
    ASSUME TypeOK, NEW w \in Workers, NEW v \in Workers, v # w, OnlyWorker(w),
           UNCHANGED <<status, runbook, host>>, WorkerInv(v)
    PROVE  WorkerInv(v)'
  <1>1. /\ pc'[v] = pc[v] /\ call'[v] = call[v]
        /\ idx'[v] = idx[v] /\ stepOk'[v] = stepOk[v]
    BY DEF TypeOK, WorkersType, OnlyWorker
  <1> QED
    BY <1>1 DEF WorkerInv, OwnsExecution, RunbookIsStored, LoopMatchesHost, ParentIsDone

(* A step that leaves the rows and the host alone only has to establish its    *)
(* own worker's new label.                                                     *)
LEMMA Quiet ==
    ASSUME TypeOK, ExecuteInv, NEW w \in Workers, agent = "up", UNCHANGED agent,
           OnlyWorker(w), UNCHANGED <<status, runbook, host>>, WorkerInv(w)',
           pc'[w] \in StepPcs => pc[w] \in StepPcs /\ call'[w] = call[w]
    PROVE  ExecuteInv'
  <1>1. \A v \in Workers : WorkerInv(v)'
    BY OthersKeepTheirInv DEF ExecuteInv
  <1>2. OwnerIsAlone'
    <2> SUFFICES ASSUME NEW u \in Workers, NEW v \in Workers, pc'[u] \in StepPcs,
                        pc'[v] \in StepPcs, call'[u].ex = call'[v].ex
                 PROVE  u = v
      BY DEF OwnerIsAlone
    <2>1. \A x \in Workers : pc'[x] \in StepPcs => pc[x] \in StepPcs /\ call'[x] = call[x]
      BY DEF OnlyWorker, TypeOK, WorkersType
    <2> QED BY <2>1 DEF ExecuteInv, OwnerIsAlone
  <1>3. NobodyWhileDown'
    BY DEF NobodyWhileDown
  <1>4. NothingRanEarly' /\ RollbackFollowsParent' /\ RunsInOrderOnce'
    BY DEF ExecuteInv, NothingRanEarly, RollbackFollowsParent, RunsInOrderOnce
  <1> QED BY <1>1, <1>2, <1>3, <1>4 DEF ExecuteInv

(* Labels at which a worker need know nothing of the ledger.                   *)
Ignorant == {"idle", "execute", "derive"} \cup ApprovePcs \cup DeclinePcs

(* Such a worker keeps its part of the invariant whatever happens to the       *)
(* rows.                                                                       *)
LEMMA IgnorantInv ==
    ASSUME NEW w \in Workers, pc'[w] \in Ignorant,
           pc'[w] = "derive" => call'[w].ex[2] = "execute"
    PROVE  WorkerInv(w)' /\ pc'[w] \notin StepPcs
  BY DEF Ignorant, WorkerInv, OwnsExecution, RunbookIsStored, LoopMatchesHost, ParentIsDone,
         ApprovePcs, DeclinePcs, StepPcs, EndPcs, ProposePcs, DerivePcs

(* Goto, Return and Begin change one goroutine only: first Goto,               *)
LEMMA GotoIsLocal ==
    ASSUME TypeOK, NEW w \in Workers, NEW l, Goto(w, l)
    PROVE  /\ OnlyWorker(w)
           /\ pc'[w] = l /\ call'[w] = call[w] /\ idx'[w] = idx[w] /\ stepOk'[w] = stepOk[w]
  BY DEF TypeOK, WorkersType, Goto, loop, OnlyWorker

(* then Return,                                                                *)
LEMMA ReturnIsLocal ==
    ASSUME TypeOK, NEW w \in Workers, Return(w)
    PROVE  OnlyWorker(w) /\ pc'[w] = "idle"
  BY DEF TypeOK, WorkersType, Return, OnlyWorker

(* then Begin.                                                                 *)
LEMMA BeginIsLocal ==
    ASSUME TypeOK, NEW w \in Workers, NEW l, NEW c, Begin(w, l, c)
    PROVE  OnlyWorker(w) /\ agent = "up" /\ pc'[w] = l /\ call'[w] = c
  BY DEF TypeOK, WorkersType, Begin, loop, OnlyWorker

(* Returning without a write keeps the invariant.                              *)
LEMMA QuietReturn ==
    ASSUME TypeOK, ExecuteInv, NEW w \in Workers, pc[w] # "idle", UNCHANGED agent,
           UNCHANGED <<status, runbook, host>>, Return(w)
    PROVE  ExecuteInv'
  BY AgentIsUp, ReturnIsLocal, IgnorantInv, Quiet DEF ExecuteInv, Ignorant

(* So does moving to a label that presumes nothing,                            *)
LEMMA QuietIgnorant ==
    ASSUME TypeOK, ExecuteInv, NEW w \in Workers, pc[w] # "idle", UNCHANGED agent,
           UNCHANGED <<status, runbook, host>>, NEW l \in Ignorant \ {"derive"}, Goto(w, l)
    PROVE  ExecuteInv'
  BY AgentIsUp, GotoIsLocal, IgnorantInv, Quiet DEF ExecuteInv, Ignorant

(* and moving on within Propose.                                               *)
LEMMA QuietPropose ==
    ASSUME TypeOK, ExecuteInv, NEW w \in Workers, pc[w] \in ProposePcs, UNCHANGED agent,
           UNCHANGED <<status, runbook, host>>, NEW l \in ProposePcs, Goto(w, l)
    PROVE  ExecuteInv'
  <1>1. WorkerInv(w)' /\ l \notin StepPcs
    BY GotoIsLocal
    DEF ExecuteInv, WorkerInv, OwnsExecution, RunbookIsStored, LoopMatchesHost, ParentIsDone,
        StepPcs, EndPcs, ProposePcs, DerivePcs
  <1> QED
    BY <1>1, AgentIsUp, GotoIsLocal, Quiet DEF ExecuteInv, ProposePcs

(* A worker moves one status, of an execution no other worker is running,      *)
(* never away from a status a rollback may rest on and never back to one       *)
(* Execute has not seen.                                                       *)
LEMMA StatusMove ==
    ASSUME TypeOK, ExecuteInv, NEW w \in Workers, agent = "up", UNCHANGED agent, OnlyWorker(w),
           NEW e \in Executions, NEW to, status' = [status EXCEPT ![e] = to],
           UNCHANGED <<runbook, host>>,
           \A v \in Workers \ {w} : pc[v] \in StepPcs => call[v].ex # e,
           status[e] \notin DerivableStatuses,
           to \in NotStarted => status[e] \in NotStarted,
           e[2] = "rollback" => status[Parent(e)] \in DerivableStatuses,
           WorkerInv(w)',
           pc'[w] \in StepPcs => call'[w].ex = e
    PROVE  ExecuteInv'
  <1>0. \A d \in Executions : status'[d] = IF d = e THEN to ELSE status[d]
    BY DEF TypeOK, RowsType
  <1>1. \A d \in Executions : status[d] \in DerivableStatuses => status'[d] = status[d]
    BY <1>0
  <1>2. ASSUME NEW v \in Workers, v # w
        PROVE  WorkerInv(v)' /\ pc'[v] = pc[v] /\ call'[v] = call[v]
    <2>1. /\ pc'[v] = pc[v] /\ call'[v] = call[v]
          /\ idx'[v] = idx[v] /\ stepOk'[v] = stepOk[v]
      BY <1>2 DEF TypeOK, WorkersType, OnlyWorker
    <2>2. pc[v] # "idle" => call[v].ex \in Executions /\ Parent(call[v].ex) \in Executions
      BY ActiveCall DEF TypeOK, Executions, Parent
    <2>3. OwnsExecution(v)'
      BY <1>0, <1>2, <2>1, <2>2 DEF ExecuteInv, WorkerInv, OwnsExecution, StepPcs
    <2>4. RunbookIsStored(v)' /\ LoopMatchesHost(v)'
      BY <2>1 DEF ExecuteInv, WorkerInv, RunbookIsStored, LoopMatchesHost
    <2>5. ParentIsDone(v)'
      BY <1>1, <2>1, <2>2 DEF ExecuteInv, WorkerInv, ParentIsDone, ProposePcs
    <2> QED BY <2>1, <2>3, <2>4, <2>5 DEF WorkerInv
  <1>3. OwnerIsAlone'
    <2> SUFFICES ASSUME NEW u \in Workers, NEW v \in Workers, pc'[u] \in StepPcs,
                        pc'[v] \in StepPcs, call'[u].ex = call'[v].ex
                 PROVE  u = v
      BY DEF OwnerIsAlone
    <2>1. CASE u = w \/ v = w
      BY <1>2, <2>1
    <2>2. CASE u # w /\ v # w
      BY <1>2, <2>2 DEF ExecuteInv, OwnerIsAlone
    <2> QED BY <2>1, <2>2
  <1>4. NobodyWhileDown'
    BY DEF NobodyWhileDown
  <1>5. NothingRanEarly'
    BY <1>0 DEF ExecuteInv, NothingRanEarly
  <1>6. RollbackFollowsParent'
    <2> SUFFICES ASSUME NEW d \in Executions, d[2] = "rollback",
                        runbook'[d] # None \/ status'[d] # "none"
                 PROVE  status'[Parent(d)] \in DerivableStatuses
      BY DEF RollbackFollowsParent, Parent
    <2>1. Parent(d) \in Executions
      BY DEF Executions, Parent
    <2>2. status[Parent(d)] \in DerivableStatuses
      BY <1>0 DEF ExecuteInv, RollbackFollowsParent
    <2> QED BY <1>1, <2>1, <2>2
  <1>7. RunsInOrderOnce'
    BY DEF ExecuteInv, RunsInOrderOnce
  <1> QED BY <1>2, <1>3, <1>4, <1>5, <1>6, <1>7 DEF ExecuteInv

(* CreateRunbook writes the runbook of an id that has no row yet.              *)
LEMMA CreateRunbookInv ==
    ASSUME TypeOK, ExecuteInv, NEW w \in Workers, CreateRunbook(w)
    PROVE  ExecuteInv'
  <1>1. CASE runbook[call[w].ex] # None
    BY <1>1, QuietReturn DEF CreateRunbook, startup, history
  <1>2. CASE runbook[call[w].ex] = None
    <2> DEFINE e == call[w].ex
    <2>1. /\ e \in Executions /\ pc[w] \in ProposePcs /\ agent = "up" /\ agent' = agent
          /\ Goto(w, "createExecution") /\ runbook' = [runbook EXCEPT ![e] = call[w].rb]
          /\ UNCHANGED <<status, host>>
      BY <1>2, ActiveCall, AgentIsUp
      DEF CreateRunbook, TypeOK, ProposePcs, ExecuteInv, startup, history
    <2>2. OnlyWorker(w) /\ pc'[w] = "createExecution" /\ call'[w] = call[w]
      BY <2>1, GotoIsLocal
    <2>3. \A d \in Executions : runbook[d] # None => runbook'[d] = runbook[d]
      BY <1>2, <2>1 DEF TypeOK, RowsType
    <2>4. WorkerInv(w)'
      BY <2>1, <2>2
      DEF ExecuteInv, WorkerInv, OwnsExecution, RunbookIsStored, LoopMatchesHost, ParentIsDone,
          StepPcs, EndPcs, ProposePcs, DerivePcs
    <2>5. ASSUME NEW v \in Workers, v # w
          PROVE  WorkerInv(v)' /\ pc'[v] = pc[v] /\ call'[v] = call[v]
      <3>1. /\ pc'[v] = pc[v] /\ call'[v] = call[v]
            /\ idx'[v] = idx[v] /\ stepOk'[v] = stepOk[v]
        BY <2>2, <2>5 DEF TypeOK, WorkersType, OnlyWorker
      <3>2. pc[v] # "idle" => call[v].ex \in Executions
        BY ActiveCall DEF TypeOK
      <3>3. RunbookIsStored(v) /\ RunbookIsStored(v)'
        BY <2>3, <3>1, <3>2
        DEF ExecuteInv, WorkerInv, RunbookIsStored, StepPcs, EndPcs
      <3>4. LoopMatchesHost(v)'
        BY <2>1, <2>3, <3>1, <3>2, <3>3
        DEF ExecuteInv, WorkerInv, LoopMatchesHost, RunbookIsStored, StepPcs
      <3>5. OwnsExecution(v)' /\ ParentIsDone(v)'
        BY <2>1, <3>1 DEF ExecuteInv, WorkerInv, OwnsExecution, ParentIsDone
      <3> QED BY <3>1, <3>3, <3>4, <3>5 DEF WorkerInv
    <2>6. OwnerIsAlone'
      BY <2>2, <2>5 DEF ExecuteInv, OwnerIsAlone, StepPcs
    <2>7. NobodyWhileDown'
      BY <2>1 DEF NobodyWhileDown
    <2>8. NothingRanEarly'
      BY <2>1 DEF ExecuteInv, NothingRanEarly
    <2>9. RollbackFollowsParent'
      BY <2>1 DEF ExecuteInv, RollbackFollowsParent, WorkerInv, ParentIsDone, TypeOK, RowsType
    <2>10. RunsInOrderOnce'
      BY <2>1, <2>3 DEF ExecuteInv, RunsInOrderOnce
    <2> QED BY <2>4, <2>5, <2>6, <2>7, <2>8, <2>9, <2>10 DEF ExecuteInv
  <1> QED BY <1>1, <1>2

(* CreateExecution adds a row nobody runs.                                     *)
LEMMA CreateExecutionInv ==
    ASSUME TypeOK, ExecuteInv, NEW w \in Workers, CreateExecution(w)
    PROVE  ExecuteInv'
  <1> DEFINE e == call[w].ex
  <1>1. CASE status[e] # "none"
    BY <1>1, QuietReturn DEF CreateExecution, startup, history
  <1>2. CASE status[e] = "none"
    <2> DEFINE to == IF call[w].rb.blocked THEN "blocked_l3" ELSE "proposed"
    <2>1. /\ e \in Executions /\ pc[w] \in ProposePcs /\ agent = "up" /\ UNCHANGED agent
          /\ Goto(w, "auditProposed") /\ status' = [status EXCEPT ![e] = to]
          /\ UNCHANGED <<runbook, host>>
      BY <1>2, ActiveCall, AgentIsUp
      DEF CreateExecution, TypeOK, ProposePcs, ExecuteInv, startup, history
    <2>2. OnlyWorker(w) /\ pc'[w] = "auditProposed" /\ call'[w] = call[w]
      BY <2>1, GotoIsLocal
    <2>3. \A v \in Workers : pc[v] \in StepPcs => call[v].ex # e
      BY <1>2 DEF ExecuteInv, WorkerInv, OwnsExecution
    <2>4. e[2] = "rollback" => status[Parent(e)] \in DerivableStatuses
      BY <2>1 DEF ExecuteInv, WorkerInv, ParentIsDone
    <2>5. e[2] = "rollback" => status'[Parent(e)] \in DerivableStatuses
      BY <1>2, <2>1, <2>4 DEF TypeOK, RowsType, Executions, Parent, DerivableStatuses
    <2>6. WorkerInv(w)'
      BY <2>1, <2>2, <2>5
      DEF WorkerInv, OwnsExecution, RunbookIsStored, LoopMatchesHost, ParentIsDone,
          StepPcs, EndPcs, ProposePcs, DerivePcs
    <2> QED
      BY <1>2, <2>1, <2>2, <2>3, <2>4, <2>6, StatusMove
      DEF NotStarted, DerivableStatuses, StepPcs
  <1> QED BY <1>1, <1>2

(* DeriveRollback's check of the status holds from then on.                    *)
LEMMA DeriveRollbackInv ==
    ASSUME TypeOK, ExecuteInv, NEW w \in Workers, DeriveRollback(w)
    PROVE  ExecuteInv'
  <1> USE DEF DeriveRollback, startup, history, rows
  <1>1. CASE Return(w)
    BY <1>1, QuietReturn
  <1>2. CASE Goto(w, "successfulSteps") /\ ~Return(w)
    <2>1. WorkerInv(w)'
      BY <1>2, GotoIsLocal, ReturnIsLocal
      DEF ExecuteInv, WorkerInv, OwnsExecution, RunbookIsStored, LoopMatchesHost, ParentIsDone,
          StepPcs, EndPcs, ProposePcs, DerivePcs
    <2> QED
      BY <1>2, <2>1, AgentIsUp, GotoIsLocal, Quiet DEF ExecuteInv, StepPcs
  <1> QED BY <1>1, <1>2

(* DeriveRollback's second half turns the call into a proposal of the          *)
(* rollback.                                                                   *)
LEMMA DeriveFromEventsInv ==
    ASSUME TypeOK, ExecuteInv, NEW w \in Workers, DeriveFromEvents(w)
    PROVE  ExecuteInv'
  <1> DEFINE e == call[w].ex
  <1>1. CASE Undoable(e) = {}
    BY <1>1, QuietReturn DEF DeriveFromEvents, startup, history, rows
  <1>2. CASE Undoable(e) # {}
    <2>1. /\ e \in Executions /\ e[2] = "execute" /\ status[e] \in DerivableStatuses
          /\ agent = "up"
      BY ActiveCall, AgentIsUp
      DEF DeriveFromEvents, TypeOK, ExecuteInv, WorkerInv, ParentIsDone, DerivePcs
    <2>2. /\ pc' = [pc EXCEPT ![w] = "getRunbook"]
          /\ \E rb : call' = [call EXCEPT ![w] = NewCall(RollbackExecutionID(e), None, None, rb)]
          /\ UNCHANGED <<loop, status, runbook, host, agent>>
      BY <1>2 DEF DeriveFromEvents, startup, history, rows
    <2>3. /\ OnlyWorker(w) /\ pc'[w] = "getRunbook"
          /\ call'[w].ex = RollbackExecutionID(e)
      BY <2>2 DEF OnlyWorker, TypeOK, WorkersType, loop, NewCall
    <2>4. Parent(RollbackExecutionID(e)) = e
      BY <2>1 DEF Parent, RollbackExecutionID, Executions
    <2>5. WorkerInv(w)'
      BY <2>1, <2>2, <2>3, <2>4
      DEF WorkerInv, OwnsExecution, RunbookIsStored, LoopMatchesHost, ParentIsDone,
          StepPcs, EndPcs, ProposePcs, DerivePcs
    <2> QED
      BY <2>1, <2>2, <2>3, <2>5, Quiet DEF StepPcs
  <1> QED BY <1>1, <1>2

(* Every step of Propose and of DeriveRollback keeps the invariant.            *)
LEMMA ProposeStepInv ==
    ASSUME TypeOK, ExecuteInv, NEW w \in Workers, ProposeStep(w)
    PROVE  ExecuteInv'
  <1> USE DEF startup, history, rows, ProposePcs
  <1>1. CASE GetRunbook(w)
    BY <1>1, QuietPropose DEF GetRunbook
  <1>2. CASE CreateRunbook(w)
    BY <1>2, CreateRunbookInv
  <1>3. CASE CreateExecution(w)
    BY <1>3, CreateExecutionInv
  <1>4. CASE AuditProposed(w)
    BY <1>4, QuietPropose DEF AuditProposed, appendAudit
  <1>5. CASE EventProposed(w)
    BY <1>5, QuietPropose, QuietReturn DEF EventProposed, appendEvent, appendLastEvent
  <1>6. CASE AuditBlocked(w)
    BY <1>6, QuietPropose DEF AuditBlocked, appendAudit
  <1>7. CASE EventBlocked(w)
    BY <1>7, QuietReturn DEF EventBlocked, appendLastEvent
  <1>8. CASE DeriveRollback(w)
    BY <1>8, DeriveRollbackInv
  <1>9. CASE DeriveFromEvents(w)
    BY <1>9, DeriveFromEventsInv
  <1> QED
    BY <1>1, <1>2, <1>3, <1>4, <1>5, <1>6, <1>7, <1>8, <1>9 DEF ProposeStep

(* Approving or declining moves a proposed execution, which nobody runs.       *)
LEMMA FromProposedInv ==
    ASSUME TypeOK, ExecuteInv, NEW w \in Workers, pc[w] # "idle", UNCHANGED agent,
           UNCHANGED <<runbook, host>>, NEW to \in {"approved", "declined"},
           TransitionExecution(call[w].ex, "proposed", to),
           NEW l \in Ignorant \ {"derive"}, Goto(w, l)
    PROVE  ExecuteInv'
  <1> DEFINE e == call[w].ex
  <1>1. e \in Executions /\ agent = "up"
    BY ActiveCall, AgentIsUp DEF TypeOK, ExecuteInv
  <1>2. OnlyWorker(w) /\ WorkerInv(w)' /\ pc'[w] \notin StepPcs
    BY GotoIsLocal, IgnorantInv
  <1>3. \A v \in Workers : pc[v] \in StepPcs => call[v].ex # e
    BY DEF ExecuteInv, WorkerInv, OwnsExecution, TransitionExecution
  <1>4. e[2] = "rollback" => status[Parent(e)] \in DerivableStatuses
    BY <1>1 DEF ExecuteInv, RollbackFollowsParent, TransitionExecution
  <1> QED
    BY <1>1, <1>2, <1>3, <1>4, StatusMove
    DEF TransitionExecution, NotStarted, DerivableStatuses

(* Every step of approveAndAckExecute and Approve keeps the invariant.         *)
LEMMA ApproveStepInv ==
    ASSUME TypeOK, ExecuteInv, NEW w \in Workers, ApproveStep(w)
    PROVE  ExecuteInv'
  <1> USE DEF startup, history, rows, Ignorant, ApprovePcs
  <1>1. CASE approveAndAckExecute(w)
    BY <1>1, QuietIgnorant, QuietReturn DEF approveAndAckExecute
  <1>2. CASE Approve(w)
    BY <1>2, QuietIgnorant, QuietReturn DEF Approve
  <1>3. CASE ConsumeToken(w)
    BY <1>3, QuietIgnorant, QuietReturn DEF ConsumeToken
  <1>4. CASE MarkConfirmationTokenUsed(w)
    BY <1>4, QuietIgnorant, QuietReturn DEF MarkConfirmationTokenUsed
  <1>5. CASE ToApproved(w)
    BY <1>5, FromProposedInv, QuietReturn DEF ToApproved
  <1>6. CASE AuditApproved(w)
    BY <1>6, QuietIgnorant DEF AuditApproved, appendAudit
  <1>7. CASE EventApproved(w)
    BY <1>7, QuietIgnorant DEF EventApproved, appendEvent
  <1> QED
    BY <1>1, <1>2, <1>3, <1>4, <1>5, <1>6, <1>7 DEF ApproveStep

(* Every step of Decline keeps the invariant.                                  *)
LEMMA DeclineStepInv ==
    ASSUME TypeOK, ExecuteInv, NEW w \in Workers, DeclineStep(w)
    PROVE  ExecuteInv'
  <1> USE DEF startup, history, rows, Ignorant, DeclinePcs
  <1>1. CASE Decline(w)
    BY <1>1, QuietIgnorant, QuietReturn DEF Decline
  <1>2. CASE ToDeclined(w)
    BY <1>2, FromProposedInv, QuietReturn DEF ToDeclined
  <1>3. CASE AuditDeclined(w)
    BY <1>3, QuietIgnorant DEF AuditDeclined, appendAudit
  <1>4. CASE EventDeclined(w)
    BY <1>4, QuietReturn DEF EventDeclined, appendLastEvent
  <1> QED
    BY <1>1, <1>2, <1>3, <1>4 DEF DeclineStep

(* The two loop heads change one goroutine only: the step loop,                *)
LEMMA NextStepIsLocal ==
    ASSUME TypeOK, NEW w \in Workers, NEW i \in Nat, NextStep(w, i)
    PROVE  /\ OnlyWorker(w) /\ call'[w] = call[w] /\ idx'[w] = i /\ stepOk'[w] = stepOk[w]
           /\ pc'[w] = IF i <= Len(runbook[call[w].ex].steps) THEN "step" ELSE "toVerifying"
  BY DEF TypeOK, WorkersType, NextStep, OnlyWorker

(* and the verification loop.                                                  *)
LEMMA NextVerificationIsLocal ==
    ASSUME TypeOK, NEW w \in Workers, NEW i \in Nat, NextVerification(w, i)
    PROVE  /\ OnlyWorker(w) /\ call'[w] = call[w]
           /\ pc'[w] \in {"stepVerification", "internalVerification"}
  BY DEF TypeOK, WorkersType, NextVerification, OnlyWorker

(* Within the loop, between two host steps, only the loop's own labels matter. *)
LEMMA QuietLoop ==
    ASSUME TypeOK, ExecuteInv, NEW w \in Workers, pc[w] \in StepPcs, UNCHANGED agent,
           UNCHANGED <<status, runbook, host>>, OnlyWorker(w), call'[w] = call[w],
           pc'[w] \in StepPcs, LoopMatchesHost(w)'
    PROVE  ExecuteInv'
  <1>1. agent = "up"
    BY AgentIsUp DEF ExecuteInv, StepPcs
  <1>2. WorkerInv(w)'
    BY DEF ExecuteInv, WorkerInv, OwnsExecution, RunbookIsStored, ParentIsDone,
           StepPcs, ProposePcs, DerivePcs
  <1> QED BY <1>1, <1>2, Quiet

(* After the loop the labels presume still less.                               *)
LEMMA QuietEnd ==
    ASSUME TypeOK, ExecuteInv, NEW w \in Workers, pc[w] \in EndPcs, UNCHANGED agent,
           UNCHANGED <<status, runbook, host>>, OnlyWorker(w), call'[w] = call[w],
           pc'[w] \in EndPcs
    PROVE  ExecuteInv'
  <1>1. agent = "up"
    BY AgentIsUp DEF ExecuteInv, EndPcs
  <1>2. WorkerInv(w)' /\ pc'[w] \notin StepPcs
    BY DEF ExecuteInv, WorkerInv, OwnsExecution, RunbookIsStored, LoopMatchesHost, ParentIsDone,
           StepPcs, EndPcs, ProposePcs, DerivePcs
  <1> QED BY <1>1, <1>2, Quiet

(* Execute's reads and checks keep the invariant.                              *)
LEMMA ExecuteReadInv ==
    ASSUME TypeOK, ExecuteInv, NEW w \in Workers, Execute(w)
    PROVE  ExecuteInv'
  <1> USE DEF Execute, startup, history, rows
  <1>1. CASE Return(w)
    BY <1>1, QuietReturn
  <1>2. CASE Goto(w, "toExecuting") /\ ~Return(w)
    <2>1. WorkerInv(w)' /\ pc'[w] \notin StepPcs
      BY <1>2, GotoIsLocal, ReturnIsLocal
      DEF validateHash, WorkerInv, OwnsExecution, RunbookIsStored, LoopMatchesHost, ParentIsDone,
          StepPcs, EndPcs, ProposePcs, DerivePcs
    <2> QED
      BY <1>2, <2>1, AgentIsUp, GotoIsLocal, Quiet DEF ExecuteInv
  <1> QED BY <1>1, <1>2

(* The conditional update to executing gives the execution its one owner.      *)
LEMMA ToExecutingInv ==
    ASSUME TypeOK, ExecuteInv, NEW w \in Workers, ToExecuting(w)
    PROVE  ExecuteInv'
  <1> DEFINE e == call[w].ex
  <1>1. CASE status[e] # "approved"
    BY <1>1, QuietReturn DEF ToExecuting, TransitionExecution, startup, history
  <1>2. CASE status[e] = "approved"
    <2>1. /\ e \in Executions /\ agent = "up" /\ UNCHANGED <<agent, runbook, host>>
          /\ status' = [status EXCEPT ![e] = "executing"]
          /\ OnlyWorker(w) /\ pc'[w] = "auditStarted" /\ call'[w] = call[w]
      BY <1>2, ActiveCall, AgentIsUp, GotoIsLocal
      DEF ToExecuting, TransitionExecution, TypeOK, ExecuteInv, startup
    <2>2. host[e] = <<>> /\ runbook[e] # None
      BY <1>2, <2>1
      DEF ToExecuting, ExecuteInv, NothingRanEarly, NotStarted, WorkerInv, RunbookIsStored
    <2>3. \A v \in Workers : pc[v] \in StepPcs => call[v].ex # e
      BY <1>2 DEF ExecuteInv, WorkerInv, OwnsExecution
    <2>4. e[2] = "rollback" => status[Parent(e)] \in DerivableStatuses
      BY <1>2, <2>1 DEF ExecuteInv, RollbackFollowsParent
    <2>5. status'[e] = "executing"
      BY <2>1 DEF TypeOK, RowsType
    <2>6. WorkerInv(w)'
      BY <2>1, <2>2, <2>5
      DEF WorkerInv, OwnsExecution, RunbookIsStored, LoopMatchesHost, ParentIsDone,
          ProposePcs, DerivePcs
    <2> QED
      BY <1>2, <2>1, <2>3, <2>4, <2>6, StatusMove DEF NotStarted, DerivableStatuses
  <1> QED BY <1>1, <1>2

(* The host sees one more run: the next index, and all earlier ones succeeded. *)
LEMMA ExecuteStepInv ==
    ASSUME TypeOK, ExecuteInv, NEW w \in Workers, NEW ok \in BOOLEAN, ExecuteStep(w, ok)
    PROVE  ExecuteInv'
  <1> DEFINE e == call[w].ex
             run == [index |-> idx[w], ok |-> ok]
  <1>1. /\ e \in Executions /\ agent = "up" /\ UNCHANGED <<agent, status, runbook, call, idx>>
        /\ host' = [host EXCEPT ![e] = Append(host[e], run)]
        /\ pc'[w] = "eventStep" /\ stepOk'[w] = ok /\ OnlyWorker(w)
    BY ActiveCall, AgentIsUp
    DEF ExecuteStep, TypeOK, WorkersType, ExecuteInv, startup, rows, OnlyWorker
  <1>2. /\ host[e] \in Seq(Runs) /\ run \in Runs /\ idx[w] \in Nat
    BY <1>1 DEF TypeOK, HistoryType, WorkersType, Runs
  <1>3. /\ status[e] = "executing" /\ runbook[e] # None
        /\ Len(host[e]) = idx[w] - 1 /\ idx[w] <= Len(runbook[e].steps)
        /\ \A k \in 1..(idx[w] - 1) : host[e][k].ok
    BY DEF ExecuteStep, ExecuteInv, WorkerInv, OwnsExecution, RunbookIsStored, LoopMatchesHost,
           StepPcs
  <1>4. /\ Len(host'[e]) = idx[w]
        /\ \A k \in 1..(idx[w] - 1) : host'[e][k] = host[e][k]
        /\ host'[e][idx[w]] = run
        /\ \A d \in Executions : d # e => host'[d] = host[d]
    BY <1>1, <1>2, <1>3 DEF TypeOK, HistoryType
  <1>5. WorkerInv(w)'
    BY <1>1, <1>3, <1>4
    DEF WorkerInv, OwnsExecution, RunbookIsStored, LoopMatchesHost, ParentIsDone,
        ProposePcs, DerivePcs
  <1>6. ASSUME NEW v \in Workers, v # w
        PROVE  WorkerInv(v)' /\ pc'[v] = pc[v]
    <2>1. pc'[v] = pc[v] /\ stepOk'[v] = stepOk[v]
      BY <1>1, <1>6 DEF TypeOK, WorkersType, OnlyWorker
    <2>2. pc[v] \in StepPcs => call[v].ex # e /\ call[v].ex \in Executions
      BY <1>6, ActiveCall DEF ExecuteStep, ExecuteInv, OwnerIsAlone, StepPcs, TypeOK
    <2>3. LoopMatchesHost(v)'
      <3>1. LoopMatchesHost(v)
        BY DEF ExecuteInv, WorkerInv
      <3>2. /\ UNCHANGED <<runbook, call, idx>>
            /\ pc[v] \in StepPcs => host'[call[v].ex] = host[call[v].ex]
        BY <1>1, <1>4, <2>2
      <3> QED BY <2>1, <3>1, <3>2 DEF LoopMatchesHost, StepPcs
    <2>4. OwnsExecution(v)' /\ RunbookIsStored(v)' /\ ParentIsDone(v)'
      BY <1>1, <2>1 DEF ExecuteInv, WorkerInv, OwnsExecution, RunbookIsStored, ParentIsDone
    <2> QED BY <2>1, <2>3, <2>4 DEF WorkerInv
  <1>7. OwnerIsAlone'
    BY <1>1, <1>6 DEF ExecuteStep, ExecuteInv, OwnerIsAlone, StepPcs
  <1>8. NobodyWhileDown'
    BY <1>1 DEF NobodyWhileDown
  <1>9. NothingRanEarly'
    BY <1>1, <1>3, <1>4 DEF ExecuteInv, NothingRanEarly, NotStarted
  <1>10. RollbackFollowsParent'
    BY <1>1 DEF ExecuteInv, RollbackFollowsParent
  <1>11. RunsInOrderOnce'
    <2> SUFFICES ASSUME NEW d \in Executions
                 PROVE  /\ host'[d] # <<>> => /\ runbook'[d] # None
                                              /\ Len(host'[d]) <= Len(runbook'[d].steps)
                        /\ \A k \in 1..Len(host'[d]) :
                              /\ host'[d][k].index = k
                              /\ k < Len(host'[d]) => host'[d][k].ok
      BY DEF RunsInOrderOnce
    <2>1. CASE d # e
      BY <1>1, <1>4, <2>1 DEF ExecuteInv, RunsInOrderOnce
    <2>2. CASE d = e
      <3>1. \A k \in 1..(idx[w] - 1) : host[e][k].index = k
        BY <1>1, <1>3 DEF ExecuteInv, RunsInOrderOnce
      <3> QED BY <1>1, <1>2, <1>3, <1>4, <2>2, <3>1, SMTT(30)
    <2> QED BY <2>1, <2>2
  <1> QED BY <1>5, <1>6, <1>7, <1>8, <1>9, <1>10, <1>11 DEF ExecuteInv

(* Leaving executing, to verifying or to remediation_failed, keeps the         *)
(* invariant.                                                                  *)
LEMMA LeaveInv ==
    ASSUME TypeOK, ExecuteInv, NEW w \in Workers, NEW at \in StepPcs,
           NEW to \in {"verifying", "remediation_failed"}, NEW next \in EndPcs,
           Leave(w, at, to, next)
    PROVE  ExecuteInv'
  <1> DEFINE e == call[w].ex
  <1>1. /\ e \in Executions /\ agent = "up" /\ UNCHANGED <<agent, runbook, host>>
        /\ status[e] = "executing" /\ runbook[e] # None
    BY ActiveCall, AgentIsUp
    DEF Leave, TypeOK, ExecuteInv, WorkerInv, OwnsExecution, RunbookIsStored, StepPcs,
        startup, history
  <1>2. /\ status' = [status EXCEPT ![e] = to]
        /\ OnlyWorker(w) /\ pc'[w] = next /\ call'[w] = call[w]
    BY <1>1, GotoIsLocal DEF Leave, TransitionExecution
  <1>3. \A v \in Workers \ {w} : pc[v] \in StepPcs => call[v].ex # e
    BY DEF Leave, ExecuteInv, OwnerIsAlone
  <1>4. e[2] = "rollback" => status[Parent(e)] \in DerivableStatuses
    BY <1>1 DEF ExecuteInv, RollbackFollowsParent
  <1>5. WorkerInv(w)' /\ next \notin StepPcs
    BY <1>1, <1>2
    DEF WorkerInv, OwnsExecution, RunbookIsStored, LoopMatchesHost, ParentIsDone,
        StepPcs, EndPcs, ProposePcs, DerivePcs
  <1> QED
    BY <1>1, <1>2, <1>3, <1>4, <1>5, StatusMove DEF NotStarted, DerivableStatuses

(* Every step of Execute keeps the invariant.                                  *)
LEMMA ExecuteLoopInv ==
    ASSUME TypeOK, ExecuteInv, NEW w \in Workers, ExecuteLoop(w)
    PROVE  ExecuteInv'
  <1> USE DEF startup, history, rows
  <1>1. CASE Execute(w)
    BY <1>1, ExecuteReadInv
  <1>2. CASE ToExecuting(w)
    BY <1>2, ToExecutingInv
  <1>3. CASE AuditStarted(w)
    <2>1. LoopMatchesHost(w)'
      BY <1>3, GotoIsLocal
      DEF AuditStarted, appendAudit, ExecuteInv, WorkerInv, LoopMatchesHost
    <2> QED
      BY <1>3, <2>1, GotoIsLocal, QuietLoop DEF AuditStarted, appendAudit, StepPcs
  <1>4. CASE EventStarted(w)
    <2>1. LoopMatchesHost(w)'
      BY <1>4, NextStepIsLocal DEF EventStarted, ExecuteInv, WorkerInv, LoopMatchesHost
    <2> QED
      BY <1>4, <2>1, NextStepIsLocal, QuietLoop DEF EventStarted, StepPcs
  <1>5. CASE \E ok \in BOOLEAN : ExecuteStep(w, ok)
    BY <1>5, ExecuteStepInv
  <1>6. CASE EventStep(w)
    <2>1. /\ pc'[w] = "auditStep" /\ call'[w] = call[w] /\ idx'[w] = idx[w]
          /\ stepOk'[w] = stepOk[w] /\ host' = host
      BY <1>6, GotoIsLocal DEF EventStep
    <2>2. LoopMatchesHost(w) /\ pc[w] = "eventStep"
      BY <1>6 DEF EventStep, ExecuteInv, WorkerInv
    <2>3. LoopMatchesHost(w)'
      BY <2>1, <2>2, Zenon DEF LoopMatchesHost
    <2> QED
      BY <1>6, <2>3, GotoIsLocal, QuietLoop DEF EventStep, StepPcs
  <1>7. CASE AuditStep(w)
    <2>1. idx[w] \in Nat /\ idx[w] + 1 \in Nat
      BY DEF TypeOK, WorkersType
    <2>2. CASE stepOk[w]
      <3> DEFINE e == call[w].ex
                 i == idx[w]
      <3>1. /\ call'[w] = call[w] /\ idx'[w] = i + 1 /\ UNCHANGED <<host, runbook>>
            /\ pc'[w] = IF i + 1 <= Len(runbook[e].steps) THEN "step" ELSE "toVerifying"
        BY <1>7, <2>1, <2>2, NextStepIsLocal DEF AuditStep
      <3>2. LoopMatchesHost(w) /\ pc[w] = "auditStep"
        BY <1>7 DEF AuditStep, ExecuteInv, WorkerInv
      <3>3. /\ Len(host[e]) = i
            /\ \A k \in 1..(i - 1) : host[e][k].ok
            /\ stepOk[w] = host[e][i].ok
        BY <3>2, Zenon DEF LoopMatchesHost
      <3>4. host[e][i].ok
        BY <2>2, <3>3, Zenon
      <3>5. \A k \in 1..i : host[e][k].ok
        <4> SUFFICES ASSUME NEW k \in 1..i PROVE host[e][k].ok
          OBVIOUS
        <4>1. k = i \/ k \in 1..(i - 1)
          BY <2>1
        <4> QED BY <3>3, <3>4, <4>1, Zenon
      <3>6. (i + 1) - 1 = i
        BY <2>1
      <3>7. LoopMatchesHost(w)'
        BY <3>1, <3>3, <3>5, <3>6 DEF LoopMatchesHost
      <3> QED
        BY <1>7, <2>1, <2>2, <3>7, NextStepIsLocal, QuietLoop DEF AuditStep, StepPcs
    <2>3. CASE ~stepOk[w]
      <3>1. LoopMatchesHost(w)'
        BY <1>7, <2>3, GotoIsLocal DEF AuditStep, LoopMatchesHost
      <3> QED
        BY <1>7, <2>3, <3>1, GotoIsLocal, QuietLoop DEF AuditStep, StepPcs
    <2> QED BY <2>2, <2>3
  <1>8. CASE ToFailed(w)
    BY <1>8, LeaveInv DEF ToFailed, StepPcs, EndPcs
  <1>9. CASE AuditFailed(w)
    BY <1>9, GotoIsLocal, QuietEnd DEF AuditFailed, appendAudit, EndPcs
  <1>10. CASE EventFailed(w)
    BY <1>10, QuietReturn DEF EventFailed, appendLastEvent
  <1>11. CASE ToVerifying(w)
    BY <1>11, LeaveInv DEF ToVerifying, StepPcs, EndPcs
  <1>12. CASE AuditVerifying(w)
    BY <1>12, GotoIsLocal, QuietEnd DEF AuditVerifying, appendAudit, EndPcs
  <1>13. CASE EventVerifying(w)
    BY <1>13, NextVerificationIsLocal, QuietEnd DEF EventVerifying, EndPcs
  <1>14. CASE EventStepVerification(w)
    <2>1. idx[w] + 1 \in Nat
      BY DEF TypeOK, WorkersType
    <2> QED
      BY <1>14, <2>1, NextVerificationIsLocal, QuietEnd DEF EventStepVerification, EndPcs
  <1>15. CASE EventInternalVerification(w)
    BY <1>15, QuietReturn DEF EventInternalVerification, appendLastEvent
  <1> QED
    BY <1>1, <1>2, <1>3, <1>4, <1>5, <1>6, <1>7, <1>8, <1>9, <1>10, <1>11, <1>12, <1>13,
       <1>14, <1>15 DEF ExecuteLoop

(* A new call starts at a label that presumes nothing, except that a proposal  *)
(* from outside is never a rollback's.                                         *)
LEMMA RequestInv ==
    ASSUME TypeOK, ExecuteInv, NEW w \in Workers, Request(w)
    PROVE  ExecuteInv'
  <1> USE DEF startup, history, rows
  <1>1. ASSUME NEW p \in Primaries, NEW rb \in Runbooks, Propose(w, p, rb)
        PROVE  ExecuteInv'
    <2>1. /\ OnlyWorker(w) /\ agent = "up" /\ pc'[w] = "getRunbook"
          /\ call'[w] = NewCall(<<p, "execute">>, None, None, rb)
      BY <1>1, BeginIsLocal DEF Propose
    <2>2. WorkerInv(w)' /\ pc'[w] \notin StepPcs
      BY <2>1
      DEF NewCall, WorkerInv, OwnsExecution, RunbookIsStored, LoopMatchesHost, ParentIsDone,
          StepPcs, EndPcs, ProposePcs, DerivePcs
    <2> QED BY <1>1, <2>1, <2>2, Quiet DEF Propose
  <1>2. ASSUME NEW p \in Primaries, RequestRollback(w, p)
        PROVE  ExecuteInv'
    <2>1. /\ OnlyWorker(w) /\ agent = "up" /\ pc'[w] = "derive"
          /\ call'[w].ex[2] = "execute"
      BY <1>2, BeginIsLocal DEF RequestRollback, NewCall
    <2> QED BY <1>2, <2>1, IgnorantInv, Quiet DEF RequestRollback, Ignorant
  <1>3. ASSUME NEW e \in Executions, NEW x \in Executions, NEW t \in Tokens,
               RequestExecute(w, e, x, t)
        PROVE  ExecuteInv'
    <2>1. OnlyWorker(w) /\ agent = "up" /\ pc'[w] = "getForApproval"
      BY <1>3, BeginIsLocal DEF RequestExecute
    <2> QED
      BY <1>3, <2>1, IgnorantInv, Quiet DEF RequestExecute, Ignorant, ApprovePcs
  <1>4. ASSUME NEW e \in Executions, RequestDecline(w, e)
        PROVE  ExecuteInv'
    <2>1. OnlyWorker(w) /\ agent = "up" /\ pc'[w] = "decline"
      BY <1>4, BeginIsLocal DEF RequestDecline
    <2> QED
      BY <1>4, <2>1, IgnorantInv, Quiet DEF RequestDecline, Ignorant, DeclinePcs
  <1> QED BY <1>1, <1>2, <1>3, <1>4 DEF Request

(* A crash leaves the ledger as it is and no goroutine.                        *)
LEMMA CrashInv ==
    ASSUME ExecuteInv, Crash
    PROVE  ExecuteInv'
  <1>1. \A w \in Workers : pc'[w] = "idle"
    BY DEF Crash
  <1>2. (\A w \in Workers : WorkerInv(w)') /\ OwnerIsAlone' /\ NobodyWhileDown'
    BY <1>1
    DEF WorkerInv, OwnsExecution, RunbookIsStored, LoopMatchesHost, ParentIsDone, OwnerIsAlone,
        NobodyWhileDown, StepPcs, EndPcs, ProposePcs, DerivePcs
  <1>3. NothingRanEarly' /\ RollbackFollowsParent' /\ RunsInOrderOnce'
    BY DEF Crash, rows, history, ExecuteInv, NothingRanEarly, RollbackFollowsParent,
           RunsInOrderOnce
  <1> QED BY <1>2, <1>3 DEF ExecuteInv

(* While the agent is not serving every goroutine is idle, so recovery has only *)
(* the ledger's own conjuncts to keep.                                         *)
LEMMA IdleInv ==
    ASSUME \A w \in Workers : pc'[w] = "idle"
    PROVE  (\A w \in Workers : WorkerInv(w)') /\ OwnerIsAlone' /\ NobodyWhileDown'
  BY DEF WorkerInv, OwnsExecution, RunbookIsStored, LoopMatchesHost, ParentIsDone, OwnerIsAlone,
         NobodyWhileDown, StepPcs, EndPcs, ProposePcs, DerivePcs

(* RecoverInterrupted moves executing or verifying to remediation_failed, and a *)
(* rollback may rest on remediation_failed as it may on verifying.             *)
LEMMA RecoverTransitionInv ==
    ASSUME TypeOK, ExecuteInv, RecoverTransition
    PROVE  ExecuteInv'
  <1>1. fixing \in Executions
    BY DEF TypeOK, StartupType, RecoverTransition
  <1>2. /\ status[fixing] \in {"executing", "verifying"}
        /\ status' = [status EXCEPT ![fixing] = "remediation_failed"]
        /\ UNCHANGED <<runbook, host, pc>>
    BY DEF RecoverTransition, TransitionExecution, history
  <1>3. \A d \in Executions :
           status'[d] = IF d = fixing THEN "remediation_failed" ELSE status[d]
    BY <1>1, <1>2 DEF TypeOK, RowsType
  <1>4. \A w \in Workers : pc'[w] = "idle"
    BY <1>2 DEF RecoverTransition, ExecuteInv, NobodyWhileDown
  <1>5. NothingRanEarly'
    BY <1>2, <1>3 DEF ExecuteInv, NothingRanEarly, NotStarted
  <1>6. RollbackFollowsParent'
    <2> SUFFICES ASSUME NEW d \in Executions, d[2] = "rollback",
                        runbook'[d] # None \/ status'[d] # "none"
                 PROVE  status'[Parent(d)] \in DerivableStatuses
      BY DEF RollbackFollowsParent, Parent
    <2>1. Parent(d) \in Executions
      BY DEF Executions, Parent
    <2>2. status[Parent(d)] \in DerivableStatuses
      BY <1>2, <1>3 DEF ExecuteInv, RollbackFollowsParent
    <2> QED BY <1>3, <2>1, <2>2 DEF DerivableStatuses
  <1>7. RunsInOrderOnce'
    BY <1>2 DEF ExecuteInv, RunsInOrderOnce
  <1> QED BY <1>4, <1>5, <1>6, <1>7, IdleInv DEF ExecuteInv

(* A step that leaves every row, the host and every goroutine alone, and does   *)
(* not take the agent out of service, keeps the invariant.                     *)
LEMMA SameInv ==
    ASSUME ExecuteInv, UNCHANGED <<status, runbook, host, pc, call, loop>>,
           agent = "up" => agent' = "up"
    PROVE  ExecuteInv'
  <1>1. \A w \in Workers : WorkerInv(w)'
    BY DEF ExecuteInv, WorkerInv, OwnsExecution, RunbookIsStored, LoopMatchesHost, ParentIsDone,
           loop
  <1>2. OwnerIsAlone' /\ NobodyWhileDown'
    BY DEF ExecuteInv, OwnerIsAlone, NobodyWhileDown
  <1>3. NothingRanEarly' /\ RollbackFollowsParent' /\ RunsInOrderOnce'
    BY DEF ExecuteInv, NothingRanEarly, RollbackFollowsParent, RunsInOrderOnce
  <1> QED BY <1>1, <1>2, <1>3 DEF ExecuteInv

(* Every step of RecoverInterrupted keeps the invariant.                       *)
LEMMA RecoveryInv ==
    ASSUME TypeOK, ExecuteInv, Recovery \/ RecoverError
    PROVE  ExecuteInv'
  <1> USE DEF rows, history
  <1>1. CASE Restart
    BY <1>1, SameInv DEF Restart
  <1>2. CASE RecoverList
    BY <1>2, SameInv DEF RecoverList
  <1>3. CASE RecoverTransition
    BY <1>3, RecoverTransitionInv
  <1>4. CASE RecoverAudit
    BY <1>4, SameInv DEF RecoverAudit
  <1>5. CASE RecoverEvent
    BY <1>5, SameInv DEF RecoverEvent
  <1>6. CASE RecoverError
    BY <1>6, SameInv DEF RecoverError
  <1> QED BY <1>1, <1>2, <1>3, <1>4, <1>5, <1>6 DEF Recovery

(* Every step of the ledger keeps ExecuteInv.                                  *)
LEMMA NextInv ==
    ASSUME TypeOK, ExecuteInv, [Next]_vars
    PROVE  ExecuteInv'
  <1>1. ASSUME NEW w \in Workers, Step(w)
        PROVE  ExecuteInv'
    BY <1>1, ProposeStepInv, ApproveStepInv, DeclineStepInv, ExecuteLoopInv DEF Step
  <1>2. ASSUME NEW w \in Workers, StoreError(w)
        PROVE  ExecuteInv'
    BY <1>2, QuietReturn DEF StoreError, NoStorePcs, rows, history, startup
  <1>3. ASSUME NEW t \in Tokens, NEW e \in Executions, NEW a \in {"execute", "rollback"},
               MintConfirmationToken(t, e, a)
        PROVE  ExecuteInv'
    BY <1>3, SameInv DEF MintConfirmationToken, rows, history, startup
  <1>4. CASE UNCHANGED vars
    BY <1>4, SameInv DEF vars, rows, history, startup
  <1> QED
    BY <1>1, <1>2, <1>3, <1>4, RequestInv, CrashInv, RecoveryInv DEF Next

(* Before the first request nothing has run and nobody is in a call.           *)
LEMMA InitInv == Init => ExecuteInv
  BY DEF Init, ExecuteInv, WorkerInv, OwnsExecution, RunbookIsStored, LoopMatchesHost,
         ParentIsDone, OwnerIsAlone, NobodyWhileDown, NothingRanEarly, RollbackFollowsParent,
         RunsInOrderOnce, StepPcs, EndPcs, ProposePcs, DerivePcs

--------------------------------------------------------------------------------
(* The theorems.                                                               *)

(* ExecuteInv, with the types, is an inductive invariant of the ledger.        *)
THEOREM Inductive == Spec => [](TypeOK /\ ExecuteInv)
  <1>1. Init => TypeOK /\ ExecuteInv
    BY InitTypeOK, InitInv
  <1>2. TypeOK /\ ExecuteInv /\ [Next]_vars => (TypeOK /\ ExecuteInv)'
    BY NextType, NextInv DEF ExecuteInv, WorkerInv
  <1> QED BY <1>1, <1>2, PTL DEF Spec

(* Type correctness: rows, trails, tokens and the arguments of every call stay *)
(* what the schema and the Go types say, and a derived rollback's steps are    *)
(* steps of the catalog.                                                       *)
THEOREM TypeCorrect == Spec => []TypeOK
  BY Inductive, PTL

(* At-most-once execution: however requests, duplicates, store errors, crashes *)
(* and restarts interleave, Execute runs every step of an execution at most    *)
(* once, in runbook order, and none after the first failure.                   *)
THEOREM ExecuteOnce == Spec => []RunsInOrderOnce
  <1>1. ExecuteInv => RunsInOrderOnce
    BY DEF ExecuteInv
  <1> QED BY <1>1, Inductive, PTL

(* Mutual exclusion on the host: no two goroutines are about to run a step for *)
(* one execution or for an execution and its rollback.                         *)
THEOREM OneMutator == Spec => []OneMutatorAtATime
  <1>1. TypeOK /\ ExecuteInv => OneMutatorAtATime
    <2> SUFFICES ASSUME TypeOK, ExecuteInv, NEW v \in Workers, NEW w \in Workers,
                        pc[v] = "step", pc[w] = "step", call[v].ex[1] = call[w].ex[1]
                 PROVE  v = w
      BY DEF OneMutatorAtATime
    <2>1. /\ call[v].ex \in Executions /\ status[call[v].ex] = "executing"
          /\ call[w].ex \in Executions /\ status[call[w].ex] = "executing"
      BY ActiveCall DEF TypeOK, ExecuteInv, WorkerInv, OwnsExecution, StepPcs
    <2>2. \A d, e \in Executions : d[1] = e[1] => d = e \/ Parent(d) = e \/ Parent(e) = d
      BY DEF Executions, Parent
    <2>3. \A d, e \in Executions :
             /\ status[d] = "executing" /\ status[e] = "executing"
             /\ Parent(d) = e
             => d = e
      BY DEF ExecuteInv, RollbackFollowsParent, DerivableStatuses, Executions, Parent
    <2>4. call[v].ex = call[w].ex
      BY <2>1, <2>2, <2>3
    <2> QED BY <2>4 DEF ExecuteInv, OwnerIsAlone, StepPcs
  <1> QED BY <1>1, Inductive, PTL
================================================================================
