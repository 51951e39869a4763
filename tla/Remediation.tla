------------------------------ MODULE Remediation ------------------------------
(* The remediation ledger of the agent: internal/remediation (Manager), the    *)
(* request handlers of internal/server/remediation.go that drive it, the       *)
(* single-use confirmation tokens of internal/review, and the SQLite rows of   *)
(* internal/store they share.                                                  *)
(*                                                                             *)
(* Every SQL statement is one step (the store runs on one connection), and     *)
(* everything between two statements may be interleaved with other requests,   *)
(* with a store error (the caller returns early) and with a crash of the       *)
(* agent.  A worker is one goroutine: a request handler that, after its ack,   *)
(* becomes the background Execute the handler starts.                          *)
EXTENDS Integers, Sequences, FiniteSets

CONSTANTS
    Workers,      \* goroutines that may be in a remediation call at one time
    Primaries,    \* ids the playbook service mints for primary executions
    Incidents,    \* incident ids
    IncidentOf,   \* the incident each primary execution is proposed for
    Tokens,       \* confirmation tokens the phone may mint
    Kinds,        \* step kinds (with their parameters) of the catalog
    UndoOf,       \* steps.UndoOf: the undo of a kind, or NoUndo
    ForcesL3,     \* undo kinds rollbackForcesL3 blocks (closing the SSH port)
    Runbooks,     \* contents the playbook service may propose
    NoUndo, None, \* null values
    MaxCrashes,   \* bound: crashes of the agent
    MaxErrors     \* bound: failing store calls

(* A runbook's content: its steps, whether the author gave a Rollback plan,    *)
(* how many manual steps it lists, and the L3 flag.                            *)
Contents == [steps : Seq(Kinds), plan : BOOLEAN, manual : Nat, blocked : BOOLEAN]

ASSUME ConstantsAssumption ==
    /\ IncidentOf \in [Primaries -> Incidents]
    /\ UndoOf \in [Kinds -> Kinds \cup {NoUndo}]
    /\ NoUndo \notin Kinds
    /\ ForcesL3 \subseteq Kinds
    /\ Runbooks \subseteq Contents
    /\ None \notin Tokens /\ None \notin Contents
    /\ MaxCrashes \in Nat /\ MaxErrors \in Nat

(* An execution id.  RollbackExecutionID makes the rollback's id a function of *)
(* its parent's, and a derived runbook never has a Rollback plan, so only      *)
(* primaries have rollbacks.  The second component is the row's Kind.          *)
Executions == Primaries \X {"execute", "rollback"}

RollbackExecutionID(e) == <<e[1], "rollback">>

Parent(e) == <<e[1], "execute">>

Incident(e) == IncidentOf[e[1]]

Statuses == {"none", "proposed", "approved", "declined", "executing",
             "verifying", "resolved", "remediation_failed", "blocked_l3"}

(* runbook.ContentHash covers everything but the L3 verdict (and the id).      *)
ContentHash(rb) == <<rb.steps, rb.plan, rb.manual>>

Hashes == Seq(Kinds) \X BOOLEAN \X Nat

Bindings == {"execute", "rollback"} \X Incidents \X Hashes

(* An empty action_hash is no binding.                                         *)
ASSUME NoneIsNoBinding == None \notin Bindings

EventTypes == {"runbook_proposed", "runbook_blocked", "runbook_approved", "runbook_declined",
               "execution_started", "step_result", "remediation_failed",
               "verification_started", "step_verification", "internal_verification"}

(* Index and outcome are those of a step_result, and fixed for other types.    *)
Events == [type : EventTypes, index : Nat, ok : BOOLEAN]

AuditTypes == {"remediation.proposed", "remediation.blocked_l3", "remediation.approved",
               "remediation.declined", "remediation.execute.started",
               "remediation.step.result", "remediation.failed", "remediation.verifying"}

Event(typ) == [type |-> typ, index |-> 0, ok |-> TRUE]

(* Mutant: the recorded outcome is always a success.                           *)
StepResultAlwaysOk(i, b) == [type |-> "step_result", index |-> i, ok |-> TRUE]

StepResult(i, b) == [type |-> "step_result", index |-> i, ok |-> b]

Runs == [index : Nat, ok : BOOLEAN]

VARIABLES
    status,       \* remediation_executions.status, "none" when there is no row
    runbookHash,  \* remediation_executions.runbook_hash
    runbook,      \* remediation_runbooks: the immutable content, or None
    events,       \* remediation_events of each execution, in seq order
    audit,        \* audit rows of each execution (their types), in order
    binding,      \* confirmation_tokens.action_hash, None until minted
    used,         \* tokens with used_at set
    host,         \* the step runs the host has really seen, per execution
    grant,        \* history: the token that moved an execution to approved
    owner,        \* history: the incarnation that moved it to executing
    pc, call,     \* per worker: where it is, and what it was called with
    idx, stepOk,  \* per worker: Execute's loop index and the last step's outcome
    agent,        \* "up", "down", or where startup is in RecoverInterrupted
    todo, fixing, \* in-flight rows recovery still has, and the one in hand
    crashes, errors

rows == <<status, runbookHash, runbook>>
trail == <<events, audit>>
tokens == <<binding, used>>
history == <<host, grant, owner>>
startup == <<agent, todo, fixing, crashes>>
loop == <<idx, stepOk>>
vars == <<rows, trail, tokens, history, pc, call, loop, startup, errors>>

(* The arguments of one call: the execution, the requested content hash, the   *)
(* presented token and the runbook a propose call carries.                     *)
Calls == [ex : Executions, req : Hashes \cup {None}, tk : Tokens \cup {None},
          rb : Contents \cup {None}]

NewCall(e, h, t, rb) == [ex |-> e, req |-> h, tk |-> t, rb |-> rb]

ProposePcs == {"getRunbook", "createRunbook", "createExecution", "auditProposed",
               "eventProposed", "auditBlocked", "eventBlocked"}
ApprovePcs == {"getForApproval", "approve", "consumeToken", "markTokenUsed",
               "toApproved", "auditApproved", "eventApproved"}
DeclinePcs == {"decline", "toDeclined", "auditDeclined", "eventDeclined"}
DerivePcs == {"derive", "successfulSteps"}
(* The labels of the one Execute call that won the move to executing.          *)
StepPcs == {"auditStarted", "eventStarted", "step", "eventStep", "auditStep",
            "toFailed", "toVerifying"}
EndPcs == {"auditFailed", "eventFailed", "auditVerifying", "eventVerifying",
           "stepVerification", "internalVerification"}
ExecutePcs == {"execute", "toExecuting"} \cup StepPcs \cup EndPcs
Pcs == {"idle"} \cup ProposePcs \cup ApprovePcs \cup DeclinePcs \cup DerivePcs
       \cup ExecutePcs

Agents == {"up", "down", "list", "toInterrupted", "auditInterrupted",
           "eventInterrupted"}

RowsType ==
    /\ status \in [Executions -> Statuses]
    /\ runbookHash \in [Executions -> Hashes \cup {None}]
    /\ runbook \in [Executions -> Contents \cup {None}]

TrailType ==
    /\ events \in [Executions -> Seq(Events)]
    /\ audit \in [Executions -> Seq(AuditTypes)]

TokensType == binding \in [Tokens -> Bindings \cup {None}] /\ used \subseteq Tokens

HistoryType ==
    /\ host \in [Executions -> Seq(Runs)]
    /\ grant \in [Executions -> Tokens \cup {None}]
    /\ owner \in [Executions -> Nat \cup {None}]

(* A goroutine that is somewhere in a call has that call's arguments, a propose*)
(* call carries a runbook and an approving one a token.                        *)
WorkersType ==
    /\ pc \in [Workers -> Pcs]
    /\ call \in [Workers -> Calls \cup {None}]
    /\ idx \in [Workers -> Nat]
    /\ stepOk \in [Workers -> BOOLEAN]
    /\ \A w \in Workers :
          /\ pc[w] # "idle" => call[w] \in Calls
          /\ pc[w] \in ProposePcs => call[w].rb \in Contents
          /\ pc[w] \in ApprovePcs => call[w].tk \in Tokens

StartupType ==
    /\ agent \in Agents
    /\ todo \in SUBSET Executions
    /\ fixing \in Executions \cup {None}
    /\ agent \in {"toInterrupted", "auditInterrupted", "eventInterrupted"} =>
          fixing \in Executions
    /\ crashes \in Nat

TypeOK ==
    /\ RowsType
    /\ TrailType
    /\ TokensType
    /\ HistoryType
    /\ WorkersType
    /\ StartupType
    /\ errors \in Nat

Init ==
    /\ status = [e \in Executions |-> "none"]
    /\ runbookHash = [e \in Executions |-> None]
    /\ runbook = [e \in Executions |-> None]
    /\ events = [e \in Executions |-> <<>>]
    /\ audit = [e \in Executions |-> <<>>]
    /\ binding = [t \in Tokens |-> None]
    /\ used = {}
    /\ host = [e \in Executions |-> <<>>]
    /\ grant = [e \in Executions |-> None]
    /\ owner = [e \in Executions |-> None]
    /\ pc = [w \in Workers |-> "idle"]
    /\ call = [w \in Workers |-> None]
    /\ idx = [w \in Workers |-> 0]
    /\ stepOk = [w \in Workers |-> TRUE]
    /\ agent = "up"
    /\ todo = {}
    /\ fixing = None
    /\ crashes = 0
    /\ errors = 0

--------------------------------------------------------------------------------
(* Control flow and single statements.                                         *)

Goto(w, label) == pc' = [pc EXCEPT ![w] = label] /\ UNCHANGED <<call, loop>>

Return(w) ==
    /\ pc' = [pc EXCEPT ![w] = "idle"]
    /\ call' = [call EXCEPT ![w] = None]
    /\ idx' = [idx EXCEPT ![w] = 0]
    /\ stepOk' = [stepOk EXCEPT ![w] = TRUE]

(* A new goroutine enters at label; requests are only served while the agent   *)
(* is up.                                                                      *)
Begin(w, label, c) ==
    /\ agent = "up"
    /\ pc[w] = "idle"
    /\ pc' = [pc EXCEPT ![w] = label]
    /\ call' = [call EXCEPT ![w] = c]
    /\ UNCHANGED loop

(* Mutant: the update's WHERE clause only names the id.                        *)
TransitionUnguarded(e, from, to) == status' = [status EXCEPT ![e] = to]

(* UPDATE ... SET status = to WHERE id = e AND status = from, when it matches. *)
TransitionExecution(e, from, to) ==
    status[e] = from /\ status' = [status EXCEPT ![e] = to]

AppendRemediationEvent(e, ev) == events' = [events EXCEPT ![e] = Append(@, ev)]

AppendAudit(e, typ) == audit' = [audit EXCEPT ![e] = Append(@, typ)]

appendAudit(w, at, typ, next) ==
    /\ pc[w] = at
    /\ AppendAudit(call[w].ex, typ)
    /\ Goto(w, next)
    /\ UNCHANGED <<rows, events, tokens, history, startup, errors>>

appendEvent(w, at, typ, next) ==
    /\ pc[w] = at
    /\ AppendRemediationEvent(call[w].ex, Event(typ))
    /\ Goto(w, next)
    /\ UNCHANGED <<rows, audit, tokens, history, startup, errors>>

(* The last write of a call: append the event and return.                      *)
appendLastEvent(w, at, typ) ==
    /\ pc[w] = at
    /\ AppendRemediationEvent(call[w].ex, Event(typ))
    /\ Return(w)
    /\ UNCHANGED <<rows, audit, tokens, history, startup, errors>>

(* requestedHash against the row's hash and the stored runbook's, recorded and *)
(* recomputed.                                                                 *)
validateHash(e, h) ==
    /\ runbook[e] # None
    /\ h = runbookHash[e]
    /\ h = ContentHash(runbook[e])

--------------------------------------------------------------------------------
(* Propose, and DeriveRollback which ends in the same propose.                 *)

(* The playbook service proposes under a freshly minted id.                    *)
Propose(w, p, rb) ==
    LET e == <<p, "execute">> IN
    /\ runbook[e] = None
    /\ \A v \in Workers : pc[v] # "idle" => call[v].ex # e
    /\ Begin(w, "getRunbook", NewCall(e, None, None, rb))
    /\ UNCHANGED <<rows, trail, tokens, history, startup, errors>>

GetRunbook(w) ==
    /\ pc[w] = "getRunbook"
    /\ Goto(w, IF runbook[call[w].ex] = None THEN "createRunbook" ELSE "createExecution")
    /\ UNCHANGED <<rows, trail, tokens, history, startup, errors>>

(* The row is write-once: a caller that lost the insert gets ErrConflict.      *)
CreateRunbook(w) ==
    /\ pc[w] = "createRunbook"
    /\ IF runbook[call[w].ex] = None
       THEN /\ runbook' = [runbook EXCEPT ![call[w].ex] = call[w].rb]
            /\ Goto(w, "createExecution")
       ELSE UNCHANGED runbook /\ Return(w)
    /\ UNCHANGED <<status, runbookHash, trail, tokens, history, startup, errors>>

(* An existing row is returned unchanged (or is a conflict): nothing to write. *)
CreateExecution(w) ==
    LET e == call[w].ex IN
    /\ pc[w] = "createExecution"
    /\ IF status[e] = "none"
       THEN /\ status' = [status EXCEPT ![e] =
                             IF call[w].rb.blocked THEN "blocked_l3" ELSE "proposed"]
            /\ runbookHash' = [runbookHash EXCEPT ![e] = ContentHash(call[w].rb)]
            /\ Goto(w, "auditProposed")
       ELSE UNCHANGED <<status, runbookHash>> /\ Return(w)
    /\ UNCHANGED <<runbook, trail, tokens, history, startup, errors>>

AuditProposed(w) ==
    appendAudit(w, "auditProposed", "remediation.proposed", "eventProposed")

EventProposed(w) ==
    /\ pc[w] = "eventProposed"
    /\ IF call[w].rb.blocked
       THEN appendEvent(w, "eventProposed", "runbook_proposed", "auditBlocked")
       ELSE appendLastEvent(w, "eventProposed", "runbook_proposed")

AuditBlocked(w) ==
    appendAudit(w, "auditBlocked", "remediation.blocked_l3", "eventBlocked")

EventBlocked(w) == appendLastEvent(w, "eventBlocked", "runbook_blocked")

DerivableStatuses == {"verifying", "resolved", "remediation_failed"}

(* incident.rollback, phase A.                                                 *)
RequestRollback(w, p) ==
    /\ status[<<p, "execute">>] # "none"
    /\ Begin(w, "derive", NewCall(<<p, "execute">>, None, None, None))
    /\ UNCHANGED <<rows, trail, tokens, history, startup, errors>>

(* Mutant: the parent's status is not asked for.                               *)
DeriveRollbackUnchecked(w) ==
    LET e == call[w].ex IN
    /\ pc[w] = "derive"
    /\ IF runbook[e] # None /\ runbook[e].plan
       THEN Goto(w, "successfulSteps")
       ELSE Return(w)
    /\ UNCHANGED <<rows, trail, tokens, history, startup, errors>>

DeriveRollback(w) ==
    LET e == call[w].ex IN
    /\ pc[w] = "derive"
    /\ IF status[e] \in DerivableStatuses /\ runbook[e] # None /\ runbook[e].plan
       THEN Goto(w, "successfulSteps")
       ELSE Return(w)
    /\ UNCHANGED <<rows, trail, tokens, history, startup, errors>>

(* Mutant: failed steps are inverted too.                                      *)
SuccessfulOrNot(e) ==
    {k \in 1..Len(events[e]) : /\ events[e][k].type = "step_result"
                               /\ events[e][k].index \in 1..Len(runbook[e].steps)}

(* Positions of the durable step_result events that recorded a clean success.  *)
Successful(e) ==
    {k \in 1..Len(events[e]) : /\ events[e][k].type = "step_result"
                               /\ events[e][k].ok
                               /\ events[e][k].index \in 1..Len(runbook[e].steps)}

(* Mutant: a step without an undo is inverted like any other.                  *)
UndoableOrNot(e) == Successful(e)

Undoable(e) ==
    {k \in Successful(e) : UndoOf[runbook[e].steps[events[e][k].index]] # NoUndo}

(* The decreasing enumerations of a finite set of positions (there is one):    *)
(* undo the last change first.                                                 *)
LastFirst(S) ==
    {f \in [1..Cardinality(S) -> S] :
        \A i, j \in 1..Cardinality(S) : i < j => f[i] > f[j]}

invertSteps(e, f) ==
    [j \in 1..Cardinality(Undoable(e)) |-> UndoOf[runbook[e].steps[events[e][f[j]].index]]]

rollbackForcesL3(list) == \E j \in 1..Len(list) : list[j] \in ForcesL3

(* The derived runbook: no Rollback plan of its own, a manual step for every   *)
(* step that has no undo, blocked when an undo would close the SSH port.       *)
RollbackRunbook(e, f) ==
    [steps   |-> invertSteps(e, f),
     plan    |-> FALSE,
     manual  |-> Cardinality(Successful(e) \ Undoable(e)),
     blocked |-> rollbackForcesL3(invertSteps(e, f))]

(* The parent's events are read once; nothing to invert ends the call.         *)
DeriveFromEvents(w) ==
    LET e == call[w].ex IN
    /\ pc[w] = "successfulSteps"
    /\ \/ /\ Undoable(e) = {}
          /\ Return(w)
       \/ /\ Undoable(e) # {}
          /\ \E f \in LastFirst(Undoable(e)) :
                call' = [call EXCEPT ![w] =
                    NewCall(RollbackExecutionID(e), None, None, RollbackRunbook(e, f))]
          /\ pc' = [pc EXCEPT ![w] = "getRunbook"]
          /\ UNCHANGED loop
    /\ UNCHANGED <<rows, trail, tokens, history, startup, errors>>

--------------------------------------------------------------------------------
(* Confirmation tokens.                                                        *)

(* remediationTokenBinding: action by the row's Kind, incident, content hash;  *)
(* the execution id is not part of it.                                         *)
remediationTokenBinding(e, h) == <<e[2], Incident(e), h>>

(* auth.confirm: the phone asks for a token for an action on a runbook it saw. *)
MintConfirmationToken(t, e, action) ==
    /\ agent = "up"
    /\ binding[t] = None
    /\ runbookHash[e] # None
    /\ binding' = [binding EXCEPT ![t] = <<action, Incident(e), runbookHash[e]>>]
    /\ UNCHANGED <<rows, trail, used, history, pc, call, loop, startup, errors>>

--------------------------------------------------------------------------------
(* incident.runbook.execute, and phase B of incident.rollback.                 *)

(* The phone sends the hash of a runbook it has seen and a token, for an       *)
(* execution it has seen.                                                      *)
RequestExecute(w, e, x, t) ==
    /\ status[e] # "none"
    /\ runbookHash[x] # None
    /\ Begin(w, "getForApproval", NewCall(e, runbookHash[x], t, None))
    /\ UNCHANGED <<rows, trail, tokens, history, startup, errors>>

(* Mutant: an approved execution is handed to Execute before its approval is   *)
(* on record.                                                                  *)
ackApproved(w) ==
    LET s == status[call[w].ex] IN
    /\ pc[w] = "getForApproval"
    /\ \/ s = "proposed" /\ Goto(w, "approve")
       \/ s \in {"approved", "executing"} \cup DerivableStatuses /\ Goto(w, "execute")
       \/ s \in {"declined", "blocked_l3"} /\ Return(w)
    /\ UNCHANGED <<rows, trail, tokens, history, startup, errors>>

(* approveAndAckExecute: a proposed execution is approved first, one that is   *)
(* running or has run is acked and handed to Execute, anything else (approved  *)
(* included) is refused.                                                       *)
approveAndAckExecute(w) ==
    LET s == status[call[w].ex] IN
    /\ pc[w] = "getForApproval"
    /\ \/ s = "proposed" /\ Goto(w, "approve")
       \/ s \in {"executing"} \cup DerivableStatuses /\ Goto(w, "execute")
       \/ s \in {"approved", "declined", "blocked_l3"} /\ Return(w)
    /\ UNCHANGED <<rows, trail, tokens, history, startup, errors>>

(* Approve re-reads the row and checks the hash before it touches the token.   *)
Approve(w) ==
    LET c == call[w] IN
    /\ pc[w] = "approve"
    /\ IF status[c.ex] = "proposed" /\ validateHash(c.ex, c.req)
       THEN Goto(w, "consumeToken")
       ELSE Return(w)
    /\ UNCHANGED <<rows, trail, tokens, history, startup, errors>>

(* ConsumeToken: the checks on the row as read...  The token's age is not      *)
(* tracked: any token may turn out to have expired.                            *)
ConsumeToken(w) ==
    LET c == call[w] IN
    /\ pc[w] = "consumeToken"
    /\ \/ /\ c.tk \notin used
          /\ binding[c.tk] = remediationTokenBinding(c.ex, c.req)
          /\ Goto(w, "markTokenUsed")
       \/ Return(w)
    /\ UNCHANGED <<rows, trail, tokens, history, startup, errors>>

(* Mutant: the update does not ask whether the token is still unused.          *)
MarkTokenUsedAgain(w) ==
    /\ pc[w] = "markTokenUsed"
    /\ used' = used \cup {call[w].tk}
    /\ Goto(w, "toApproved")
    /\ UNCHANGED <<rows, trail, binding, history, startup, errors>>

(* ...and the conditional update that only one caller can win.                 *)
MarkConfirmationTokenUsed(w) ==
    LET t == call[w].tk IN
    /\ pc[w] = "markTokenUsed"
    /\ IF t \notin used
       THEN used' = used \cup {t} /\ Goto(w, "toApproved")
       ELSE UNCHANGED used /\ Return(w)
    /\ UNCHANGED <<rows, trail, binding, history, startup, errors>>

ToApproved(w) ==
    LET e == call[w].ex IN
    /\ pc[w] = "toApproved"
    /\ \/ /\ TransitionExecution(e, "proposed", "approved")
          /\ grant' = [grant EXCEPT ![e] = call[w].tk]
          /\ Goto(w, "auditApproved")
       \/ /\ status[e] # "proposed"
          /\ UNCHANGED <<status, grant>>
          /\ Return(w)
    /\ UNCHANGED <<runbookHash, runbook, trail, tokens, host, owner, startup, errors>>

AuditApproved(w) ==
    appendAudit(w, "auditApproved", "remediation.approved", "eventApproved")

(* Mutant: the handler acks and never starts Execute.                          *)
EventApprovedOnly(w) == appendLastEvent(w, "eventApproved", "runbook_approved")

(* The ack follows the event, then the background Execute starts.              *)
EventApproved(w) == appendEvent(w, "eventApproved", "runbook_approved", "execute")

--------------------------------------------------------------------------------
(* incident.runbook.decline.                                                   *)

RequestDecline(w, e) ==
    /\ status[e] # "none"
    /\ Begin(w, "decline", NewCall(e, None, None, None))
    /\ UNCHANGED <<rows, trail, tokens, history, startup, errors>>

Decline(w) ==
    /\ pc[w] = "decline"
    /\ IF status[call[w].ex] = "proposed" THEN Goto(w, "toDeclined") ELSE Return(w)
    /\ UNCHANGED <<rows, trail, tokens, history, startup, errors>>

ToDeclined(w) ==
    LET e == call[w].ex IN
    /\ pc[w] = "toDeclined"
    /\ \/ TransitionExecution(e, "proposed", "declined") /\ Goto(w, "auditDeclined")
       \/ status[e] # "proposed" /\ UNCHANGED status /\ Return(w)
    /\ UNCHANGED <<runbookHash, runbook, trail, tokens, history, startup, errors>>

AuditDeclined(w) ==
    appendAudit(w, "auditDeclined", "remediation.declined", "eventDeclined")

EventDeclined(w) == appendLastEvent(w, "eventDeclined", "runbook_declined")

--------------------------------------------------------------------------------
(* Execute.                                                                    *)

(* Hash check first; only an approved execution goes on, a duplicate returns.  *)
Execute(w) ==
    LET c == call[w] IN
    /\ pc[w] = "execute"
    /\ IF validateHash(c.ex, c.req) /\ status[c.ex] = "approved"
       THEN Goto(w, "toExecuting")
       ELSE Return(w)
    /\ UNCHANGED <<rows, trail, tokens, history, startup, errors>>

(* The move to executing makes this call the owner; a loser returns.           *)
ToExecuting(w) ==
    LET e == call[w].ex IN
    /\ pc[w] = "toExecuting"
    /\ \/ /\ TransitionExecution(e, "approved", "executing")
          /\ owner' = [owner EXCEPT ![e] = crashes]
          /\ Goto(w, "auditStarted")
       \/ /\ status[e] # "approved"
          /\ UNCHANGED <<status, owner>>
          /\ Return(w)
    /\ UNCHANGED <<runbookHash, runbook, trail, tokens, host, grant, startup, errors>>

AuditStarted(w) ==
    appendAudit(w, "auditStarted", "remediation.execute.started", "eventStarted")

(* The head of the step loop: step i, or the end of the list.                  *)
NextStep(w, i) ==
    /\ pc' = [pc EXCEPT ![w] =
                 IF i <= Len(runbook[call[w].ex].steps) THEN "step" ELSE "toVerifying"]
    /\ idx' = [idx EXCEPT ![w] = i]
    /\ UNCHANGED <<call, stepOk>>

EventStarted(w) ==
    /\ pc[w] = "eventStarted"
    /\ AppendRemediationEvent(call[w].ex, Event("execution_started"))
    /\ NextStep(w, 1)
    /\ UNCHANGED <<rows, audit, tokens, history, startup, errors>>

(* The step runs on the host, and exits zero or not.                           *)
ExecuteStep(w, ok) ==
    /\ pc[w] = "step"
    /\ host' = [host EXCEPT ![call[w].ex] = Append(@, [index |-> idx[w], ok |-> ok])]
    /\ stepOk' = [stepOk EXCEPT ![w] = ok]
    /\ pc' = [pc EXCEPT ![w] = "eventStep"]
    /\ UNCHANGED <<rows, trail, tokens, grant, owner, call, idx, startup, errors>>

EventStep(w) ==
    /\ pc[w] = "eventStep"
    /\ AppendRemediationEvent(call[w].ex, StepResult(idx[w], stepOk[w]))
    /\ Goto(w, "auditStep")
    /\ UNCHANGED <<rows, audit, tokens, history, startup, errors>>

(* Mutant: a failed step does not end the loop.                                *)
AuditStepKeepsGoing(w) ==
    /\ pc[w] = "auditStep"
    /\ AppendAudit(call[w].ex, "remediation.step.result")
    /\ NextStep(w, idx[w] + 1)
    /\ UNCHANGED <<rows, events, tokens, history, startup, errors>>

(* The audit row, then: stop at the first failure, or take the next step.      *)
AuditStep(w) ==
    /\ pc[w] = "auditStep"
    /\ AppendAudit(call[w].ex, "remediation.step.result")
    /\ IF stepOk[w] THEN NextStep(w, idx[w] + 1) ELSE Goto(w, "toFailed")
    /\ UNCHANGED <<rows, events, tokens, history, startup, errors>>

(* Both ends of the loop leave executing by a conditional update; a conflict   *)
(* returns the error.                                                          *)
Leave(w, at, to, next) ==
    LET e == call[w].ex IN
    /\ pc[w] = at
    /\ \/ TransitionExecution(e, "executing", to) /\ Goto(w, next)
       \/ status[e] # "executing" /\ UNCHANGED status /\ Return(w)
    /\ UNCHANGED <<runbookHash, runbook, trail, tokens, history, startup, errors>>

ToFailed(w) == Leave(w, "toFailed", "remediation_failed", "auditFailed")

AuditFailed(w) == appendAudit(w, "auditFailed", "remediation.failed", "eventFailed")

EventFailed(w) == appendLastEvent(w, "eventFailed", "remediation_failed")

ToVerifying(w) == Leave(w, "toVerifying", "verifying", "auditVerifying")

AuditVerifying(w) ==
    appendAudit(w, "auditVerifying", "remediation.verifying", "eventVerifying")

(* Verify runs after this event; it reads the host and changes nothing here.   *)
(* One step_verification event per step follows, then internal_verification.   *)
NextVerification(w, i) ==
    /\ pc' = [pc EXCEPT ![w] = IF i <= Len(runbook[call[w].ex].steps)
                                THEN "stepVerification" ELSE "internalVerification"]
    /\ idx' = [idx EXCEPT ![w] = i]
    /\ UNCHANGED <<call, stepOk>>

EventVerifying(w) ==
    /\ pc[w] = "eventVerifying"
    /\ AppendRemediationEvent(call[w].ex, Event("verification_started"))
    /\ NextVerification(w, 1)
    /\ UNCHANGED <<rows, audit, tokens, history, startup, errors>>

EventStepVerification(w) ==
    /\ pc[w] = "stepVerification"
    /\ AppendRemediationEvent(call[w].ex, Event("step_verification"))
    /\ NextVerification(w, idx[w] + 1)
    /\ UNCHANGED <<rows, audit, tokens, history, startup, errors>>

EventInternalVerification(w) ==
    appendLastEvent(w, "internalVerification", "internal_verification")

--------------------------------------------------------------------------------
(* Failures and restart.                                                       *)

(* Labels at which the next thing a call does is not a store statement.        *)
NoStorePcs == {"idle", "step"}

(* A store call fails: every caller returns the error at once and leaves what  *)
(* it had written.                                                             *)
StoreError(w) ==
    /\ pc[w] \notin NoStorePcs
    /\ errors < MaxErrors
    /\ errors' = errors + 1
    /\ Return(w)
    /\ UNCHANGED <<rows, trail, tokens, history, startup>>

(* The agent stops: every goroutine is gone, the database and the host stay.   *)
Crash ==
    /\ agent # "down"
    /\ crashes < MaxCrashes
    /\ crashes' = crashes + 1
    /\ agent' = "down"
    /\ todo' = {}
    /\ fixing' = None
    /\ pc' = [w \in Workers |-> "idle"]
    /\ call' = [w \in Workers |-> None]
    /\ idx' = [w \in Workers |-> 0]
    /\ stepOk' = [w \in Workers |-> TRUE]
    /\ UNCHANGED <<rows, trail, tokens, history, errors>>

Restart ==
    /\ agent = "down"
    /\ agent' = "list"
    /\ UNCHANGED <<rows, trail, tokens, history, pc, call, loop, todo, fixing, crashes, errors>>

(* RecoverInterrupted runs before requests are served.  It takes the rows left *)
(* in flight one at a time; they have no order the ledger fixes (created_at    *)
(* has one-second resolution).                                                 *)
RecoverNext(S) ==
    \/ /\ S = {}
       /\ agent' = "up" /\ todo' = {} /\ fixing' = None
    \/ \E e \in S : agent' = "toInterrupted" /\ todo' = S \ {e} /\ fixing' = e

(* Mutant: recovery forgets the executions that were still running steps.      *)
InFlightVerifying == {e \in Executions : status[e] = "verifying"}

InFlightExecutions == {e \in Executions : status[e] \in {"executing", "verifying"}}

RecoverList ==
    /\ agent = "list"
    /\ RecoverNext(InFlightExecutions)
    /\ UNCHANGED <<rows, trail, tokens, history, pc, call, loop, crashes, errors>>

RecoverTransition ==
    /\ agent = "toInterrupted"
    /\ \E s \in {"executing", "verifying"} :
          TransitionExecution(fixing, s, "remediation_failed")
    /\ agent' = "auditInterrupted"
    /\ UNCHANGED <<runbookHash, runbook, trail, tokens, history, pc, call, loop, todo, fixing,
                   crashes, errors>>

RecoverAudit ==
    /\ agent = "auditInterrupted"
    /\ AppendAudit(fixing, "remediation.failed")
    /\ agent' = "eventInterrupted"
    /\ UNCHANGED <<rows, events, tokens, history, pc, call, loop, todo, fixing, crashes, errors>>

RecoverEvent ==
    /\ agent = "eventInterrupted"
    /\ AppendRemediationEvent(fixing, Event("remediation_failed"))
    /\ RecoverNext(todo)
    /\ UNCHANGED <<rows, audit, tokens, history, pc, call, loop, crashes, errors>>

(* main only logs a recovery error and serves.                                 *)
RecoverError ==
    /\ agent \in Agents \ {"up", "down"}
    /\ errors < MaxErrors
    /\ errors' = errors + 1
    /\ agent' = "up" /\ todo' = {} /\ fixing' = None
    /\ UNCHANGED <<rows, trail, tokens, history, pc, call, loop, crashes>>

--------------------------------------------------------------------------------
(* One step of the call worker w is in.                                        *)
ProposeStep(w) ==
    \/ GetRunbook(w) \/ CreateRunbook(w) \/ CreateExecution(w)
    \/ AuditProposed(w) \/ EventProposed(w) \/ AuditBlocked(w) \/ EventBlocked(w)
    \/ DeriveRollback(w) \/ DeriveFromEvents(w)

ApproveStep(w) ==
    \/ approveAndAckExecute(w) \/ Approve(w) \/ ConsumeToken(w)
    \/ MarkConfirmationTokenUsed(w) \/ ToApproved(w)
    \/ AuditApproved(w) \/ EventApproved(w)

DeclineStep(w) ==
    \/ Decline(w) \/ ToDeclined(w) \/ AuditDeclined(w) \/ EventDeclined(w)

ExecuteLoop(w) ==
    \/ Execute(w) \/ ToExecuting(w) \/ AuditStarted(w) \/ EventStarted(w)
    \/ \E ok \in BOOLEAN : ExecuteStep(w, ok)
    \/ EventStep(w) \/ AuditStep(w)
    \/ ToFailed(w) \/ AuditFailed(w) \/ EventFailed(w)
    \/ ToVerifying(w) \/ AuditVerifying(w) \/ EventVerifying(w)
    \/ EventStepVerification(w) \/ EventInternalVerification(w)

Step(w) == ProposeStep(w) \/ ApproveStep(w) \/ DeclineStep(w) \/ ExecuteLoop(w)

(* What the playbook service and the phone may ask for.                        *)
Request(w) ==
    \/ \E p \in Primaries, rb \in Runbooks : Propose(w, p, rb)
    \/ \E p \in Primaries : RequestRollback(w, p)
    \/ \E e \in Executions, x \in Executions, t \in Tokens : RequestExecute(w, e, x, t)
    \/ \E e \in Executions : RequestDecline(w, e)

Recovery == Restart \/ RecoverList \/ RecoverTransition \/ RecoverAudit \/ RecoverEvent

Next ==
    \/ \E w \in Workers : Step(w) \/ Request(w) \/ StoreError(w)
    \/ \E t \in Tokens, e \in Executions, a \in {"execute", "rollback"} :
          MintConfirmationToken(t, e, a)
    \/ Crash
    \/ Recovery
    \/ RecoverError

Spec == Init /\ [][Next]_vars

(* Goroutines are scheduled, store calls and host steps return (every step has *)
(* a timeout), and systemd restarts an agent that died (Restart=on-failure).   *)
FairSpec == Spec /\ (\A w \in Workers : WF_vars(Step(w))) /\ WF_vars(Recovery)

(* The phone, too, keeps retrying incident.runbook.execute with the right hash.*)
RetrySpec ==
    /\ FairSpec
    /\ \A e \in Executions :
          SF_vars(\E w \in Workers, t \in Tokens : RequestExecute(w, e, e, t))

--------------------------------------------------------------------------------
(* Properties.                                                                 *)

(* Execute, its retries and a restart run every step of an execution at most   *)
(* once, in runbook order, and nothing after the first failure.                *)
RunsInOrderOnce ==
    \A e \in Executions :
        /\ host[e] # <<>> => /\ runbook[e] # None
                             /\ Len(host[e]) <= Len(runbook[e].steps)
        /\ \A k \in 1..Len(host[e]) :
              host[e][k].index = k /\ (k < Len(host[e]) => host[e][k].ok)

(* Approve's token is the authority for a run: whatever has left proposed by   *)
(* approval has a consumed token of its own, minted for this kind of action,   *)
(* this incident and exactly the content that is stored, and is not L3.        *)
EveryRunHasItsToken ==
    /\ \A e \in Executions :
          (status[e] \in {"approved", "executing"} \cup DerivableStatuses \/ host[e] # <<>>)
          => /\ runbook[e] # None /\ ~runbook[e].blocked
             /\ grant[e] \in used
             /\ binding[grant[e]] = remediationTokenBinding(e, ContentHash(runbook[e]))
    /\ \A e, d \in Executions : grant[e] # None /\ grant[e] = grant[d] => e = d

(* DeriveRollback is a function of the ledger that no later step changes: as   *)
(* soon as a rollback is stored, deriving it again gives the same content, and *)
(* its row carries that content's hash, so a retried derivation never          *)
(* conflicts and the reviewed runbook is the one that runs.                    *)
RollbackIsStable ==
    \A p \in Primaries :
        LET e == <<p, "execute">>
            r == <<p, "rollback">>
        IN  runbook[r] # None =>
            /\ status[e] \in DerivableStatuses
            /\ \E f \in LastFirst(Undoable(e)) : runbook[r] = RollbackRunbook(e, f)
            /\ runbookHash[r] \in {None, ContentHash(runbook[r])}

(* The durable step_result events say what the host saw, except that the last  *)
(* run may have no event (the event is written after the step), and verifying  *)
(* is only reached with every step recorded.                                   *)
LedgerTracksHost ==
    \A e \in Executions :
        LET results == {k \in 1..Len(events[e]) : events[e][k].type = "step_result"}
        IN  /\ Cardinality(results) \in {Len(host[e]) - 1, Len(host[e])}
            /\ \A k \in results :
                  /\ events[e][k].index \in 1..Len(host[e])
                  /\ host[e][events[e][k].index].ok = events[e][k].ok
            /\ status[e] = "verifying" => Cardinality(results) = Len(runbook[e].steps)

(* Two goroutines are never both about to change the host for one primary or   *)
(* its rollback: a duplicate Execute finds no work, and a rollback can only be *)
(* derived once its parent runs no more steps.                                 *)
OneMutatorAtATime ==
    \A v, w \in Workers :
        pc[v] = "step" /\ pc[w] = "step" /\ call[v].ex[1] = call[w].ex[1] => v = w

(* A replayed trail tells the story in order: the approval is recorded, as an  *)
(* audit row and as an event, before execution_started, and that before any    *)
(* step_result; duplicates and races never reorder it.                         *)
TrailIsOrdered ==
    \A e \in Executions :
        LET at(typ) == {k \in 1..Len(events[e]) : events[e][k].type = typ}
        IN  /\ Cardinality(at("execution_started")) <= 1
            /\ \A k \in at("execution_started") :
                  /\ \E j \in at("runbook_approved") : j < k
                  /\ \E j \in 1..Len(audit[e]) : audit[e][j] = "remediation.approved"
            /\ \A k \in at("step_result") : \E j \in at("execution_started") : j < k

(* The ledger implements the lifecycle it promises.                            *)
Lifecycle == INSTANCE ExecutionLifecycle WITH
    phase <- status,
    plan <- [e \in Executions |-> IF status[e] = "none" THEN <<>> ELSE runbook[e].steps],
    log <- host,
    gen <- crashes

ImplementsLifecycle == Lifecycle!Spec

(* An execution that began running settles, in verifying or remediation_failed,*)
(* even when the agent crashes: Execute or the next RecoverInterrupted does it.*)
InFlightSettles ==
    \A e \in Executions : status[e] = "executing" ~> status[e] # "executing"

(* An approved execution starts, as long as the agent lives: whoever approves  *)
(* it hands it to Execute, and no duplicate or decline gets in between.        *)
ApprovedStarts ==
    \A e \in Executions :
        status[e] = "approved" /\ crashes = 0 ~> status[e] # "approved" \/ crashes > 0

--------------------------------------------------------------------------------
(* What comments in the code claim and the code does not do.                   *)

(* approveAndAckExecute's comment: a retried call for an execution that has    *)
(* left proposed re-issues Execute, so that an approved execution starts.      *)
RetryStartsApproved ==
    \A e \in Executions : status[e] = "approved" ~> status[e] # "approved"

================================================================================
