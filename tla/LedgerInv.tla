------------------------------- MODULE LedgerInv -------------------------------
(* The inductive invariants behind the remediation ledger's other promises, on *)
(* top of ExecuteInv: what the durable events say of the host, which content a *)
(* row and a call carry, which token stands behind a run, what is on record at *)
(* each label, and which incarnation of the agent may touch an execution.      *)
EXTENDS RemediationInv

--------------------------------------------------------------------------------
(* The record of the host's runs.                                              *)

(* Positions of an execution's durable events of one type.                     *)
EventsOf(e, typ) == {k \in 1..Len(events[e]) : events[e][k].type = typ}

Results(e) == EventsOf(e, "step_result")

AllRunsOk(e) == \A k \in 1..Len(host[e]) : host[e][k].ok

(* Each result names a run of its own and its outcome, in the order of the     *)
(* runs, and at most the last run has none.                                    *)
ResultsMatchRuns(e) ==
    /\ \A k \in Results(e) :
          /\ events[e][k].index \in 1..Len(host[e])
          /\ host[e][events[e][k].index].ok = events[e][k].ok
    /\ \A j, k \in Results(e) : j < k => events[e][j].index < events[e][k].index
    /\ Cardinality(Results(e)) \in {Len(host[e]) - 1, Len(host[e])}
    /\ status[e] = "verifying" => /\ Cardinality(Results(e)) = Len(host[e])
                                  /\ Len(host[e]) = Len(runbook[e].steps)

(* Only between the step and its event is a run without a result, and the loop *)
(* is left at the end of the list or at a failure.                             *)
LoopMatchesRecord(w) ==
    LET e == call[w].ex IN
    /\ pc[w] \in StepPcs \ {"eventStep"} => Cardinality(Results(e)) = Len(host[e])
    /\ pc[w] = "eventStep" => /\ Cardinality(Results(e)) = Len(host[e]) - 1
                              /\ \A k \in Results(e) : events[e][k].index < Len(host[e])
    /\ pc[w] = "auditStep" => host[e] # <<>>
    /\ pc[w] = "toVerifying" => Len(host[e]) = Len(runbook[e].steps) /\ AllRunsOk(e)
    /\ pc[w] = "toFailed" => ~AllRunsOk(e)

RecordInv ==
    /\ \A e \in Executions : ResultsMatchRuns(e)
    /\ \A w \in Workers : LoopMatchesRecord(w)

--------------------------------------------------------------------------------
(* The content of rows and proposals.                                          *)

(* A row carries the hash and the L3 verdict of the content that is stored.    *)
RowMatchesContent(e) ==
    IF status[e] = "none"
    THEN runbookHash[e] = None
    ELSE /\ runbook[e] # None
         /\ runbookHash[e] = ContentHash(runbook[e])
         /\ status[e] = "blocked_l3" <=> runbook[e].blocked

(* rb is what DeriveRollback makes of the parent of r.                         *)
Derived(r, rb) ==
    /\ runbook[Parent(r)] # None
    /\ \E f \in LastFirst(Undoable(Parent(r))) : rb = RollbackRunbook(Parent(r), f)

RollbackIsDerived(e) ==
    e[2] = "rollback" /\ runbook[e] # None => Derived(e, runbook[e])

(* A rollback is proposed with its derivation and a primary by one call only;  *)
(* after the write-once row is read or written, it holds the proposed content. *)
ProposalMatchesContent(w) ==
    LET e == call[w].ex IN
    pc[w] \in ProposePcs =>
        /\ e[2] = "rollback" => Derived(e, call[w].rb)
        /\ e[2] = "execute" /\ pc[w] \in {"getRunbook", "createRunbook", "createExecution"} =>
              /\ status[e] = "none"
              /\ \A v \in Workers : pc[v] # "idle" /\ call[v].ex = e => v = w
        /\ e[2] = "execute" /\ pc[w] \in {"getRunbook", "createRunbook"} => runbook[e] = None
        /\ pc[w] \notin {"getRunbook", "createRunbook"} => runbook[e] = call[w].rb

(* Nothing in the agent moves an execution to resolved.                        *)
NeverResolved == \A e \in Executions : status[e] # "resolved"

ContentInv ==
    /\ \A e \in Executions : RowMatchesContent(e) /\ RollbackIsDerived(e)
    /\ \A w \in Workers : ProposalMatchesContent(w)
    /\ NeverResolved

--------------------------------------------------------------------------------
(* The authority of a run.                                                     *)

Granted(e) ==
    /\ grant[e] \in used
    /\ binding[grant[e]] = remediationTokenBinding(e, ContentHash(runbook[e]))

(* What Approve has checked, and ConsumeToken won, at each of its labels.      *)
TokenIsHeld(w) ==
    LET c == call[w] IN
    /\ pc[w] \in {"consumeToken", "markTokenUsed", "toApproved"} =>
          runbook[c.ex] # None /\ c.req = ContentHash(runbook[c.ex])
    /\ pc[w] \in {"markTokenUsed", "toApproved"} =>
          binding[c.tk] = remediationTokenBinding(c.ex, c.req)
    /\ pc[w] = "toApproved" =>
          /\ c.tk \in used
          /\ \A e \in Executions : grant[e] # c.tk
          /\ \A v \in Workers : pc[v] = "toApproved" /\ call[v].tk = c.tk => v = w

AuthorityInv ==
    /\ \A e \in Executions :
          /\ grant[e] # None => grant[e] \in used
          /\ status[e] \in {"approved", "executing"} \cup DerivableStatuses => Granted(e)
    /\ \A e, d \in Executions : grant[e] # None /\ grant[e] = grant[d] => e = d
    /\ \A w \in Workers : TokenIsHeld(w)

--------------------------------------------------------------------------------
(* The order of the trail.                                                     *)

AuditHas(e, typ) == \E j \in 1..Len(audit[e]) : audit[e][j] = typ

ApprovalIsRecorded(e) ==
    EventsOf(e, "runbook_approved") # {} /\ AuditHas(e, "remediation.approved")

(* At most one start, after the approval, and before every result.             *)
TrailOfOne(e) ==
    /\ status[e] \in {"executing"} \cup DerivableStatuses => ApprovalIsRecorded(e)
    /\ status[e] \in NotStarted => EventsOf(e, "execution_started") = {}
    /\ \A j, k \in EventsOf(e, "execution_started") : j = k
    /\ \A k \in EventsOf(e, "execution_started") :
          \E j \in EventsOf(e, "runbook_approved") : j < k
    /\ EventsOf(e, "execution_started") # {} => AuditHas(e, "remediation.approved")
    /\ \A k \in EventsOf(e, "step_result") :
          \E j \in EventsOf(e, "execution_started") : j < k

(* Whoever hands an execution to Execute has its approval on record.           *)
TrailSoFar(w) ==
    LET e == call[w].ex IN
    /\ pc[w] = "eventApproved" => AuditHas(e, "remediation.approved")
    /\ pc[w] \in {"execute", "toExecuting"} => ApprovalIsRecorded(e)
    /\ pc[w] \in {"auditStarted", "eventStarted"} => EventsOf(e, "execution_started") = {}
    /\ pc[w] \in StepPcs \ {"auditStarted", "eventStarted"} =>
          EventsOf(e, "execution_started") # {}

TrailInv ==
    /\ \A e \in Executions : TrailOfOne(e)
    /\ \A w \in Workers : TrailSoFar(w)

--------------------------------------------------------------------------------
(* Incarnations.                                                               *)

(* The step loop runs in the incarnation that started the execution, and what  *)
(* is in flight while the agent is not serving was started by an earlier one.  *)
OwnerInv ==
    /\ \A w \in Workers : pc[w] \in StepPcs => owner[call[w].ex] = crashes
    /\ \A e \in Executions :
          status[e] \in {"executing", "verifying"} =>
              owner[e] \in 0..(IF agent = "up" THEN crashes ELSE crashes - 1)

LedgerInv == RecordInv /\ ContentInv /\ AuthorityInv /\ TrailInv /\ OwnerInv
================================================================================
