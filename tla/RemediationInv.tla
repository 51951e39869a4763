---------------------------- MODULE RemediationInv ----------------------------
(* The inductive invariant behind the safety of Execute: what is true of the   *)
(* rows, the host and every goroutine at each label, at every moment.          *)
EXTENDS Remediation

(* Statuses an execution has before Execute has taken it over.                 *)
NotStarted == {"none", "proposed", "approved", "declined", "blocked_l3"}

(* A goroutine in the step loop owns an execution that is executing.           *)
OwnsExecution(w) == pc[w] \in StepPcs => status[call[w].ex] = "executing"

(* The runbook a call runs or inverts is stored.                               *)
RunbookIsStored(w) ==
    pc[w] \in {"successfulSteps", "toExecuting"} \cup StepPcs \cup EndPcs =>
        runbook[call[w].ex] # None

(* Where the loop is and what the host has seen agree.                         *)
LoopMatchesHost(w) ==
    LET e == call[w].ex
        allOk(n) == \A k \in 1..n : host[e][k].ok
    IN  /\ pc[w] \in {"auditStarted", "eventStarted"} => host[e] = <<>>
        /\ pc[w] = "step" => /\ Len(host[e]) = idx[w] - 1
                             /\ allOk(idx[w] - 1)
                             /\ idx[w] <= Len(runbook[e].steps)
        /\ pc[w] \in {"eventStep", "auditStep"} => /\ Len(host[e]) = idx[w]
                                                   /\ allOk(idx[w] - 1)
                                                   /\ stepOk[w] = host[e][idx[w]].ok

(* From the first write of a rollback's proposal on, its parent runs no more   *)
(* steps; only primaries are handed to DeriveRollback's event replay.          *)
ParentIsDone(w) ==
    /\ pc[w] \in DerivePcs => call[w].ex[2] = "execute"
    /\ pc[w] = "successfulSteps" => status[call[w].ex] \in DerivableStatuses
    /\ pc[w] \in ProposePcs /\ call[w].ex[2] = "rollback" =>
          status[Parent(call[w].ex)] \in DerivableStatuses

WorkerInv(w) ==
    OwnsExecution(w) /\ RunbookIsStored(w) /\ LoopMatchesHost(w) /\ ParentIsDone(w)

(* No two goroutines are in the step loop of one execution.                    *)
OwnerIsAlone ==
    \A v, w \in Workers :
        pc[v] \in StepPcs /\ pc[w] \in StepPcs /\ call[v].ex = call[w].ex => v = w

(* Recovery has the agent to itself.                                           *)
NobodyWhileDown == agent # "up" => \A w \in Workers : pc[w] = "idle"

NothingRanEarly == \A e \in Executions : status[e] \in NotStarted => host[e] = <<>>

RollbackFollowsParent ==
    \A e \in Executions :
        e[2] = "rollback" /\ (runbook[e] # None \/ status[e] # "none") =>
            status[Parent(e)] \in DerivableStatuses

(* What the goroutines know of the ledger, together with what is true of the   *)
(* ledger itself: every step preserves this conjunction.                       *)
ExecuteInv ==
    /\ \A w \in Workers : WorkerInv(w)
    /\ OwnerIsAlone
    /\ NobodyWhileDown
    /\ NothingRanEarly
    /\ RollbackFollowsParent
    /\ RunsInOrderOnce
================================================================================
