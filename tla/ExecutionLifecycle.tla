-------------------------- MODULE ExecutionLifecycle ---------------------------
(* What the remediation ledger promises of each execution, without workers,    *)
(* tokens, rows or trails: its phase, the steps it is made of, and the runs of *)
(* those steps the host has seen.  The agent lives through incarnations; only  *)
(* the incarnation that started an execution may run its steps.                *)
EXTENDS Integers, Sequences

CONSTANTS Executions, \* <<id, "execute">> and <<id, "rollback">>
          Kinds, UndoOf, NoUndo, None

VARIABLES phase, plan, log, owner, gen

vars == <<phase, plan, log, owner, gen>>

Init ==
    /\ phase = [e \in Executions |-> "none"]
    /\ plan = [e \in Executions |-> <<>>]
    /\ log = [e \in Executions |-> <<>>]
    /\ owner = [e \in Executions |-> None]
    /\ gen = 0

Move(e, from, to) == phase[e] = from /\ phase' = [phase EXCEPT ![e] = to]

(* The steps of a rollback undo, last first, steps of its parent that ran and  *)
(* succeeded, and the parent runs no more steps.                               *)
Undoes(steps, e) ==
    LET parent == <<e[1], "execute">>
        done == {k \in 1..Len(log[parent]) :
                    /\ log[parent][k].ok
                    /\ UndoOf[plan[parent][k]] # NoUndo}
    IN  /\ phase[parent] \in {"verifying", "remediation_failed"}
        /\ \E f \in [1..Len(steps) -> done] :
              /\ \A i, j \in 1..Len(steps) : i < j => f[i] > f[j]
              /\ \A j \in 1..Len(steps) : steps[j] = UndoOf[plan[parent][f[j]]]

Propose(e) ==
    /\ \/ Move(e, "none", "proposed")
       \/ Move(e, "none", "blocked_l3")
    /\ plan'[e] \in Seq(Kinds)
    /\ e[2] = "rollback" => Undoes(plan'[e], e)
    /\ plan' = [plan EXCEPT ![e] = plan'[e]]
    /\ UNCHANGED <<log, owner, gen>>

Approve(e) == Move(e, "proposed", "approved") /\ UNCHANGED <<plan, log, owner, gen>>

Decline(e) == Move(e, "proposed", "declined") /\ UNCHANGED <<plan, log, owner, gen>>

Start(e) ==
    /\ Move(e, "approved", "executing")
    /\ owner' = [owner EXCEPT ![e] = gen]
    /\ UNCHANGED <<plan, log, gen>>

AllOk(e) == \A k \in 1..Len(log[e]) : log[e][k].ok

(* The next step in order, once, and only while every earlier one succeeded.   *)
RunStep(e, ok) ==
    /\ phase[e] = "executing"
    /\ owner[e] = gen
    /\ AllOk(e)
    /\ Len(log[e]) < Len(plan[e])
    /\ log' = [log EXCEPT ![e] = Append(@, [index |-> Len(@) + 1, ok |-> ok])]
    /\ UNCHANGED <<phase, plan, owner, gen>>

Complete(e) ==
    /\ Len(log[e]) = Len(plan[e])
    /\ AllOk(e)
    /\ owner[e] = gen
    /\ Move(e, "executing", "verifying")
    /\ UNCHANGED <<plan, log, owner, gen>>

Fail(e) ==
    /\ ~AllOk(e)
    /\ owner[e] = gen
    /\ Move(e, "executing", "remediation_failed")
    /\ UNCHANGED <<plan, log, owner, gen>>

(* A later incarnation closes what an earlier one left in flight.              *)
CloseInterrupted(e) ==
    /\ owner[e] # gen
    /\ \E from \in {"executing", "verifying"} : Move(e, from, "remediation_failed")
    /\ UNCHANGED <<plan, log, owner, gen>>

NewIncarnation == gen' = gen + 1 /\ UNCHANGED <<phase, plan, log, owner>>

Next ==
    \/ \E e \in Executions :
          \/ Propose(e) \/ Approve(e) \/ Decline(e) \/ Start(e)
          \/ \E ok \in BOOLEAN : RunStep(e, ok)
          \/ Complete(e) \/ Fail(e) \/ CloseInterrupted(e)
    \/ NewIncarnation

Spec == Init /\ [][Next]_vars
================================================================================
