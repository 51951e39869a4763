---------------------------- MODULE PlaybookService ----------------------------
(* The playbook service (internal/playbook/service.go): an incident the relay  *)
(* reports, or the user's request, leads to at most one proposed playbook. A   *)
(* goroutine per preparation; the automatic ones share MaxPreparing slots. The *)
(* rules and the check of a draft are PlaybookRules', the executions' life     *)
(* after the proposal Remediation's: here a user declines one or it settles.   *)
EXTENDS Integers, Sequences, FiniteSets

CONSTANTS Incidents,
          Workers,       \* goroutines in prepare
          MaxPreparing,  \* the slots of automatic preparations
          MaxDeclines,   \* bound: executions declined
          MaxFaults      \* bound: failed store calls and crashes

None == "none"
Severities == {"critical", "warning"}
Statuses == {"proposed", "declined", "settled"}

VARIABLES binding,   \* the rows of incident_bindings: the severity, or None
          execs,     \* the statuses of an incident's primary executions, oldest first
          preparing, \* Service.preparing
          slots,     \* workers that hold a slot
          work,      \* the goroutines: pc, incident, whether the user asked, severity
          faults     \* failed store calls and crashes so far

vars == <<binding, execs, preparing, slots, work, faults>>

Idle == [pc |-> "idle", inc |-> None, user |-> FALSE, severity |-> None]

TypeOK ==
    /\ binding \in [Incidents -> Severities \cup {None}]
    /\ \A i \in Incidents : execs[i] \in Seq(Statuses)
    /\ preparing \subseteq Incidents
    /\ slots \subseteq Workers /\ Cardinality(slots) <= MaxPreparing
    /\ \A w \in Workers :
          /\ work[w].pc \in {"idle", "slot", "begin", "active", "rules", "generate", "propose", "end"}
          /\ work[w].inc \in Incidents \cup {None}
    /\ faults \in 0..MaxFaults

Init ==
    /\ binding = [i \in Incidents |-> None]
    /\ execs = [i \in Incidents |-> <<>>] /\ preparing = {} /\ slots = {}
    /\ work = [w \in Workers |-> Idle]
    /\ faults = 0

Goto(w, pc) == work' = [work EXCEPT ![w].pc = pc]

--------------------------------------------------------------------------------
(* The relay's answer to a batch names the incident a firing event opened or   *)
(* joined, again when the batch was sent again. Only the call that stores the  *)
(* binding starts a goroutine.                                                 *)
IncidentOpened(i, severity) ==
    IF binding[i] # None THEN UNCHANGED vars
    ELSE \E w \in Workers :
            /\ work[w].pc = "idle"
            /\ binding' = [binding EXCEPT ![i] = severity]
            /\ work' = [work EXCEPT ![w] = [pc |-> "slot", inc |-> i, user |-> FALSE,
                                            severity |-> severity]]
            /\ UNCHANGED <<execs, preparing, slots, faults>>

TakeSlot(w) ==
    /\ work[w].pc = "slot" /\ Cardinality(slots) < MaxPreparing
    /\ slots' = slots \cup {w}
    /\ Goto(w, "begin")
    /\ UNCHANGED <<binding, execs, preparing, faults>>

(* autoTimeout, or the agent's shutdown, while every slot is taken.            *)
SlotTimeout(w) ==
    /\ work[w].pc = "slot" /\ Cardinality(slots) = MaxPreparing
    /\ work' = [work EXCEPT ![w] = Idle]
    /\ UNCHANGED <<binding, execs, preparing, slots, faults>>

(* Generate, on a goroutine of the user's request: the incident must be known  *)
(* here or described by the request, and is refused while the agent is not     *)
(* enrolled.                                                                   *)
Generate(i, described) ==
    /\ binding[i] # None \/ described
    /\ \E w \in Workers :
          /\ work[w].pc = "idle"
          /\ work' = [work EXCEPT ![w] = [pc |-> "begin", inc |-> i, user |-> TRUE,
                                          severity |-> None]]
    /\ UNCHANGED <<binding, execs, preparing, slots, faults>>

--------------------------------------------------------------------------------
(* prepare                                                                     *)
(* Mutant: two preparations of one incident may run.                           *)
beginAlways(w) ==
    /\ work[w].pc = "begin"
    /\ preparing' = preparing \cup {work[w].inc} /\ Goto(w, "active") /\ UNCHANGED slots
    /\ UNCHANGED <<binding, execs, faults>>

(* One preparation per incident; a second one returns, and frees its slot.     *)
begin(w) ==
    /\ work[w].pc = "begin"
    /\ IF work[w].inc \in preparing
       THEN work' = [work EXCEPT ![w] = Idle] /\ slots' = slots \ {w} /\ UNCHANGED preparing
       ELSE preparing' = preparing \cup {work[w].inc} /\ Goto(w, "active") /\ UNCHANGED slots
    /\ UNCHANGED <<binding, execs, faults>>

Active(i) == {e \in DOMAIN execs[i] : execs[i][e] # "declined"}

(* The execution of the incident that was not declined is returned.            *)
activeExecution(w) ==
    /\ work[w].pc = "active"
    /\ Goto(w, IF Active(work[w].inc) = {} THEN "rules" ELSE "end")
    /\ UNCHANGED <<binding, execs, preparing, slots, faults>>

(* Mutant: the preparation that fails to read the store stays registered.      *)
activeExecutionLeaks(w) ==
    /\ work[w].pc = "active" /\ faults < MaxFaults
    /\ faults' = faults + 1
    /\ work' = [work EXCEPT ![w] = Idle] /\ slots' = slots \ {w}
    /\ UNCHANGED <<binding, execs, preparing>>

activeExecutionFails(w) ==
    /\ work[w].pc = "active" /\ faults < MaxFaults
    /\ faults' = faults + 1
    /\ Goto(w, "end")
    /\ UNCHANGED <<binding, execs, preparing, slots>>

(* A catalog playbook that fits and passes its check is proposed. Otherwise    *)
(* only a user or a critical incident is worth a request to the relay.         *)
FromBundle(w, fits) ==
    /\ work[w].pc = "rules"
    /\ Goto(w, IF fits THEN "propose"
               ELSE IF ~work[w].user /\ work[w].severity # "critical" THEN "end"
               ELSE "generate")
    /\ UNCHANGED <<binding, execs, preparing, slots, faults>>

(* The relay's answer, or its refusal, a failed check, a timeout.              *)
GeneratorGenerate(w, ok) ==
    /\ work[w].pc = "generate"
    /\ Goto(w, IF ok THEN "propose" ELSE "end")
    /\ UNCHANGED <<binding, execs, preparing, slots, faults>>

propose(w) ==
    /\ work[w].pc = "propose"
    /\ execs' = [execs EXCEPT ![work[w].inc] = Append(@, "proposed")]
    /\ Goto(w, "end")
    /\ UNCHANGED <<binding, preparing, slots, faults>>

(* Propose fails before it stored the execution, or after.                     *)
proposeFails(w) ==
    /\ work[w].pc = "propose" /\ faults < MaxFaults
    /\ faults' = faults + 1
    /\ Goto(w, "end")
    /\ UNCHANGED <<binding, execs, preparing, slots>>

(* The deferred calls: the incident is free again, and the slot.               *)
end(w) ==
    /\ work[w].pc = "end"
    /\ preparing' = preparing \ {work[w].inc} /\ slots' = slots \ {w}
    /\ work' = [work EXCEPT ![w] = Idle]
    /\ UNCHANGED <<binding, execs, faults>>

prepare(w) ==
    \/ TakeSlot(w) \/ SlotTimeout(w) \/ begin(w) \/ activeExecution(w) \/ propose(w) \/ end(w)
    \/ \E b \in BOOLEAN : FromBundle(w, b) \/ GeneratorGenerate(w, b)

--------------------------------------------------------------------------------
Declined == Cardinality(UNION {{<<i, e>> : e \in DOMAIN execs[i] \ Active(i)} : i \in Incidents})

(* The ledger: a proposed execution is declined, or approved and settles.      *)
Ledger ==
    /\ \E i \in Incidents, s \in {"declined", "settled"} : \E e \in DOMAIN execs[i] :
          /\ execs[i][e] = "proposed"
          /\ s = "declined" => Declined < MaxDeclines
          /\ execs' = [execs EXCEPT ![i][e] = s]
    /\ UNCHANGED <<binding, preparing, slots, work, faults>>

Crash ==
    /\ faults < MaxFaults /\ faults' = faults + 1
    /\ preparing' = {} /\ slots' = {} /\ work' = [w \in Workers |-> Idle]
    /\ UNCHANGED <<binding, execs>>

Next ==
    \/ \E w \in Workers : prepare(w) \/ activeExecutionFails(w) \/ proposeFails(w)
    \/ \E i \in Incidents, s \in Severities : IncidentOpened(i, s)
    \/ \E i \in Incidents, b \in BOOLEAN : Generate(i, b)
    \/ Ledger \/ Crash

(* Goroutines run on, and the relay call ends by its deadline.                 *)
Fairness == \A w \in Workers : WF_vars(prepare(w))

Spec == Init /\ [][Next]_vars /\ Fairness

--------------------------------------------------------------------------------
(* However reports, requests, retries and crashes interleave, an incident has  *)
(* at most one playbook that was not declined, and the relay is only asked for *)
(* one while there is none, by one goroutine ("asking twice never costs a      *)
(* second request to the playbook service", service.go).                       *)
OnePlaybookPerIncident ==
    \A i \in Incidents :
        LET asking == {w \in Workers : work[w].inc = i /\ work[w].pc \in {"rules", "generate", "propose"}}
        IN  Cardinality(Active(i)) + Cardinality(asking) <= 1

(* No preparation keeps its incident from being prepared again, or its slot    *)
(* from the others, whatever fails in it.                                      *)
PreparationEnds == (\A i \in Incidents : []<>(i \notin preparing)) /\ []<>(slots = {})
================================================================================
