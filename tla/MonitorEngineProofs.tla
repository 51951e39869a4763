-------------------------- MODULE MonitorEngineProofs --------------------------
(* The monitor engine's two promises about paging, for any targets, thresholds,*)
(* cooldown, syncs, silences, faults and restarts: no page without its streak, *)
(* and no episode that a restart would resume without its page.                *)
EXTENDS MonitorEngine, TLAPS

--------------------------------------------------------------------------------
(* The inductive invariant.                                                    *)

(* Runtime nodes, without the bounds of a run.                                 *)
NodeType == [st   : {"healthy", "pending", "firing", "recovering", "resolved", "muted"},
             fail : Nat, ok : Nat, age : Nat]

TickType == [pc : {"idle", "loop", "step", "enqueue", "write", "put"},
             obs : [Targets -> Verdicts], todo : SUBSET Targets, retired : BOOLEAN,
             target : Targets \cup {None}, on : BOOLEAN,
             new : NodeType \cup {NoNode}, tr : {"firing", "resolved", None}]

Typed ==
    /\ states \in [Targets -> NodeType \cup {NoNode}]
    /\ stored \in [Targets -> NodeType \cup {NoNode}]
    /\ tick \in TickType
    /\ tick.pc \notin {"idle", "loop"} => tick.target \in Targets
    /\ sync \in [pc : {"idle", "mute", "put"}, todo : SUBSET Targets]
    /\ told \in [Targets -> {"firing", "resolved", "silenced", None}]
    /\ streak \in [Targets -> 0..MaxFail]
    /\ behind \subseteq Targets

(* process() is between the step of t's node and the end of its writes.        *)
Processes(t, pcs) == tick.pc \in pcs /\ tick.target = t

Paged(rt) == rt.st \in {"firing", "recovering"}
Announced(t) == told[t] \in {"firing", "silenced"} \/ t \in behind

(* What process() carries from the step to the writes: a transition is what    *)
(* the node says, and a node that stays in its episode had been announced.     *)
CarriesInv ==
    /\ tick.pc \in {"enqueue", "write", "put"} =>
          /\ tick.new \in NodeType
          /\ tick.tr = "resolved" => tick.new.st = "resolved"
          /\ tick.tr = "firing" => tick.new.st = "firing"
          /\ Paged(tick.new) => tick.tr = "firing" \/ Announced(tick.target)
          /\ tick.tr = "firing" /\ tick.pc # "enqueue" =>
                told[tick.target] \in {"firing", "silenced"}
          /\ tick.pc = "put" => states[tick.target] \in {tick.new, Node("muted")}
    /\ tick.pc \notin {"enqueue", "write", "put"} => tick.tr = None

(* An episode in the cache, or in the rows, was announced.                     *)
EpisodesInv ==
    \A t \in Targets : Paged(states[t]) => Announced(t) \/ Processes(t, {"write"})

(* A row is the node's, or is to be, or was, muted.                            *)
RowsInv ==
    \A t \in Targets :
        \/ t \in behind \/ Processes(t, {"put"})
        \/ stored[t] = states[t]
        \/ stored[t].st = "muted" \/ states[t].st = "muted"

(* A pending node counts no more failures than there were in a row.            *)
Counted(rt, t) == rt.st = "pending" => rt.fail <= streak[t] \/ t \in behind

CountsInv ==
    /\ \A t \in Targets :
          /\ states[t].st = "pending" => states[t].fail < FailureThreshold
          /\ stored[t].st = "pending" => stored[t].fail < FailureThreshold
          /\ Counted(states[t], t) \/ Processes(t, {"enqueue", "write"})
          /\ Counted(stored[t], t) \/ Processes(t, {"enqueue", "write", "put"})
    /\ tick.pc \in {"enqueue", "write", "put"} =>
          /\ Counted(tick.new, tick.target)
          /\ tick.new.st = "pending" => tick.new.fail < FailureThreshold
    /\ tick.pc = "enqueue" =>
          /\ tick.tr # None => Counted(states[tick.target], tick.target)
          /\ tick.tr # None => Counted(stored[tick.target], tick.target)
          /\ tick.tr = "firing" =>
                streak[tick.target] >= FailureThreshold \/ tick.target \in behind

EngineInv == Typed /\ CarriesInv /\ EpisodesInv /\ EpisodeWasPaged /\ RowsInv /\ CountsInv

--------------------------------------------------------------------------------
(* The state machine.                                                          *)

(* The changes a step makes to a node.                                         *)
LEMMA Changed ==
    ASSUME NEW rt \in NodeType, NEW n \in Nat
    PROVE  /\ [rt EXCEPT !.fail = n] \in NodeType
           /\ [rt EXCEPT !.ok = n] \in NodeType
           /\ [rt EXCEPT !.fail = n, !.ok = 0] \in NodeType
           /\ [rt EXCEPT !.st = "firing", !.fail = n, !.age = 0] \in NodeType
           /\ [rt EXCEPT !.st = "recovering", !.ok = 1, !.age = 0] \in NodeType
           /\ [rt EXCEPT !.st = "firing", !.ok = 0, !.age = 0] \in NodeType
           /\ [rt EXCEPT !.st = "resolved", !.ok = n, !.age = 0] \in NodeType
  BY DEF NodeType

(* One step of a node: what may become of it, and what it tells the relay.     *)
LEMMA StepIs ==
    ASSUME NEW rt \in NodeType, NEW failing \in BOOLEAN,
           rt.st = "pending" => rt.fail < FailureThreshold
    PROVE  LET new == stepState(rt, failing)
               tr == transition(rt, new)
           IN  /\ new \in NodeType /\ tr \in {"firing", "resolved", None}
               /\ new.st = "pending" =>
                     /\ failing /\ new.fail < FailureThreshold
                     /\ new.fail = IF rt.st = "pending" THEN rt.fail + 1 ELSE 1
               /\ tr = "resolved" => new.st = "resolved" /\ rt.st = "recovering"
               /\ tr = "firing" =>
                     /\ new.st = "firing" /\ failing
                     /\ \/ rt.st = "pending" /\ rt.fail + 1 >= FailureThreshold
                        \/ 1 >= FailureThreshold
               /\ Paged(new) => tr = "firing" \/ Paged(rt)
  <1> DEFINE new == stepState(rt, failing)
  <1>0. /\ FailureThreshold \in Nat \ {0} /\ RecoveryThreshold \in Nat \ {0} /\ Cooldown \in Nat
        /\ rt.fail \in Nat /\ rt.ok \in Nat /\ MaxFail \in Nat
    BY EngineAssumption DEF NodeType
  <1>1. ASSUME NEW r \in NodeType, NEW x, x = stepHealthy(r, failing)
        PROVE  /\ x \in NodeType
               /\ x.st \in {"healthy", "pending", "firing"}
               /\ x.st = "pending" => failing /\ x.fail = 1 /\ 1 < FailureThreshold
               /\ x.st = "firing" => failing /\ 1 >= FailureThreshold
    <2>1. CASE ~failing
      BY <1>1, <2>1 DEF stepHealthy, NodeType, Node
    <2>2. CASE failing
      <3>1. PICK s \in {"pending", "firing"} :
               x = [st |-> s, fail |-> 1, ok |-> 0, age |-> 0]
               /\ (s = "firing" <=> 1 >= FailureThreshold)
        BY <1>0, <1>1, <2>2 DEF stepHealthy, Node
      <3>2. x \in NodeType /\ x.st = s /\ x.fail = 1
        BY <3>1 DEF NodeType
      <3> QED BY <1>0, <2>2, <3>1, <3>2
    <2> QED BY <2>1, <2>2
  <1>2. CASE rt.st = "firing"
    <2>1. new = stepFiring(rt, failing)
      BY <1>2 DEF stepState
    <2> HIDE DEF new
    <2>2. new \in NodeType /\ Paged(new)
      <3>1. CASE failing
        <4> DEFINE n == IF rt.fail < MaxFail THEN rt.fail + 1 ELSE rt.fail
        <4>1. n \in Nat /\ new = [rt EXCEPT !.fail = n, !.ok = 0]
          BY <2>1, <3>1, <1>0 DEF stepFiring
        <4> HIDE DEF n
        <4>2. new.st = rt.st
          BY <4>1 DEF NodeType
        <4> QED BY <1>2, <4>1, <4>2, Changed DEF Paged
      <3>2. CASE ~failing
        BY <2>1, <3>2, <1>0, Changed DEF stepFiring, Paged, NodeType
      <3> QED BY <3>1, <3>2
    <2> QED BY <1>2, <2>2 DEF transition, Paged, None, new
  <1>3. CASE rt.st = "recovering"
    <2>1. new = stepRecovering(rt, failing)
      BY <1>3 DEF stepState
    <2> HIDE DEF new
    <2>2. new \in NodeType /\ new.st \in {"firing", "recovering", "resolved"}
      <3>1. CASE failing
        BY <2>1, <3>1, <1>0, Changed DEF stepRecovering, NodeType
      <3>2. CASE ~failing
        <4> DEFINE n == rt.ok + 1
        <4>1. n \in Nat /\ \/ new = [rt EXCEPT !.st = "resolved", !.ok = n, !.age = 0]
                           \/ new = [rt EXCEPT !.ok = n]
          BY <2>1, <3>2, <1>0 DEF stepRecovering
        <4> HIDE DEF n
        <4>2. new.st \in {"resolved", rt.st}
          BY <4>1 DEF NodeType
        <4> QED BY <1>3, <4>1, <4>2, Changed
      <3> QED BY <3>1, <3>2
    <2> QED BY <1>3, <2>2 DEF transition, Paged, None, new
  <1>4. CASE rt.st = "pending"
    <2>1. new = stepPending(rt, failing)
      BY <1>4 DEF stepState
    <2> HIDE DEF new
    <2>2. /\ new \in NodeType /\ new.st \in {"healthy", "pending", "firing"}
          /\ new.st = "pending" => /\ failing /\ new.fail = rt.fail + 1
                                   /\ rt.fail + 1 < FailureThreshold
          /\ new.st = "firing" => failing /\ rt.fail + 1 >= FailureThreshold
      <3>1. CASE ~failing
        BY <2>1, <3>1 DEF stepPending, NodeType, Node
      <3>2. CASE failing
        <4> DEFINE n == rt.fail + 1
        <4>1. n \in Nat
          BY <1>0
        <4>2. new = IF n >= FailureThreshold
                    THEN [rt EXCEPT !.st = "firing", !.fail = n, !.age = 0]
                    ELSE [rt EXCEPT !.fail = n]
          BY <2>1, <3>2 DEF stepPending
        <4> HIDE DEF n
        <4>3. CASE n >= FailureThreshold
          <5>1. new.st = "firing"
            BY <4>2, <4>3 DEF NodeType
          <5> QED BY <3>2, <4>1, <4>2, <4>3, <5>1, Changed DEF n
        <4>4. CASE ~(n >= FailureThreshold)
          <5>1. new.st = "pending" /\ new.fail = n /\ n < FailureThreshold
            BY <1>0, <1>4, <4>1, <4>2, <4>4 DEF NodeType
          <5> QED BY <3>2, <4>1, <4>2, <4>4, <5>1, Changed DEF n
        <4> QED BY <4>3, <4>4
      <3> QED BY <3>1, <3>2
    <2> QED BY <1>4, <2>2 DEF transition, Paged, None, new
  <1>5. CASE rt.st = "resolved" /\ rt.age < Cooldown
    <2>1. new = rt
      BY <1>0, <1>5 DEF stepState, NodeType
    <2> QED BY <1>5, <2>1 DEF transition, Paged, None
  <1>6. CASE rt.st = "resolved" /\ ~(rt.age < Cooldown)
    <2>1. rt.age >= Cooldown
      BY <1>0, <1>6 DEF NodeType
    <2>2. new = stepHealthy(Node("healthy"), failing)
      BY <1>6, <2>1 DEF stepState
    <2>3. Node("healthy") \in NodeType /\ Node("healthy").st = "healthy"
      BY DEF Node, NodeType
    <2> HIDE DEF new
    <2>4. /\ new \in NodeType
          /\ new.st \in {"healthy", "pending", "firing"}
          /\ new.st = "pending" => failing /\ new.fail = 1 /\ 1 < FailureThreshold
          /\ new.st = "firing" => failing /\ 1 >= FailureThreshold
      BY <1>1, <2>2, <2>3
    <2> QED BY <1>6, <2>4 DEF transition, Paged, None, new
  <1>7. CASE rt.st \in {"healthy", "muted"}
    <2>1. new = stepHealthy(rt, failing)
      BY <1>7 DEF stepState
    <2> HIDE DEF new
    <2>2. /\ new \in NodeType
          /\ new.st \in {"healthy", "pending", "firing"}
          /\ new.st = "pending" => failing /\ new.fail = 1 /\ 1 < FailureThreshold
          /\ new.st = "firing" => failing /\ 1 >= FailureThreshold
      BY <1>1, <1>7, <2>1
    <2> QED BY <1>7, <2>2 DEF transition, Paged, None, new
  <1> QED BY <1>2, <1>3, <1>4, <1>5, <1>6, <1>7 DEF NodeType

(* Time passes for a node.                                                     *)
LEMMA OlderIs ==
    ASSUME NEW rt \in NodeType \cup {NoNode}
    PROVE  /\ Older(rt) \in NodeType \cup {NoNode} /\ Older(rt).st = rt.st
           /\ rt.st = "pending" => Older(rt).fail = rt.fail
  <1>1. CASE rt = NoNode \/ rt.age = Cooldown
    BY <1>1 DEF Older
  <1>2. CASE rt \in NodeType /\ ~(rt = NoNode \/ rt.age = Cooldown)
    <2> DEFINE n == rt.age + 1
    <2>1. Older(rt) = [rt EXCEPT !.age = n] /\ n \in Nat
      BY <1>2 DEF Older, NodeType
    <2> HIDE DEF n
    <2> QED BY <1>2, <2>1 DEF NodeType
  <1> QED BY <1>1, <1>2

(* Nodes by name.                                                              *)
LEMMA NodeIs ==
    /\ \A s \in {"healthy", "muted"} : Node(s) \in NodeType /\ Node(s).st = s
    /\ NoNode.st = None
  BY DEF Node, NodeType, NoNode

(* A missing or muted node is stepped as a healthy one.                        *)
LEMMA CurrentIs ==
    ASSUME NEW t \in Targets, states[t] \in NodeType \cup {NoNode}
    PROVE  /\ Current(t) \in NodeType
           /\ Current(t) = states[t] \/ Current(t).st = "healthy"
  BY NodeIs DEF Current, NoNode

(* The tick goroutine between two observations.                                *)
LEMMA IdleIs ==
    ASSUME NEW obs \in [Targets -> Verdicts], NEW todo \in SUBSET Targets,
           NEW retired \in BOOLEAN
    PROVE  LET a == Idle(obs)
               b == [Idle(obs) EXCEPT !.pc = "loop", !.todo = todo, !.retired = retired]
           IN  /\ a \in TickType /\ a.pc = "idle" /\ a.tr = None
               /\ b \in TickType /\ b.pc = "loop" /\ b.tr = None
  BY DEF Idle, TickType

(* ... and when it is back in its loop.                                        *)
LEMMA ProcessingIs ==
    ASSUME tick \in TickType
    PROVE  Processing \in TickType /\ Processing.pc = "loop" /\ Processing.tr = None
  <1> DEFINE obs == tick.obs
             todo == tick.todo
             retired == tick.retired
  <1>1. obs \in [Targets -> Verdicts] /\ todo \in SUBSET Targets /\ retired \in BOOLEAN
    BY DEF TickType
  <1>2. Processing = [Idle(obs) EXCEPT !.pc = "loop", !.todo = todo, !.retired = retired]
    BY DEF Processing
  <1> HIDE DEF obs, todo, retired
  <1> QED BY <1>1, <1>2, IdleIs, ZenonT(30)

(* A statement further.                                                        *)
LEMMA TickMoves ==
    ASSUME tick \in TickType, NEW pc \in {"loop", "step", "enqueue", "write", "put"}
    PROVE  /\ [tick EXCEPT !.pc = pc] \in TickType
           /\ [tick EXCEPT !.pc = pc].pc = pc
           /\ [tick EXCEPT !.pc = pc].target = tick.target
           /\ [tick EXCEPT !.pc = pc].new = tick.new
           /\ [tick EXCEPT !.pc = pc].tr = tick.tr
  BY DEF TickType

--------------------------------------------------------------------------------
(* Types.                                                                      *)

(* Every step keeps the types, the node that process() carries included.       *)
LEMMA EngineTypes ==
    ASSUME EngineInv, [Next]_vars
    PROVE  Typed'
  <1> USE DEF EngineInv, Typed
  <1>0. /\ Node("muted") \in NodeType /\ tick.target \in Targets \cup {None}
        /\ \A p \in {"loop", "step", "enqueue", "write", "put"} :
              /\ [tick EXCEPT !.pc = p] \in TickType
              /\ [tick EXCEPT !.pc = p].target = tick.target
    <2>1. tick.target \in Targets \cup {None}
      BY DEF TickType
    <2> QED BY <2>1, NodeIs, TickMoves
  <1>1. CASE Evaluate
    <2>1. PICK obs \in [Targets -> Verdicts] :
             tick' = [Idle(obs) EXCEPT !.pc = "loop", !.todo = Processed(obs), !.retired = FALSE]
      BY <1>1 DEF Evaluate
    <2> DEFINE todo == Processed(obs)
    <2>2. todo \in SUBSET Targets
      BY DEF Processed
    <2>3. tick' = [Idle(obs) EXCEPT !.pc = "loop", !.todo = todo, !.retired = FALSE]
      BY <2>1
    <2> HIDE DEF todo
    <2>4. tick' \in TickType /\ tick'.pc = "loop"
      BY <2>2, <2>3, IdleIs
    <2> QED BY <1>1, <2>4, OlderIs DEF Evaluate, TimePasses
  <1>2. CASE EvaluateFails
    BY <1>2, OlderIs DEF EvaluateFails, TimePasses
  <1>3. CASE retireAbsent
    <2>1. tick' = Idle(tick.obs) \/ tick' = [tick EXCEPT !.todo = Absent, !.retired = TRUE]
      BY <1>3 DEF retireAbsent
    <2>2. tick.obs \in [Targets -> Verdicts] /\ tick.pc = "loop"
      BY <1>3 DEF TickType, retireAbsent
    <2>3. tick' \in TickType /\ tick'.pc \in {"idle", "loop"}
      <3>1. CASE tick' = Idle(tick.obs)
        <4> DEFINE obs == tick.obs
        <4>1. obs \in [Targets -> Verdicts] /\ tick' = Idle(obs)
          BY <2>2, <3>1
        <4> HIDE DEF obs
        <4> QED BY <4>1, IdleIs
      <3>2. CASE tick' = [tick EXCEPT !.todo = Absent, !.retired = TRUE]
        <4> DEFINE todo == Absent
        <4>1. todo \in SUBSET Targets /\ tick' = [tick EXCEPT !.todo = todo, !.retired = TRUE]
          BY <3>2 DEF Absent
        <4> HIDE DEF todo
        <4>2. tick'.pc = "loop"
          BY <2>2, <4>1 DEF TickType
        <4>3. tick' \in TickType
          BY <4>1 DEF TickType
        <4> QED BY <4>2, <4>3
      <3> QED BY <2>1, <3>1, <3>2
    <2> QED BY <1>3, <2>3 DEF retireAbsent
  <1>4. CASE Resolve
    <2>1. PICK t \in tick.todo :
             tick' = [tick EXCEPT !.pc = "step", !.todo = @ \ {t}, !.target = t, !.on = Enabled(t)]
      BY <1>4 DEF Resolve
    <2> DEFINE todo == tick.todo \ {t}
               on == Enabled(t)
    <2>2. /\ todo \in SUBSET Targets /\ t \in Targets /\ on \in BOOLEAN
          /\ tick' = [tick EXCEPT !.pc = "step", !.todo = todo, !.target = t, !.on = on]
      BY <2>1 DEF TickType, Enabled
    <2> HIDE DEF todo, on
    <2>3. tick' \in TickType /\ tick'.target = t
      BY <2>2 DEF TickType
    <2> QED BY <1>4, <2>2, <2>3 DEF Resolve
  <1>5. CASE Step
    <2> DEFINE t == tick.target
               failing == tick.obs[t] = "fail"
               new == stepState(Current(t), failing)
               tr == transition(Current(t), new)
    <2>1. /\ tick.pc = "step" /\ tick' = [tick EXCEPT !.pc = "enqueue", !.new = new, !.tr = tr]
          /\ streak' = [streak EXCEPT ![t] = IF ~failing THEN 0
                                             ELSE IF @ < MaxFail THEN @ + 1 ELSE @]
          /\ UNCHANGED <<states, stored, sync, told, behind>>
      BY <1>5 DEF Step
    <2>2. t \in Targets /\ Current(t) \in NodeType /\ failing \in BOOLEAN
      BY <2>1, CurrentIs
    <2>3. Current(t).st = "pending" => Current(t).fail < FailureThreshold
      BY <2>2, CurrentIs DEF CountsInv
    <2>4. new \in NodeType /\ tr \in {"firing", "resolved", None}
      BY <2>2, <2>3, StepIs
    <2>5. streak' \in [Targets -> 0..MaxFail]
      <3>1. streak[t] \in 0..MaxFail /\ MaxFail \in Nat
        BY <2>2, EngineAssumption
      <3> QED BY <2>1, <2>2, <3>1
    <2> HIDE DEF new, tr
    <2>6. tick' \in TickType /\ tick'.target = tick.target
      BY <2>1, <2>4 DEF TickType
    <2> QED BY <2>1, <2>2, <2>5, <2>6
  <1>6. CASE StepDisabled
    <2>1. CASE tick' = Processing /\ UNCHANGED states
      BY <1>6, <2>1, ProcessingIs DEF StepDisabled
    <2>2. CASE /\ states' = [states EXCEPT ![tick.target] = Node("muted")]
               /\ tick' = [tick EXCEPT !.pc = "put", !.new = Node("muted")]
      <3> DEFINE n == Node("muted")
      <3>1. n \in NodeType /\ tick' = [tick EXCEPT !.pc = "put", !.new = n]
            /\ tick.target \in Targets
        BY <1>0, <1>6, <2>2 DEF StepDisabled
      <3> HIDE DEF n
      <3>2. tick' \in TickType /\ tick'.target = tick.target
        BY <3>1 DEF TickType
      <3> QED BY <1>0, <1>6, <2>2, <3>1, <3>2 DEF StepDisabled
    <2> QED BY <1>6, <2>1, <2>2 DEF StepDisabled
  <1>7. CASE Enqueue \/ EnqueueUnsilenced
    <2>1. tick' = [tick EXCEPT !.pc = "write"] /\ tick.target \in Targets
      BY <1>7 DEF Enqueue, EnqueueUnsilenced
    <2>2. told' \in [Targets -> {"firing", "resolved", "silenced", None}]
      <3>1. \/ told' = told
            \/ \E x \in {"firing", "resolved", "silenced", None} :
                  told' = [told EXCEPT ![tick.target] = x]
        BY <1>7 DEF Enqueue, EnqueueUnsilenced, TickType
      <3> QED BY <3>1
    <2> QED BY <1>0, <1>7, <2>1, <2>2 DEF Enqueue, EnqueueUnsilenced
  <1>8. CASE EnqueueFails
    BY <1>8, ProcessingIs DEF EnqueueFails
  <1>9. CASE Write
    <2>1. tick.new \in NodeType /\ tick.target \in Targets
      BY <1>9 DEF Write, CarriesInv
    <2> QED BY <1>0, <1>9, <2>1 DEF Write
  <1>10. CASE Put
    <2>1. tick.new \in NodeType /\ tick.target \in Targets
      BY <1>10 DEF Put, CarriesInv
    <2> QED BY <1>10, <2>1, ProcessingIs DEF Put
  <1>11. CASE PutFails
    BY <1>11, ProcessingIs DEF PutFails
  <1>12. CASE SetSynced \/ MuteNodes
    BY <1>0, <1>12 DEF SetSynced, MuteNodes, Muted
  <1>13. CASE PutMuted \/ PutMutedFails
    BY <1>0, <1>13 DEF PutMuted, PutMutedFails, SyncIdle
  <1>14. CASE Restart
    <2>1. /\ tick' = Idle([t \in Targets |-> "gone"])
          /\ [t \in Targets |-> "gone"] \in [Targets -> Verdicts]
      BY <1>14 DEF Restart, Verdicts
    <2>2. tick' \in TickType /\ tick'.pc = "idle"
      <3> DEFINE obs == [t \in Targets |-> "gone"]
      <3>1. obs \in [Targets -> Verdicts] /\ tick' = Idle(obs)
        BY <2>1
      <3> HIDE DEF obs
      <3> QED BY <3>1, IdleIs
    <2>3. behind' \subseteq Targets
      BY <1>14 DEF Restart
    <2> QED BY <1>14, <2>2, <2>3 DEF Restart, SyncIdle
  <1>15. ASSUME NEW t \in Targets, Silence(t)
         PROVE  Typed'
    BY <1>15 DEF Silence
  <1>16. CASE UNCHANGED vars
    BY <1>16 DEF vars
  <1> QED
    BY <1>1, <1>2, <1>3, <1>4, <1>5, <1>6, <1>7, <1>8, <1>9, <1>10, <1>11, <1>12, <1>13,
       <1>14, <1>15, <1>16
    DEF Next, Tick, Sync, Fault
--------------------------------------------------------------------------------
(* The steps.                                                                  *)

InProcess == {"enqueue", "write", "put"}

(* Nothing is paged, counted or written, and nodes are muted at most.          *)
LEMMA Fades ==
    ASSUME EngineInv, Typed', UNCHANGED <<told, streak>>, behind \subseteq behind',
           \A t \in Targets : /\ states'[t] \in {states[t], Node("muted")}
                              /\ stored'[t] \in {stored[t], Node("muted")},
           \/ tick' = tick
           \/ tick.pc \notin InProcess /\ tick'.pc \notin InProcess /\ tick'.tr = None
    PROVE  EngineInv'
  <1> USE DEF EngineInv, InProcess
  <1>0. Node("muted").st = "muted" /\ (tick.pc \notin {"idle", "loop"} => tick.target \in Targets)
    BY NodeIs DEF Typed
  <1>1. \A t \in Targets : Announced(t) => Announced(t)'
    BY DEF Announced
  <1>2. CarriesInv'
    BY <1>0, <1>1 DEF CarriesInv
  <1>3. EpisodesInv' /\ EpisodeWasPaged'
    BY <1>0, <1>1 DEF EpisodesInv, EpisodeWasPaged, Processes, Paged, Announced
  <1>4. RowsInv'
    BY <1>0 DEF RowsInv, Processes
  <1>5. CountsInv'
    BY <1>0 DEF CountsInv, Counted, Processes
  <1> QED BY <1>2, <1>3, <1>4, <1>5

(* Every node ages: neither its state nor the failures it counts change.       *)
LEMMA Ages ==
    ASSUME EngineInv, Typed', UNCHANGED <<told, streak, behind>>, TimePasses,
           tick.pc = "idle", tick'.pc \in {"idle", "loop"}, tick'.tr = None
    PROVE  EngineInv'
  <1> USE DEF EngineInv
  <1>1. \A t \in Targets :
           /\ states'[t].st = states[t].st /\ stored'[t].st = stored[t].st
           /\ states[t].st = "pending" => states'[t].fail = states[t].fail
           /\ stored[t].st = "pending" => stored'[t].fail = stored[t].fail
           /\ states[t] = stored[t] => states'[t] = stored'[t]
    BY OlderIs DEF TimePasses, Typed
  <1>2. CarriesInv'
    BY DEF CarriesInv
  <1>3. EpisodesInv' /\ EpisodeWasPaged'
    BY <1>1 DEF EpisodesInv, EpisodeWasPaged, Processes, Paged, Announced
  <1>4. RowsInv'
    BY <1>1 DEF RowsInv, Processes
  <1>5. CountsInv'
    BY <1>1 DEF CountsInv, Counted, Processes
  <1> QED BY <1>2, <1>3, <1>4, <1>5

(* The evaluator's tick, or its failure.                                       *)
LEMMA EvaluateKeeps ==
    ASSUME EngineInv, Typed', Evaluate \/ EvaluateFails
    PROVE  EngineInv'
  <1>1. CASE Evaluate
    <2>1. PICK obs \in [Targets -> Verdicts] :
             tick' = [Idle(obs) EXCEPT !.pc = "loop", !.todo = Processed(obs), !.retired = FALSE]
      BY <1>1 DEF Evaluate
    <2> DEFINE todo == Processed(obs)
    <2>2. todo \in SUBSET Targets
      BY DEF Processed
    <2>3. tick' = [Idle(obs) EXCEPT !.pc = "loop", !.todo = todo, !.retired = FALSE]
      BY <2>1
    <2> HIDE DEF todo
    <2>4. tick'.pc = "loop" /\ tick'.tr = None
      BY <2>2, <2>3, IdleIs
    <2> QED BY <1>1, <2>4, Ages DEF Evaluate
  <1>2. CASE EvaluateFails
    BY <1>2, Ages DEF EvaluateFails, EngineInv, CarriesInv
  <1> QED BY <1>1, <1>2

(* The step of an enabled target's node.                                       *)
LEMMA StepKeeps ==
    ASSUME EngineInv, Typed', Step
    PROVE  EngineInv'
  <1> USE DEF EngineInv, Typed
  <1> DEFINE t == tick.target
             failing == tick.obs[t] = "fail"
             rt == Current(t)
             new == stepState(rt, failing)
             tr == transition(rt, new)
  <1>1. /\ tick.pc = "step" /\ tick' = [tick EXCEPT !.pc = "enqueue", !.new = new, !.tr = tr]
        /\ streak' = [streak EXCEPT ![t] = IF ~failing THEN 0
                                           ELSE IF @ < MaxFail THEN @ + 1 ELSE @]
        /\ UNCHANGED <<states, stored, sync, told, behind>>
    BY DEF Step
  <1>2. /\ t \in Targets /\ rt \in NodeType /\ failing \in BOOLEAN
        /\ rt = states[t] \/ rt.st = "healthy"
    BY <1>1, CurrentIs
  <1>3. rt.st = "pending" => rt.fail < FailureThreshold /\ Counted(rt, t)
    BY <1>1, <1>2 DEF CountsInv, Processes
  <1>4. /\ new \in NodeType /\ tr \in {"firing", "resolved", None}
        /\ new.st = "pending" =>
              /\ failing /\ new.fail < FailureThreshold
              /\ new.fail = IF rt.st = "pending" THEN rt.fail + 1 ELSE 1
        /\ tr = "resolved" => new.st = "resolved" /\ rt.st = "recovering"
        /\ tr = "firing" =>
              /\ new.st = "firing" /\ failing
              /\ \/ rt.st = "pending" /\ rt.fail + 1 >= FailureThreshold
                 \/ 1 >= FailureThreshold
        /\ Paged(new) => tr = "firing" \/ Paged(rt)
    BY <1>2, <1>3, StepIs, ZenonT(30)
  <1> HIDE DEF new, tr, rt, failing
  <1>5. /\ tick'.pc = "enqueue" /\ tick'.target = t /\ tick'.new = new /\ tick'.tr = tr
    BY <1>1 DEF TickType
  <1> HIDE DEF t
  <1>6. /\ \A u \in Targets \ {t} : streak'[u] = streak[u]
        /\ streak[t] \in Nat /\ streak'[t] \in Nat
        /\ failing => /\ streak'[t] >= streak[t]
                      /\ streak'[t] = streak[t] + 1 \/ streak'[t] >= FailureThreshold
    <2>1. /\ streak[t] \in 0..MaxFail /\ MaxFail \in Nat /\ MaxFail >= FailureThreshold
          /\ FailureThreshold \in Nat
      BY <1>2, EngineAssumption
    <2>2. streak'[t] = IF ~failing THEN 0 ELSE IF streak[t] < MaxFail THEN streak[t] + 1 ELSE streak[t]
      BY <1>1, <1>2
    <2>3. \A u \in Targets \ {t} : streak'[u] = streak[u]
      BY <1>1
    <2> QED BY <2>1, <2>2, <2>3
  <1>7. Paged(rt) => Announced(t)
    BY <1>1, <1>2 DEF EpisodesInv, Processes, Paged
  <1>8. CarriesInv'
    BY <1>1, <1>4, <1>5, <1>7 DEF CarriesInv, Announced, None
  <1>9. EpisodesInv' /\ EpisodeWasPaged' /\ RowsInv'
    BY <1>1, <1>5 DEF EpisodesInv, EpisodeWasPaged, RowsInv, Processes, Announced, t
  <1>10. /\ Counted(states[t], t) /\ Counted(stored[t], t)
         /\ tr = "resolved" => states[t].st # "pending" /\ (stored[t].st # "pending" \/ t \in behind)
    <2>1. Counted(states[t], t) /\ Counted(stored[t], t)
      BY <1>1, <1>2 DEF CountsInv, Processes
    <2>2. tr = "resolved" => states[t].st = "recovering"
      BY <1>2, <1>4
    <2>3. \/ t \in behind \/ stored[t] = states[t]
          \/ stored[t].st = "muted" \/ states[t].st = "muted"
      BY <1>1, <1>2 DEF RowsInv, Processes
    <2> QED BY <2>1, <2>2, <2>3
  <1>11. CountsInv'
    <2>1. \A u \in Targets :
             /\ states'[u].st = "pending" => states'[u].fail < FailureThreshold
             /\ stored'[u].st = "pending" => stored'[u].fail < FailureThreshold
             /\ Counted(states[u], u)' \/ Processes(u, {"enqueue", "write"})'
             /\ Counted(stored[u], u)' \/ Processes(u, {"enqueue", "write", "put"})'
      BY <1>1, <1>5, <1>6 DEF CountsInv, Counted, Processes, t
    <2>2. new.st = "pending" => new.fail <= streak'[t] \/ t \in behind
      <3>1. ASSUME new.st = "pending", rt.st = "pending", t \notin behind
            PROVE  new.fail <= streak'[t]
        <4>1. rt.fail \in Nat /\ FailureThreshold \in Nat /\ rt.fail <= streak[t]
          BY <1>2, <1>3, <3>1, EngineAssumption DEF Counted, NodeType
        <4> QED BY <1>4, <1>6, <3>1, <4>1
      <3>2. ASSUME new.st = "pending", rt.st # "pending"
            PROVE  new.fail <= streak'[t]
        BY <1>4, <1>6, <3>2, EngineAssumption
      <3> QED BY <3>1, <3>2
    <2>3. tr = "firing" => streak'[t] >= FailureThreshold \/ t \in behind
      <3>1. ASSUME tr = "firing", t \notin behind
            PROVE  streak'[t] >= FailureThreshold
        <4>1. FailureThreshold \in Nat \ {0}
          BY EngineAssumption
        <4>2. CASE 1 >= FailureThreshold
          BY <1>4, <1>6, <3>1, <4>1, <4>2
        <4>3. CASE rt.st = "pending" /\ rt.fail + 1 >= FailureThreshold
          <5>1. rt.fail \in Nat /\ rt.fail <= streak[t]
            BY <1>2, <1>3, <3>1, <4>3 DEF Counted, NodeType
          <5> QED BY <1>4, <1>6, <3>1, <4>1, <4>3, <5>1
        <4> QED BY <1>4, <3>1, <4>2, <4>3
      <3> QED BY <3>1
    <2>4. tr # None => /\ states[t].st = "pending" => states[t].fail <= streak'[t] \/ t \in behind
                       /\ stored[t].st = "pending" => stored[t].fail <= streak'[t] \/ t \in behind
      <3>1. CASE tr = "resolved"
        BY <1>10, <3>1
      <3>2. CASE tr = "firing"
        <4>1. states[t].st = "pending" => states[t].fail \in Nat
          <5>1. states[t] \in NodeType \/ states[t].st = None
            BY <1>2, NodeIs
          <5> QED BY <5>1 DEF NodeType, None
        <4>2. stored[t].st = "pending" => stored[t].fail \in Nat
          <5>1. stored[t] \in NodeType \/ stored[t].st = None
            BY <1>2, NodeIs
          <5> QED BY <5>1 DEF NodeType, None
        <4> QED BY <1>4, <1>6, <1>10, <3>2, <4>1, <4>2 DEF Counted
      <3> QED BY <1>4, <3>1, <3>2
    <2> QED BY <1>1, <1>4, <1>5, <2>1, <2>2, <2>3, <2>4 DEF CountsInv, Counted
  <1> QED BY <1>8, <1>9, <1>11

(* The step of a disabled target: it is muted, and a mute needs no page.       *)
LEMMA StepDisabledKeeps ==
    ASSUME EngineInv, Typed', StepDisabled
    PROVE  EngineInv'
  <1> USE DEF EngineInv
  <1>0. tick.pc = "step" /\ tick.target \in Targets /\ tick.tr = None
    BY DEF StepDisabled, Typed, CarriesInv
  <1>1. CASE tick' = Processing /\ UNCHANGED states
    <2>1. tick'.pc = "loop" /\ tick'.tr = None
      BY <1>1, ProcessingIs DEF Typed
    <2> QED BY <1>0, <1>1, <2>1, Fades DEF StepDisabled, InProcess
  <1>2. CASE /\ states' = [states EXCEPT ![tick.target] = Node("muted")]
             /\ tick' = [tick EXCEPT !.pc = "put", !.new = Node("muted")]
    <2> DEFINE n == Node("muted")
    <2>1. n \in NodeType /\ n.st = "muted"
      BY NodeIs
    <2>2. /\ states' = [states EXCEPT ![tick.target] = n]
          /\ tick' = [tick EXCEPT !.pc = "put", !.new = n]
          /\ UNCHANGED <<stored, told, streak, behind>>
      BY <1>2 DEF StepDisabled
    <2> HIDE DEF n
    <2>3. /\ tick'.pc = "put" /\ tick'.target = tick.target /\ tick'.new = n /\ tick'.tr = None
          /\ states'[tick.target] = n
          /\ \A t \in Targets \ {tick.target} : states'[t] = states[t]
      BY <1>0, <2>2 DEF Typed, TickType
    <2>5. CarriesInv'
      BY <2>1, <2>3 DEF CarriesInv, Paged, None
    <2>6. EpisodesInv' /\ EpisodeWasPaged'
      BY <1>0, <2>1, <2>2, <2>3 DEF EpisodesInv, EpisodeWasPaged, Processes, Paged, Announced
    <2>7. RowsInv'
      BY <1>0, <2>1, <2>2, <2>3 DEF RowsInv, Processes
    <2>8. CountsInv'
      BY <1>0, <2>1, <2>2, <2>3 DEF CountsInv, Counted, Processes
    <2> QED BY <2>5, <2>6, <2>7, <2>8
  <1> QED BY <1>1, <1>2 DEF StepDisabled

(* The event is queued, or kept from the relay by a silence: a node that is to *)
(* fire is announced before it is written.                                     *)
LEMMA EnqueueKeeps ==
    ASSUME EngineInv, Typed', Enqueue \/ EnqueueUnsilenced
    PROVE  EngineInv'
  <1> USE DEF EngineInv
  <1> DEFINE t == tick.target
  <1>1. /\ tick.pc = "enqueue" /\ tick' = [tick EXCEPT !.pc = "write"] /\ t \in Targets
        /\ UNCHANGED <<states, stored, streak, behind>>
        /\ \/ tick.tr = None /\ told' = told
           \/ told' = [told EXCEPT ![t] = "silenced"]
           \/ tick.tr # None /\ told' = [told EXCEPT ![t] = tick.tr]
    BY DEF Enqueue, EnqueueUnsilenced, Typed
  <1>2. /\ tick'.pc = "write" /\ tick'.target = t /\ tick'.new = tick.new /\ tick'.tr = tick.tr
        /\ tick.tr \in {"firing", "resolved", None}
    BY <1>1, TickMoves DEF Typed, TickType
  <1>3. /\ \A u \in Targets \ {t} : told'[u] = told[u]
        /\ tick.tr = "firing" => told'[t] \in {"firing", "silenced"}
        /\ told'[t] \in {told[t], "silenced", tick.tr}
        /\ tick.tr = None => told'[t] \in {told[t], "silenced"}
    BY <1>1 DEF Typed, None
  <1>4. CarriesInv'
    BY <1>1, <1>2, <1>3 DEF CarriesInv, Announced, Paged, None
  <1>5. EpisodesInv' /\ EpisodeWasPaged'
    BY <1>1, <1>2, <1>3 DEF EpisodesInv, EpisodeWasPaged, Processes, Paged, Announced
  <1>6. RowsInv'
    BY <1>1, <1>2 DEF RowsInv, Processes
  <1>7. CountsInv'
    BY <1>1, <1>2 DEF CountsInv, Counted, Processes
  <1> QED BY <1>4, <1>5, <1>6, <1>7

(* The event could not be queued: the node keeps the count it had.             *)
LEMMA EnqueueFailsKeeps ==
    ASSUME EngineInv, Typed', EnqueueFails
    PROVE  EngineInv'
  <1> USE DEF EngineInv
  <1>1. /\ tick.pc = "enqueue" /\ tick.tr # None /\ tick' = Processing /\ tick.target \in Targets
        /\ UNCHANGED <<states, stored, told, streak, behind>>
    BY DEF EnqueueFails, Typed
  <1>2. tick'.pc = "loop" /\ tick'.tr = None
    BY <1>1, ProcessingIs DEF Typed
  <1>3. CarriesInv'
    BY <1>2 DEF CarriesInv
  <1>4. EpisodesInv' /\ EpisodeWasPaged' /\ RowsInv'
    BY <1>1, <1>2 DEF EpisodesInv, EpisodeWasPaged, RowsInv, Processes, Paged, Announced
  <1>5. CountsInv'
    BY <1>1, <1>2 DEF CountsInv, Counted, Processes
  <1> QED BY <1>3, <1>4, <1>5

(* The cache takes the stepped node.                                           *)
LEMMA WriteKeeps ==
    ASSUME EngineInv, Typed', Write
    PROVE  EngineInv'
  <1> USE DEF EngineInv
  <1> DEFINE t == tick.target
  <1>1. /\ tick.pc = "write" /\ tick' = [tick EXCEPT !.pc = "put"] /\ t \in Targets
        /\ states' = [states EXCEPT ![t] = tick.new]
        /\ UNCHANGED <<stored, told, streak, behind>>
    BY DEF Write, Typed
  <1>2. /\ tick'.pc = "put" /\ tick'.target = t /\ tick'.new = tick.new /\ tick'.tr = tick.tr
        /\ states'[t] = tick.new /\ \A u \in Targets \ {t} : states'[u] = states[u]
    BY <1>1, TickMoves DEF Typed
  <1>3. CarriesInv'
    BY <1>1, <1>2 DEF CarriesInv, Announced
  <1>4. EpisodesInv' /\ EpisodeWasPaged'
    BY <1>1, <1>2 DEF EpisodesInv, CarriesInv, EpisodeWasPaged, Processes, Paged, Announced
  <1>5. RowsInv'
    BY <1>1, <1>2 DEF RowsInv, Processes
  <1>6. CountsInv'
    BY <1>1, <1>2 DEF CountsInv, Counted, Processes
  <1> QED BY <1>3, <1>4, <1>5, <1>6

(* The row takes it too, and lags behind no longer unless the node goes on with*)
(* an episode that was resumed from a row out of date.                         *)
LEMMA PutKeeps ==
    ASSUME EngineInv, Typed', Put
    PROVE  EngineInv'
  <1> USE DEF EngineInv
  <1> DEFINE t == tick.target
  <1>1. /\ tick.pc = "put" /\ tick' = Processing /\ t \in Targets
        /\ stored' = [stored EXCEPT ![t] = tick.new]
        /\ behind' = IF inEpisode(tick.new) /\ tick.tr = None THEN behind ELSE behind \ {t}
        /\ UNCHANGED <<states, told, streak>>
    BY DEF Put, Typed
  <1>2. /\ tick'.pc = "loop" /\ tick'.tr = None
        /\ stored'[t] = tick.new
        /\ \A u \in Targets \ {t} : stored'[u] = stored[u] /\ (u \in behind <=> u \in behind')
    BY <1>1, ProcessingIs DEF Typed
  <1>3. /\ states[t] = tick.new \/ states[t].st = "muted"
        /\ tick.tr \in {"firing", "resolved", None}
    BY <1>1, NodeIs DEF CarriesInv, Typed, TickType
  <1>4. Paged(tick.new) => told[t] \in {"firing", "silenced"} \/ t \in behind'
    BY <1>1, <1>3 DEF CarriesInv, Paged, Announced, inEpisode
  <1>5. tick.new.st = "pending" => tick.tr = None /\ behind' = behind
    BY <1>1, <1>3 DEF CarriesInv, inEpisode
  <1>6. CarriesInv'
    BY <1>2 DEF CarriesInv
  <1>7. EpisodesInv' /\ EpisodeWasPaged'
    BY <1>1, <1>2, <1>3, <1>4 DEF EpisodesInv, EpisodeWasPaged, Processes, Paged, Announced
  <1>8. RowsInv'
    BY <1>1, <1>2, <1>3 DEF RowsInv, Processes
  <1>9. CountsInv'
    BY <1>1, <1>2, <1>3, <1>5 DEF CountsInv, Counted, Processes
  <1> QED BY <1>6, <1>7, <1>8, <1>9

(* The row is not written: it lags behind from now on.                         *)
LEMMA PutFailsKeeps ==
    ASSUME EngineInv, Typed', PutFails
    PROVE  EngineInv'
  <1> USE DEF EngineInv
  <1>1. /\ tick.pc = "put" /\ tick' = Processing /\ tick.target \in Targets
        /\ behind' = behind \cup {tick.target}
        /\ UNCHANGED <<states, stored, told, streak>>
    BY DEF PutFails, Typed
  <1>2. tick'.pc = "loop" /\ tick'.tr = None
    BY <1>1, ProcessingIs DEF Typed
  <1>3. CarriesInv'
    BY <1>2 DEF CarriesInv
  <1>4. EpisodesInv' /\ EpisodeWasPaged' /\ RowsInv'
    BY <1>1, <1>2 DEF EpisodesInv, EpisodeWasPaged, RowsInv, Processes, Paged, Announced
  <1>5. CountsInv'
    BY <1>1, <1>2 DEF CountsInv, Counted, Processes
  <1> QED BY <1>3, <1>4, <1>5

(* The rows are loaded: what they lag behind is excused, and nothing else.     *)
LEMMA RestartKeeps ==
    ASSUME EngineInv, Typed', Restart
    PROVE  EngineInv'
  <1> USE DEF EngineInv
  <1>1. /\ states' = stored /\ UNCHANGED <<stored, told, streak>>
        /\ behind' = IF tick.pc \in {"enqueue", "write", "put"}
                     THEN behind \cup {tick.target} ELSE behind
    BY DEF Restart
  <1>2. tick'.pc = "idle" /\ tick'.tr = None
    BY DEF Restart, Idle
  <1>3. CarriesInv'
    BY <1>2 DEF CarriesInv
  <1>4. EpisodesInv' /\ EpisodeWasPaged' /\ RowsInv'
    BY <1>1, <1>2 DEF EpisodesInv, EpisodeWasPaged, RowsInv, Processes, Paged, Announced
  <1>5. CountsInv'
    BY <1>1, <1>2 DEF CountsInv, Counted, Processes
  <1> QED BY <1>3, <1>4, <1>5

(* The tick loop's own steps, the sync goroutine's and the silences.           *)
LEMMA LoopsKeep ==
    ASSUME EngineInv, Typed',
           \/ retireAbsent \/ Resolve \/ SetSynced \/ MuteNodes
           \/ PutMuted \/ PutMutedFails \/ \E t \in Targets : Silence(t)
    PROVE  EngineInv'
  <1> USE DEF EngineInv, InProcess
  <1>1. CASE retireAbsent
    <2>1. /\ tick.pc = "loop" /\ tick \in TickType /\ tick.tr = None
          /\ tick' = IF tick.retired THEN Idle(tick.obs)
                     ELSE [tick EXCEPT !.todo = Absent, !.retired = TRUE]
      BY <1>1 DEF retireAbsent, Typed, CarriesInv
    <2>2. tick'.pc \in {"idle", "loop"} /\ tick'.tr = None
      BY <2>1 DEF Idle, TickType
    <2> QED BY <1>1, <2>1, <2>2, Fades DEF retireAbsent
  <1>2. CASE Resolve
    <2>1. PICK t \in tick.todo :
             tick' = [tick EXCEPT !.pc = "step", !.todo = @ \ {t}, !.target = t, !.on = Enabled(t)]
      BY <1>2 DEF Resolve
    <2>2. tick.pc = "loop" /\ tick \in TickType /\ tick.tr = None
      BY <1>2 DEF Resolve, Typed, CarriesInv
    <2>3. tick'.pc = "step" /\ tick'.tr = None
      BY <2>1, <2>2 DEF TickType
    <2> QED BY <1>2, <2>2, <2>3, Fades DEF Resolve
  <1>3. CASE SetSynced
    BY <1>3, Fades DEF SetSynced
  <1>4. CASE MuteNodes
    <2>1. \A t \in Targets : states'[t] \in {states[t], Node("muted")}
      BY <1>4 DEF MuteNodes
    <2> QED BY <1>4, <2>1, Fades DEF MuteNodes
  <1>5. CASE PutMuted
    <2>1. \A t \in Targets : stored'[t] \in {stored[t], Node("muted")}
      BY <1>5 DEF PutMuted, Typed
    <2> QED BY <1>5, <2>1, Fades DEF PutMuted
  <1>6. CASE PutMutedFails
    BY <1>6, Fades DEF PutMutedFails
  <1>7. CASE \E t \in Targets : Silence(t)
    BY <1>7, Fades DEF Silence
  <1> QED BY <1>1, <1>2, <1>3, <1>4, <1>5, <1>6, <1>7

--------------------------------------------------------------------------------
(* The theorems.                                                               *)

(* An agent with no rows has nothing to announce.                              *)
LEMMA InitEngine == Init => EngineInv
  <1> SUFFICES ASSUME Init PROVE EngineInv
    OBVIOUS
  <1> USE DEF Init
  <1>1. [t \in Targets |-> "gone"] \in [Targets -> Verdicts]
    BY DEF Verdicts
  <1>2. tick \in TickType /\ tick.pc = "idle" /\ tick.tr = None
    BY <1>1, IdleIs
  <1>3. Typed
    BY <1>2, EngineAssumption DEF Typed, SyncIdle
  <1>4. CarriesInv
    BY <1>2 DEF CarriesInv
  <1>5. \A t \in Targets : states[t].st = None /\ stored[t] = states[t]
    BY NodeIs
  <1>6. EpisodesInv /\ EpisodeWasPaged /\ RowsInv /\ CountsInv
    BY <1>2, <1>5 DEF EpisodesInv, EpisodeWasPaged, RowsInv, CountsInv, Counted, Paged, None
  <1> QED BY <1>3, <1>4, <1>6 DEF EngineInv

(* Every step preserves the inductive invariant.                               *)
LEMMA EngineNext ==
    ASSUME EngineInv, [Next]_vars
    PROVE  EngineInv'
  <1>0. Typed'
    BY EngineTypes
  <1>1. CASE UNCHANGED vars
    <2>1. UNCHANGED <<states, stored, tick, told, streak, behind>>
      BY <1>1 DEF vars
    <2> QED BY <1>0, <2>1, Fades
  <1>2. CASE Next
    BY <1>0, <1>2, EvaluateKeeps, StepKeeps, StepDisabledKeeps, EnqueueKeeps, EnqueueFailsKeeps,
       WriteKeeps, PutKeeps, PutFailsKeeps, RestartKeeps, LoopsKeep
    DEF Next, Tick, Sync, Fault
  <1> QED BY <1>1, <1>2

(* Types, and the strengthening, for any targets, thresholds and faults.       *)
THEOREM EngineInductive == Spec => []EngineInv
  BY InitEngine, EngineNext, PTL DEF Spec

(* PageNeedsStreak: process() decides to page only after the configured number *)
(* of failing reads in a row, or over a row that lags behind.                  *)
THEOREM PagesNeedStreaks == Spec => []PageNeedsStreak
  <1>1. EngineInv => PageNeedsStreak
    BY DEF EngineInv, CountsInv, PageNeedsStreak
  <1> QED BY <1>1, EngineInductive, PTL

(* EpisodeWasPaged: an episode that a restart would resume was announced, or   *)
(* kept from the relay by a silence; or its row lags behind.                   *)
THEOREM EpisodesArePaged == Spec => []EpisodeWasPaged
  <1>1. EngineInv => EpisodeWasPaged
    BY DEF EngineInv
  <1> QED BY <1>1, EngineInductive, PTL

================================================================================
