----------------------------- MODULE MonitorEngine -----------------------------
(* The monitor engine of internal/monitor: one kind of monitor, whose targets  *)
(* an evaluator reads on every tick (Manager.Evaluate), the state machine per  *)
(* target (statemachine.go), the definitions that the sync goroutine replaces  *)
(* (SetSyncedDefinitions), the cache Manager.states and its copy in the store. *)
(* Two goroutines: the tick loop, and the sync loop of cmd/rootmote-agent.     *)
(* FlushQueue, the last call of process, is MonitorQueue's.                    *)
EXTENDS Integers, FiniteSets

CONSTANTS Targets,           \* targets of the kind
          Wildcard,          \* the target "*" of a definition for every target
          FailureThreshold,  \* consecutive failures that fire
          RecoveryThreshold, \* consecutive successes that resolve
          Cooldown,          \* ticks a resolved node is held
          MaxFail,           \* bound: ConsecutiveFail of a firing node
          MaxFaults          \* bound: failed writes, failed reads and crashes

ASSUME EngineAssumption ==
    /\ Wildcard \notin Targets
    /\ FailureThreshold \in Nat \ {0} /\ RecoveryThreshold \in Nat \ {0}
    /\ Cooldown \in Nat /\ MaxFaults \in Nat
    /\ MaxFail \in Nat /\ MaxFail >= FailureThreshold

None == "none"
Verdicts == {"fail", "ok", "hold", "gone"}

(* A runtime node. age is the time since LastTransitionAt, which is only ever  *)
(* compared with the cooldown: the bound Cooldown loses nothing. The first     *)
(* success counts towards recovery, but never resolves by itself: a threshold  *)
(* of one takes two.                                                           *)
Nodes == [st   : {"healthy", "pending", "firing", "recovering", "resolved", "muted"},
          fail : 0..MaxFail, ok : 0..(RecoveryThreshold + 1), age : 0..Cooldown]
Node(s) == [st |-> s, fail |-> 0, ok |-> 0, age |-> 0]
NoNode == [st |-> None]

(* What a sync delivers. A wildcard that is on says what the shipped default   *)
(* of the kind says, and is left out.                                          *)
Definitions == {defs \in [Targets \cup {Wildcard} -> {"on", "off", None}] :
                    defs[Wildcard] # "on"}

inEpisode(rt) == rt.st \in {"pending", "firing", "recovering"}

VARIABLES synced,   \* DefinitionSet.synced: "on" or "off", per definition's target
          states,   \* Manager.states
          stored,   \* the rows of monitor_state
          silenced, \* targets with an active silence
          tick,     \* the tick goroutine: pc, its observations and process()'s locals
          sync,     \* the sync goroutine: pc and the rows it has yet to write
          faults,   \* failed writes, failed reads and crashes so far
          told,     \* history: what the relay was last told, or kept from it by a silence
          streak,   \* history: failing observations in a row
          behind    \* history: targets whose episode was resumed from a row out of date

vars == <<synced, states, stored, silenced, tick, sync, faults, told, streak, behind>>

TypeOK ==
    /\ synced \in Definitions
    /\ states \in [Targets -> Nodes \cup {NoNode}]
    /\ stored \in [Targets -> Nodes \cup {NoNode}]
    /\ silenced \subseteq Targets
    /\ tick.pc \in {"idle", "loop", "step", "enqueue", "write", "put"}
    /\ tick.obs \in [Targets -> Verdicts] /\ tick.todo \subseteq Targets
    /\ sync.pc \in {"idle", "mute", "put"} /\ sync.todo \subseteq Targets
    /\ faults \in 0..MaxFaults
    /\ told \in [Targets -> {"firing", "resolved", "silenced", None}]
    /\ streak \in [Targets -> 0..MaxFail]
    /\ behind \subseteq Targets

(* The tick goroutine between two ticks, after the observations obs.           *)
Idle(obs) == [pc |-> "idle", obs |-> obs, todo |-> {}, retired |-> TRUE,
              target |-> None, on |-> FALSE, new |-> NoNode, tr |-> None]

(* process() returns to the loop of Evaluate or retireAbsent.                  *)
Processing == [Idle(tick.obs) EXCEPT !.pc = "loop", !.todo = tick.todo,
                                     !.retired = tick.retired]

SyncIdle == [pc |-> "idle", todo |-> {}]

Init ==
    /\ synced = [d \in Targets \cup {Wildcard} |-> None]
    /\ states = [t \in Targets |-> NoNode]
    /\ stored = states
    /\ silenced = {} /\ behind = {}
    /\ tick = Idle([t \in Targets |-> "gone"]) /\ sync = SyncIdle
    /\ faults = 0
    /\ told = [t \in Targets |-> None]
    /\ streak = [t \in Targets |-> 0]

(* DefinitionSet.Resolve: the synced definition of the target, the synced      *)
(* wildcard, then the shipped default, which is on for every target.           *)
Enabled(t) ==
    CASE synced[t] # None        -> synced[t] = "on"
      [] synced[t] = None        -> synced[Wildcard] # "off"

--------------------------------------------------------------------------------
(* statemachine.go                                                             *)
stepHealthy(rt, failing) ==
    IF ~failing THEN (IF rt.st = "healthy" THEN rt ELSE Node("healthy"))
    ELSE [Node("pending") EXCEPT !.fail = 1,
             !.st = IF 1 >= FailureThreshold THEN "firing" ELSE "pending"]

stepPending(rt, failing) ==
    IF ~failing THEN Node("healthy")
    ELSE IF rt.fail + 1 >= FailureThreshold
         THEN [rt EXCEPT !.st = "firing", !.fail = rt.fail + 1, !.age = 0]
         ELSE [rt EXCEPT !.fail = rt.fail + 1]

stepFiring(rt, failing) ==
    IF failing THEN [rt EXCEPT !.fail = IF @ < MaxFail THEN @ + 1 ELSE @, !.ok = 0]
    ELSE [rt EXCEPT !.st = "recovering", !.ok = 1, !.age = 0]

stepRecovering(rt, failing) ==
    IF failing THEN [rt EXCEPT !.st = "firing", !.ok = 0, !.age = 0]
    ELSE IF rt.ok + 1 >= RecoveryThreshold
         THEN [rt EXCEPT !.st = "resolved", !.ok = rt.ok + 1, !.age = 0]
         ELSE [rt EXCEPT !.ok = rt.ok + 1]

(* Mutant: a resolved node is not held for its cooldown and keeps its counter. *)
stepWithoutReset(rt, failing) ==
    CASE rt.st = "firing"     -> stepFiring(rt, failing)
      [] rt.st = "recovering" -> stepRecovering(rt, failing)
      [] rt.st \in {"pending", "resolved"} -> stepPending(rt, failing)
      [] OTHER                -> stepHealthy(rt, failing)

(* Mutant: a resolved node is held for ever.                                   *)
stepHeldForEver(rt, failing) ==
    CASE rt.st = "firing"     -> stepFiring(rt, failing)
      [] rt.st = "recovering" -> stepRecovering(rt, failing)
      [] rt.st = "pending"    -> stepPending(rt, failing)
      [] rt.st = "resolved"   -> rt
      [] OTHER                -> stepHealthy(rt, failing)

(* A resolved node is held until the cooldown has passed and then steps as a   *)
(* healthy one.                                                                *)
stepState(rt, failing) ==
    CASE rt.st = "firing"     -> stepFiring(rt, failing)
      [] rt.st = "recovering" -> stepRecovering(rt, failing)
      [] rt.st = "pending"    -> stepPending(rt, failing)
      [] rt.st = "resolved" /\ rt.age < Cooldown -> rt
      [] rt.st = "resolved" /\ rt.age >= Cooldown ->
             stepHealthy(Node("healthy"), failing)
      [] OTHER                -> stepHealthy(rt, failing)

(* A transition: the node enters firing from pending or healthy, or resolved.  *)
(* A node that fails again while it recovers is firing already.                *)
transition(old, new) ==
    CASE new.st = "firing" /\ old.st \notin {"firing", "recovering"} -> "firing"
      [] new.st = "resolved" /\ old.st # "resolved" -> "resolved"
      [] OTHER -> None

--------------------------------------------------------------------------------
(* The tick goroutine: Evaluate, retireAbsent and process.                     *)
Older(rt) == IF rt = NoNode \/ rt.age = Cooldown THEN rt ELSE [rt EXCEPT !.age = @ + 1]

TimePasses ==
    /\ states' = [t \in Targets |-> Older(states[t])]
    /\ stored' = [t \in Targets |-> Older(stored[t])]

(* The observations process() is called with: not the targets on hold.         *)
Processed(obs) == {t \in Targets : obs[t] \in {"fail", "ok"}}

(* The next tick: the evaluator reports, of each enabled target, a verdict, a  *)
(* Hold when it could not read it, and nothing when it is gone.                *)
Evaluate ==
    /\ tick.pc = "idle"
    /\ \E obs \in [Targets -> Verdicts] :
          /\ \A t \in Targets : ~Enabled(t) => obs[t] = "gone"
          /\ tick' = [Idle(obs) EXCEPT !.pc = "loop", !.todo = Processed(obs),
                                       !.retired = FALSE]
    /\ TimePasses
    /\ UNCHANGED <<synced, silenced, sync, faults, told, streak, behind>>

(* The collector fails as a whole: the tick processes and retires nothing.     *)
EvaluateFails ==
    /\ tick.pc = "idle"
    /\ TimePasses
    /\ UNCHANGED <<synced, silenced, tick, sync, faults, told, streak, behind>>

(* Mutant: only firing episodes of absent targets are retired.                 *)
AbsentFiring == {t \in Targets : states[t].st = "firing" /\ tick.obs[t] = "gone"}

(* Targets in an episode that the evaluator reported nothing of.               *)
Absent == {t \in Targets : inEpisode(states[t]) /\ tick.obs[t] = "gone"}

(* Every observation is processed: absent targets are next, once.              *)
retireAbsent ==
    /\ tick.pc = "loop" /\ tick.todo = {}
    /\ tick' = IF tick.retired THEN Idle(tick.obs)
               ELSE [tick EXCEPT !.todo = Absent, !.retired = TRUE]
    /\ UNCHANGED <<synced, states, stored, silenced, sync, faults, told, streak, behind>>

(* process() reads the definition, before it takes the lock.                   *)
Resolve ==
    /\ tick.pc = "loop"
    /\ \E t \in tick.todo :
          tick' = [tick EXCEPT !.pc = "step", !.todo = @ \ {t}, !.target = t,
                               !.on = Enabled(t)]
    /\ UNCHANGED <<synced, states, stored, silenced, sync, faults, told, streak, behind>>

(* The node process() steps: a re-enabled one starts clean.                    *)
Current(t) == IF states[t].st \in {None, "muted"} THEN Node("healthy") ELSE states[t]

(* Under the lock, of an enabled target: the state machine's step, not stored  *)
(* yet.                                                                        *)
Step ==
    LET t == tick.target
        failing == tick.obs[t] = "fail"
        new == stepState(Current(t), failing)
    IN  /\ tick.pc = "step" /\ tick.on
        /\ tick' = [tick EXCEPT !.pc = "enqueue", !.new = new,
                                !.tr = transition(Current(t), new)]
        /\ streak' = [streak EXCEPT ![t] = IF ~failing THEN 0
                                           ELSE IF @ < MaxFail THEN @ + 1 ELSE @]
        /\ UNCHANGED <<synced, states, stored, silenced, sync, faults, told, behind>>

(* Under the lock, of a disabled target: it is muted, once.                    *)
StepDisabled ==
    LET t == tick.target
    IN  /\ tick.pc = "step" /\ ~tick.on
        /\ IF states[t].st = "muted"
           THEN tick' = Processing /\ UNCHANGED states
           ELSE /\ states' = [states EXCEPT ![t] = Node("muted")]
                /\ tick' = [tick EXCEPT !.pc = "put", !.new = Node("muted")]
        /\ UNCHANGED <<synced, stored, silenced, sync, faults, told, streak, behind>>

(* The transition is queued for the relay, unless it is silenced.              *)
Enqueue ==
    LET t == tick.target
    IN  /\ tick.pc = "enqueue"
        /\ tick' = [tick EXCEPT !.pc = "write"]
        /\ told' = IF tick.tr = None THEN told
                   ELSE [told EXCEPT ![t] = IF t \in silenced THEN "silenced" ELSE tick.tr]
        /\ UNCHANGED <<synced, states, stored, silenced, sync, faults, streak, behind>>

(* AlertSilencesActive fails: the monitor counts as not silenced.              *)
EnqueueUnsilenced ==
    /\ tick.pc = "enqueue" /\ tick.tr # None /\ tick.target \in silenced
    /\ faults < MaxFaults /\ faults' = faults + 1
    /\ tick' = [tick EXCEPT !.pc = "write"]
    /\ told' = [told EXCEPT ![tick.target] = tick.tr]
    /\ UNCHANGED <<synced, states, stored, silenced, sync, streak, behind>>

(* Mutant: an event that could not be queued does not stop process().          *)
EnqueueFailsGoesOn ==
    /\ tick.pc = "enqueue" /\ tick.tr # None /\ tick.target \notin silenced
    /\ faults < MaxFaults /\ faults' = faults + 1
    /\ tick' = [tick EXCEPT !.pc = "write"]
    /\ UNCHANGED <<synced, states, stored, silenced, sync, told, streak, behind>>

(* NewMonitorEventID or EnqueueMonitorEvent fails: process() returns and the   *)
(* node keeps its state, so that the next tick tries again.                    *)
EnqueueFails ==
    /\ tick.pc = "enqueue" /\ tick.tr # None /\ tick.target \notin silenced
    /\ faults < MaxFaults /\ faults' = faults + 1
    /\ tick' = Processing
    /\ UNCHANGED <<synced, states, stored, silenced, sync, told, streak, behind>>

(* The cache is written first, under the lock again.                           *)
Write ==
    /\ tick.pc = "write"
    /\ states' = [states EXCEPT ![tick.target] = tick.new]
    /\ tick' = [tick EXCEPT !.pc = "put"]
    /\ UNCHANGED <<synced, stored, silenced, sync, faults, told, streak, behind>>

(* PutMonitorState: the row is written outside the lock.                       *)
Put ==
    /\ tick.pc = "put"
    /\ stored' = [stored EXCEPT ![tick.target] = tick.new]
    /\ behind' = IF inEpisode(tick.new) /\ tick.tr = None
                 THEN behind ELSE behind \ {tick.target}
    /\ tick' = Processing
    /\ UNCHANGED <<synced, states, silenced, sync, faults, told, streak>>

(* A failed write is only logged.                                              *)
PutFails ==
    /\ tick.pc = "put"
    /\ faults < MaxFaults /\ faults' = faults + 1
    /\ behind' = behind \cup {tick.target}
    /\ tick' = Processing
    /\ UNCHANGED <<synced, states, stored, silenced, sync, told, streak>>

--------------------------------------------------------------------------------
(* SetSyncedDefinitions, on the sync goroutine.                                *)
SetSynced ==
    /\ sync.pc = "idle"
    /\ synced' \in Definitions
    /\ sync' = [sync EXCEPT !.pc = "mute"]
    /\ UNCHANGED <<states, stored, silenced, tick, faults, told, streak, behind>>

(* A disabled definition mutes its target, a disabled wildcard every target    *)
(* that has a node, whatever definition of its own the target has.             *)
Muted == {t \in Targets : \/ synced[t] = "off"
                         \/ (synced[Wildcard] = "off" /\ states[t] # NoNode)}

MuteNodes ==
    /\ sync.pc = "mute"
    /\ states' = [t \in Targets |-> IF t \in Muted THEN Node("muted") ELSE states[t]]
    /\ sync' = [pc |-> "put", todo |-> Muted]
    /\ UNCHANGED <<synced, stored, silenced, tick, faults, told, streak, behind>>

(* The rows are written one by one, after the lock is released.                *)
PutMuted ==
    /\ sync.pc = "put"
    /\ \/ \E t \in sync.todo :
             /\ stored' = [stored EXCEPT ![t] = Node("muted")]
             /\ sync' = [sync EXCEPT !.todo = @ \ {t}]
       \/ sync.todo = {} /\ sync' = SyncIdle /\ UNCHANGED stored
    /\ UNCHANGED <<synced, states, silenced, tick, faults, told, streak, behind>>

PutMutedFails ==
    /\ sync.pc = "put" /\ faults < MaxFaults
    /\ faults' = faults + 1
    /\ \E t \in sync.todo :
          /\ sync' = [sync EXCEPT !.todo = @ \ {t}]
          /\ behind' = behind \cup {t}
    /\ UNCHANGED <<synced, states, stored, silenced, tick, told, streak>>

(* Silence: a positive duration silences, any other clears; it also expires.   *)
Silence(t) ==
    /\ silenced' = IF t \in silenced THEN silenced \ {t} ELSE silenced \cup {t}
    /\ UNCHANGED <<synced, states, stored, tick, sync, faults, told, streak, behind>>

(* The agent dies and New loads the rows. The definitions start from the       *)
(* defaults and the first sync fetches them again.                             *)
Restart ==
    /\ faults < MaxFaults /\ faults' = faults + 1
    /\ states' = stored
    /\ synced' = [d \in Targets \cup {Wildcard} |-> None]
    /\ tick' = Idle([t \in Targets |-> "gone"])
    /\ sync' = SyncIdle
    /\ behind' = IF tick.pc \in {"enqueue", "write", "put"}
                 THEN behind \cup {tick.target} ELSE behind
    /\ UNCHANGED <<stored, silenced, told, streak>>

Tick == Evaluate \/ retireAbsent \/ Resolve \/ Step \/ StepDisabled \/ Enqueue \/ Write \/ Put
Sync == MuteNodes \/ PutMuted
Fault == EvaluateFails \/ EnqueueUnsilenced \/ EnqueueFails \/ PutFails \/ PutMutedFails \/ Restart

Next == Tick \/ Sync \/ Fault \/ SetSynced \/ \E t \in Targets : Silence(t)

(* Both loops run for as long as the agent does, and collectors work again     *)
(* after a failure.                                                            *)
Spec == Init /\ [][Next]_vars /\ WF_vars(Tick) /\ WF_vars(Sync)

--------------------------------------------------------------------------------
(* A page needs its whole streak: firing is only entered after the configured  *)
(* number of failing reads in a row ("a single transient failure never         *)
(* pages", types.go), through held ticks, failed collectors, retries of a      *)
(* failed enqueue, mutes and restarts. A row that lags behind (its last write  *)
(* failed or was cut off) may count a failure twice after a restart.           *)
PageNeedsStreak ==
    tick.pc = "enqueue" /\ tick.tr = "firing" =>
        streak[tick.target] >= FailureThreshold \/ tick.target \in behind

(* Queue first: an episode that a restart would resume as firing or recovering *)
(* was announced to the relay, or kept from it by a silence. Otherwise the     *)
(* only page is lost: the machine enters firing once per episode. The row of a *)
(* transition that is being written, or whose write failed, lags behind.       *)
EpisodeWasPaged ==
    \A t \in Targets :
        \/ stored[t].st \notin {"firing", "recovering"}
        \/ told[t] \in {"firing", "silenced"}
        \/ t \in behind \/ (tick.target = t /\ tick.pc \in {"write", "put"})

(* A monitor that is disabled and stays so, or whose target is gone for good,  *)
(* does not keep an episode: whatever process() wrote over the mute, and       *)
(* whatever row a restart loads, the next ticks mute or retire it.             *)
EpisodesAreClosed ==
    \A t \in Targets : /\ <>[]~Enabled(t) => <>[]~inEpisode(states[t])
                       /\ <>[](tick.obs[t] = "gone") => <>[]~inEpisode(states[t])

(* A target that keeps failing and stays enabled ends up firing, and stays so: *)
(* no race with the sync, failed enqueue or cooldown leaves it out for good.   *)
SustainedFailureFires ==
    \A t \in Targets :
        <>[](tick.obs[t] = "fail" /\ synced[t] # "off" /\ synced[Wildcard] # "off")
            => <>[](states[t].st = "firing")
================================================================================
