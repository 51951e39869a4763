------------------------------ MODULE MCPipeline ------------------------------
(* The instances for TLC of the modules on the way from a reading of the host  *)
(* to the phone: an evaluator judges it (Evaluators), the queued events are    *)
(* condensed (CondenseLoop), the incident is diagnosed (Diagnosis), the rules  *)
(* make a playbook of the diagnosis (PlaybookRules), and the phone follows its *)
(* execution (EventStream). Between two of them stand the relay and the user,  *)
(* so that none sees the other's steps: a behaviour follows one of them, which *)
(* part says, and the others stay where they start.                            *)
EXTENDS EventStream

CONSTANTS Monitors, MaxQueueTime, MaxQueue,  \* CondenseLoop
          MaxSteps,                          \* PlaybookRules
          MaxTime, MaxLevel, MaxBoots,       \* Evaluators
          MaxBudget                          \* Diagnosis

ASSUME PipelineAssumption ==
    /\ MaxSteps \in Nat
    /\ MaxBudget \in Nat \ {0}  \* withDefaults gives every zero field its default
    /\ MaxLevel \in 0..999      \* Evaluators: between Best and Worst

VARIABLES part,
          events, position, histories,       \* CondenseLoop
          incident,                          \* PlaybookRules
          kind, def, named, now, mem, host, inEpisode, verdict, reading,
          opened, announced,                 \* Evaluators
          target, budget, phase, bundle, culprit, assessment  \* Diagnosis

Loop == INSTANCE CondenseLoop WITH MaxTime <- MaxQueueTime, MaxLen <- MaxQueue, i <- position
Rules == INSTANCE PlaybookRules
Eval == INSTANCE Evaluators
Diag == INSTANCE Diagnosis

loopVars == <<events, position, histories>>
evalVars == <<kind, def, named, now, mem, host, inEpisode, verdict, reading, opened, announced>>
diagVars == <<target, budget, phase, bundle, culprit, assessment>>

Parts == {"stream", "condense", "rules", "evaluators", "diagnosis"}

(* Where the parts start that a behaviour does not follow.                     *)
Parked(p) == part # p

PipelineInit ==
    /\ part \in Parts
    /\ Init
    /\ Parked("condense") => events = <<>>
    /\ Loop!Init
    /\ Rules!Init
    /\ Parked("evaluators") =>
          kind = "reboot" /\ def = [fire |-> 0, recover |-> 0, param |-> 0, enabled |-> TRUE]
    /\ Eval!Init
    /\ Parked("diagnosis") => target = "other" /\ budget = MaxBudget
    /\ Diag!Init

Stream    == part = "stream" /\ Next
Condense  == part = "condense" /\ Loop!Iterate
Propose   == part = "rules" /\ Rules!Next
Judge     == part = "evaluators" /\ Eval!Next
Diagnose  == part = "diagnosis" /\ Diag!Next

PipelineNext ==
    \/ Stream /\ UNCHANGED <<part, loopVars, incident, evalVars, diagVars>>
    \/ Condense /\ UNCHANGED <<part, vars, incident, evalVars, diagVars>>
    \/ Propose /\ UNCHANGED <<part, vars, loopVars, evalVars, diagVars>>
    \/ Judge /\ UNCHANGED <<part, vars, loopVars, incident, diagVars>>
    \/ Diagnose /\ UNCHANGED <<part, vars, loopVars, incident, evalVars>>

PipelineSpec ==
    PipelineInit /\ [][PipelineNext]_<<part, vars, loopVars, incident, evalVars, diagVars>>

-------------------------------------------------------------------------------
(* The properties of the parts, stated and explained in their modules. Those   *)
(* of EventStream (NoDuplicates, NothingMissed, NothingStuck) come with it.    *)

(* The queue is condensed to the last pair of each monitor, with the earliest  *)
(* first failure (condenseMonitorEvents).                                      *)
CondensesToLastPair == Loop!CondensesToLastPair

(* No proposal touches a protected or an unknown name (Check, checkSource).    *)
ProtectedIsNeverTouched == Rules!ProtectedIsNeverTouched

(* A clean-up that is proposed frees a disk that is full (dropWrongDisk).      *)
CleanUpsHelp == Rules!CleanUpsHelp

(* Only evidence ends an episode (evalThreshold, thresholds, holds).           *)
EpisodeEndsOnEvidence == Eval!EpisodeEndsOnEvidence

(* A reboot is announced at most once (RebootDetectedEvaluator).               *)
RebootAnnouncedOnce == Eval!RebootAnnouncedOnce

(* The component that is down is named, whatever the budget (Collect, Match).  *)
CulpritIsNamed == Diag!CulpritIsNamed
===============================================================================
