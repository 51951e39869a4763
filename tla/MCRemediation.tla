---------------------------- MODULE MCRemediation -----------------------------
(* Small instances of Remediation for TLC.                                     *)
EXTENDS LedgerInv, TLC

CONSTANTS p1, p2, i1, w1, w2, t1, t2

(* start/stop undo each other, restart has no undo; removing the rule for the  *)
(* SSH port is the undo of allowing it.                                        *)
MCKinds == {"start", "stop", "restart", "allow22", "remove22"}

MCUndoOf == [k \in MCKinds |->
                CASE k = "start"    -> "stop"
                  [] k = "stop"     -> "start"
                  [] k = "allow22"  -> "remove22"
                  [] k = "remove22" -> "allow22"
                  [] OTHER          -> NoUndo]

MCForcesL3 == {"remove22"}

MCIncidentOf == [p \in Primaries |-> i1]

Content(steps, plan, blocked) ==
    [steps |-> steps, plan |-> plan, manual |-> 0, blocked |-> blocked]

(* Two contents for one incident, so that a token for one may meet the other.  *)
RaceRunbooks == {Content(<<"start">>, FALSE, FALSE), Content(<<"restart">>, FALSE, FALSE)}

(* Nothing to choose and nothing to undo.                                      *)
LoneRunbooks == {Content(<<"start">>, FALSE, FALSE)}

(* One step with an undo.                                                      *)
UndoRunbooks == {Content(<<"start">>, TRUE, FALSE)}

(* A rollback that is only partly possible, one that is forced to L3, and a    *)
(* runbook that is proposed as L3.                                             *)
CrashRunbooks == {Content(<<"start", "stop", "restart">>, TRUE, FALSE),
                  Content(<<"allow22">>, TRUE, FALSE),
                  Content(<<"stop">>, TRUE, TRUE)}

Symmetry == Permutations(Workers) \cup Permutations(Tokens)
================================================================================
