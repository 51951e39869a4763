----------------------------- MODULE CondenseLoop ------------------------------
(* condenseMonitorEvents of internal/watchtower/monitor_events.go as the loop  *)
(* it is: one pass that keeps a history per monitor, then the selection.       *)
EXTENDS Integers, Sequences, FiniteSets, FiniteSetsExt

CONSTANTS Monitors, \* monitorEventKey values
          MaxTime,  \* bound: FirstFailureAt values, 0 is the zero time
          MaxLen    \* bound: length of the queue

(* A state on the wire other than the two the engine emits is "other".         *)
Events == [key : Monitors, to : {"firing", "resolved", "other"}, first : 0..MaxTime]

VARIABLES events,    \* the queue, the function's argument
          i,         \* the position the loop looks at next
          histories  \* firingIndex, resolvedIndex (0 for none) and earliest, per monitor

vars == <<events, i, histories>>

Init ==
    /\ events \in UNION {[1..n -> Events] : n \in 0..MaxLen}
    /\ i = 1
    /\ histories = [k \in Monitors |-> [firing |-> 0, resolved |-> 0, earliest |-> 0]]

(* Mutant: the zero time counts as the earliest.                               *)
EarlierWithZero(h, e) == IF e.first < h.earliest THEN e.first ELSE h.earliest

(* The earlier of two times, where the zero time is no time.                   *)
Earlier(h, e) ==
    IF h.earliest = 0 \/ (e.first # 0 /\ e.first < h.earliest) THEN e.first ELSE h.earliest

(* A later firing starts a new episode.                                        *)
Firing(h, e) == [firing |-> i, resolved |-> 0, earliest |-> e.first]

Resolved(h, e) == [h EXCEPT !.resolved = i, !.earliest = Earlier(h, e)]

Other(h, e) == [h EXCEPT !.earliest = Earlier(h, e)]

(* One iteration.                                                              *)
Iterate ==
    LET e == events[i]
        h == histories[e.key]
    IN  /\ i <= Len(events)
        /\ histories' = [histories EXCEPT ![e.key] =
                            CASE e.to = "firing"   -> Firing(h, e)
                              [] e.to = "resolved" -> Resolved(h, e)
                              [] e.to = "other"    -> Other(h, e)]
        /\ i' = i + 1
        /\ UNCHANGED events

Spec == Init /\ [][Iterate]_vars

(* What is selected once the loop is done.                                     *)
Selected ==
    {j \in 1..Len(events) : j \in {histories[events[j].key].firing,
                                  histories[events[j].key].resolved}}

--------------------------------------------------------------------------------
(* The pass selects, of each monitor, the last firing event and the last       *)
(* resolved event unless a firing one follows it: at most a pair, in order,    *)
(* and the newest firing or resolved event is never dropped.  Both events of   *)
(* the pair carry the earliest known first failure of the episode, that is of  *)
(* the last firing event and what follows it, and no missing time (an event    *)
(* without one) hides a known one.                                             *)
CondensesToLastPair ==
    i > Len(events) =>
        /\ Selected = {j \in 1..Len(events) :
                          /\ events[j].to # "other"
                          /\ \A l \in (j + 1)..Len(events) :
                                events[l].key = events[j].key =>
                                    events[l].to # "firing" /\ events[l].to # events[j].to}
        /\ \A k \in Monitors :
              LET episode == {j \in 1..Len(events) :
                                /\ events[j].key = k
                                /\ \A l \in (j + 1)..Len(events) :
                                      events[l].key = k => events[l].to # "firing"}
                  times == {events[j].first : j \in episode} \ {0}
              IN  histories[k].earliest = IF times = {} THEN 0 ELSE Min(times)
================================================================================
