---------------------------- MODULE PipelineProofs -----------------------------
(* Promises on the way from a reading to the phone, for every bound: what the  *)
(* loop that condenses the queue selects, from queues of any length; that a    *)
(* reboot is announced at most once and that only evidence ends an episode;    *)
(* what the rules may propose, whatever the relay drafts; and that the         *)
(* diagnosis names the component that is down. The modules are CondenseLoop,   *)
(* Evaluators, PlaybookRules and Diagnosis, which MCPipeline instantiates as   *)
(* Loop, Eval, Rules and Diag.                                                 *)
(* At the end, that their composition, PipelineSpec, keeps what is proved here *)
(* and in EventStreamProofs of its parts.                                      *)
EXTENDS MCPipeline, EventStreamProofs

--------------------------------------------------------------------------------
(* The loop: the inductive invariant.                                          *)

(* The events of monitor k the loop has seen.                                  *)
SeenOf(k) == {j \in 1..(position - 1) : events[j].key = k}

(* The episode so far: the last firing event and what follows it.              *)
EpisodeOf(k) ==
    {j \in SeenOf(k) : \A l \in SeenOf(k) : l > j => events[l].to # "firing"}

LoopTyped ==
    /\ events \in Seq(Loop!Events)
    /\ position \in 1..(Len(events) + 1)
    /\ histories \in [Monitors -> [firing : Nat, resolved : Nat, earliest : Nat]]

(* firingIndex is the last firing event.                                       *)
FiringInv(k) ==
    LET f == histories[k].firing IN
    /\ f = 0 => \A j \in SeenOf(k) : events[j].to # "firing"
    /\ f # 0 => f \in EpisodeOf(k) /\ events[f].to = "firing"

(* resolvedIndex is the last resolved event of the episode, if there is one.   *)
ResolvedInv(k) ==
    LET r == histories[k].resolved IN
    /\ r = 0 => \A j \in EpisodeOf(k) : events[j].to # "resolved"
    /\ r # 0 => /\ r \in EpisodeOf(k) /\ events[r].to = "resolved"
                /\ \A l \in SeenOf(k) : l > r => events[l].to # "resolved"

(* earliest is the earliest time of the episode that is one.                   *)
EarliestInv(k) ==
    LET t == histories[k].earliest IN
    /\ \A j \in EpisodeOf(k) : events[j].first = 0 \/ (t # 0 /\ t <= events[j].first)
    /\ t # 0 => \E j \in EpisodeOf(k) : events[j].first = t

LoopInv ==
    LoopTyped /\ \A k \in Monitors : FiringInv(k) /\ ResolvedInv(k) /\ EarliestInv(k)

--------------------------------------------------------------------------------
(* The loop: the proof.                                                        *)

(* Nothing has been seen of any queue.                                         *)
LEMMA InitLoop == Loop!Init => LoopInv
  <1> SUFFICES ASSUME Loop!Init PROVE LoopInv
    OBVIOUS
  <1>1. PICK n \in 0..MaxQueue : events \in [1..n -> Loop!Events]
    BY DEF Loop!Init
  <1>2. events \in Seq(Loop!Events) /\ Len(events) \in Nat
    BY <1>1
  <1>3. LoopTyped
    BY <1>2 DEF Loop!Init, LoopTyped
  <1>4. \A k \in Monitors : SeenOf(k) = {}
    BY DEF Loop!Init, SeenOf
  <1>5. \A k \in Monitors : FiringInv(k) /\ ResolvedInv(k) /\ EarliestInv(k)
    BY <1>4 DEF Loop!Init, EpisodeOf, FiringInv, ResolvedInv, EarliestInv
  <1> QED BY <1>3, <1>5 DEF LoopInv

(* What an iteration changes: the history of the event's monitor.              *)
LEMMA IterateChanges ==
    ASSUME LoopInv, Loop!Iterate
    PROVE  LET e == events[position]
               h == histories[e.key]
           IN  /\ e \in Loop!Events /\ position \in 1..Len(events)
               /\ events' = events /\ position' = position + 1
               /\ \A k \in Monitors \ {e.key} : histories'[k] = histories[k]
               /\ e.to = "firing" => histories'[e.key] = Loop!Firing(h, e)
               /\ e.to = "resolved" => histories'[e.key] = Loop!Resolved(h, e)
               /\ e.to = "other" => histories'[e.key] = Loop!Other(h, e)
  <1> DEFINE e == events[position]
             h == histories[e.key]
  <1>1. position \in 1..Len(events) /\ e \in Loop!Events
    BY DEF LoopInv, LoopTyped, Loop!Iterate
  <1>2. e.key \in Monitors /\ e.to \in {"firing", "resolved", "other"}
    BY <1>1 DEF Loop!Events
  <1>3. /\ events' = events /\ position' = position + 1
        /\ histories' = [histories EXCEPT ![e.key] =
                            CASE e.to = "firing"   -> Loop!Firing(h, e)
                              [] e.to = "resolved" -> Loop!Resolved(h, e)
                              [] e.to = "other"    -> Loop!Other(h, e)]
    BY DEF Loop!Iterate
  <1> HIDE DEF e, h
  <1>4. e.key \in DOMAIN histories
    BY <1>2 DEF LoopInv, LoopTyped
  <1>5. /\ \A k \in Monitors \ {e.key} : histories'[k] = histories[k]
        /\ e.to = "firing" => histories'[e.key] = Loop!Firing(h, e)
        /\ e.to = "resolved" => histories'[e.key] = Loop!Resolved(h, e)
        /\ e.to = "other" => histories'[e.key] = Loop!Other(h, e)
    BY <1>3, <1>4 DEF LoopInv, LoopTyped
  <1> QED BY <1>1, <1>3, <1>5 DEF e, h

(* A monitor's events so far, and its episode, after an iteration.             *)
LEMMA LoopSeesNext ==
    ASSUME LoopInv, Loop!Iterate, NEW k \in Monitors
    PROVE  LET e == events[position] IN
           /\ e.key # k => UNCHANGED <<SeenOf(k), EpisodeOf(k)>>
           /\ e.key = k => /\ SeenOf(k)' = SeenOf(k) \cup {position}
                           /\ EpisodeOf(k)' = IF e.to = "firing" THEN {position}
                                              ELSE EpisodeOf(k) \cup {position}
  <1> DEFINE e == events[position]
  <1>1. /\ position \in 1..Len(events) /\ events' = events /\ position' = position + 1
    BY IterateChanges
  <1>2. 1..position = (1..(position - 1)) \cup {position}
    BY <1>1
  <1>3. SeenOf(k)' = {j \in 1..position : events[j].key = k}
    BY <1>1 DEF SeenOf
  <1>4. e.key # k => SeenOf(k)' = SeenOf(k)
    BY <1>2, <1>3 DEF SeenOf
  <1>5. e.key = k => SeenOf(k)' = SeenOf(k) \cup {position}
    BY <1>2, <1>3 DEF SeenOf
  <1>6. EpisodeOf(k)' = {j \in SeenOf(k)' : \A l \in SeenOf(k)' : l > j => events[l].to # "firing"}
    BY <1>1 DEF EpisodeOf
  <1>7. \A j \in SeenOf(k) : j < position /\ j \in Nat
    BY <1>1 DEF SeenOf
  <1>8. e.key # k => EpisodeOf(k)' = EpisodeOf(k)
    BY <1>4, <1>6 DEF EpisodeOf
  <1>9. ASSUME e.key = k
        PROVE  EpisodeOf(k)' = IF e.to = "firing" THEN {position}
                               ELSE EpisodeOf(k) \cup {position}
    BY <1>1, <1>5, <1>6, <1>7, <1>9 DEF EpisodeOf
  <1> QED BY <1>4, <1>5, <1>8, <1>9

(* An iteration keeps the invariant.                                           *)
LEMMA LoopKeeps ==
    ASSUME LoopInv, Loop!Iterate
    PROVE  LoopInv'
  <1> DEFINE e == events[position]
             h == histories[e.key]
  <1>1. /\ e \in Loop!Events /\ position \in 1..Len(events)
        /\ events' = events /\ position' = position + 1
        /\ \A k \in Monitors \ {e.key} : histories'[k] = histories[k]
        /\ e.to = "firing" => histories'[e.key] = Loop!Firing(h, e)
        /\ e.to = "resolved" => histories'[e.key] = Loop!Resolved(h, e)
        /\ e.to = "other" => histories'[e.key] = Loop!Other(h, e)
    BY IterateChanges
  <1>2. /\ e.key \in Monitors /\ e.to \in {"firing", "resolved", "other"}
        /\ e.first \in Nat
    BY <1>1 DEF Loop!Events
  <1>3. h \in [firing : Nat, resolved : Nat, earliest : Nat]
    BY <1>2 DEF LoopInv, LoopTyped
  <1>4. Loop!Earlier(h, e) \in Nat
    BY <1>2, <1>3 DEF Loop!Earlier
  <1>5. LoopTyped'
    <2>1. histories'[e.key] \in [firing : Nat, resolved : Nat, earliest : Nat]
      <3> HIDE DEF h
      <3>1. CASE e.to = "firing"
        BY <1>1, <1>2, <3>1 DEF Loop!Firing
      <3>2. CASE e.to = "resolved"
        <4>1. position \in Nat /\ histories'[e.key] = Loop!Resolved(h, e)
          BY <1>1, <3>2 DEF LoopInv, LoopTyped
        <4> HIDE DEF e
        <4> QED BY <1>3, <1>4, <4>1 DEF Loop!Resolved
      <3>3. CASE e.to = "other"
        BY <1>1, <1>3, <1>4, <3>3 DEF Loop!Other
      <3> QED BY <1>2, <3>1, <3>2, <3>3
    <2>2. DOMAIN histories' = Monitors /\ \E x : histories' = [histories EXCEPT ![e.key] = x]
      BY DEF Loop!Iterate, LoopInv, LoopTyped
    <2> HIDE DEF e, h
    <2>3. histories' \in [Monitors -> [firing : Nat, resolved : Nat, earliest : Nat]]
      BY <1>2, <2>1, <2>2 DEF LoopInv, LoopTyped
    <2> QED BY <1>1, <2>3 DEF LoopInv, LoopTyped
  <1>6. ASSUME NEW k \in Monitors, k # e.key
        PROVE  FiringInv(k)' /\ ResolvedInv(k)' /\ EarliestInv(k)'
    <2>1. SeenOf(k)' = SeenOf(k) /\ EpisodeOf(k)' = EpisodeOf(k)
      BY <1>6, LoopSeesNext
    <2>2. histories'[k] = histories[k] /\ events' = events
      BY <1>1, <1>6
    <2> QED BY <2>1, <2>2 DEF LoopInv, FiringInv, ResolvedInv, EarliestInv
  <1>7. ASSUME NEW k \in Monitors, k = e.key
        PROVE  FiringInv(k)' /\ ResolvedInv(k)' /\ EarliestInv(k)'
    <2> DEFINE S == SeenOf(k)
               E == EpisodeOf(k)
               new == histories'[k]
    <2>1. /\ SeenOf(k)' = S \cup {position}
          /\ EpisodeOf(k)' = IF e.to = "firing" THEN {position} ELSE E \cup {position}
      BY <1>7, LoopSeesNext
    <2>2. \A j \in S : j < position /\ j \in Nat \ {0}
      BY <1>1 DEF SeenOf
    <2>3. E \subseteq S
      BY DEF EpisodeOf
    <2>4. FiringInv(k) /\ ResolvedInv(k) /\ EarliestInv(k)
      BY <1>7 DEF LoopInv
    <2>5. events'[position] = e /\ \A j \in S : events'[j] = events[j]
      BY <1>1
    <2>6. \A j \in E : events[j].first \in Nat
      <3>1. \A j \in 1..Len(events) : events[j] \in Loop!Events
        BY DEF LoopInv, LoopTyped
      <3>2. S \subseteq 1..Len(events)
        BY <1>1 DEF SeenOf
      <3> QED BY <2>3, <3>1, <3>2 DEF Loop!Events
    <2>7. position \in Nat \ {0}
      BY <1>1
    <2>8. /\ FiringInv(k)' <=>
               /\ new.firing = 0 => \A j \in SeenOf(k)' : events[j].to # "firing"
               /\ new.firing # 0 => /\ new.firing \in EpisodeOf(k)'
                                    /\ events[new.firing].to = "firing"
          /\ ResolvedInv(k)' <=>
               /\ new.resolved = 0 => \A j \in EpisodeOf(k)' : events[j].to # "resolved"
               /\ new.resolved # 0 =>
                     /\ new.resolved \in EpisodeOf(k)' /\ events[new.resolved].to = "resolved"
                     /\ \A l \in SeenOf(k)' : l > new.resolved => events[l].to # "resolved"
          /\ EarliestInv(k)' <=>
               /\ \A j \in EpisodeOf(k)' :
                     \/ events[j].first = 0
                     \/ new.earliest # 0 /\ new.earliest <= events[j].first
               /\ new.earliest # 0 => \E j \in EpisodeOf(k)' : events[j].first = new.earliest
      <3>1. events' = events
        BY <1>1
      <3>2. FiringInv(k)' <=>
               /\ new.firing = 0 => \A j \in SeenOf(k)' : events[j].to # "firing"
               /\ new.firing # 0 => /\ new.firing \in EpisodeOf(k)'
                                    /\ events[new.firing].to = "firing"
        BY <3>1 DEF FiringInv
      <3>3. ResolvedInv(k)' <=>
               /\ new.resolved = 0 => \A j \in EpisodeOf(k)' : events[j].to # "resolved"
               /\ new.resolved # 0 =>
                     /\ new.resolved \in EpisodeOf(k)' /\ events[new.resolved].to = "resolved"
                     /\ \A l \in SeenOf(k)' : l > new.resolved => events[l].to # "resolved"
        BY <3>1 DEF ResolvedInv
      <3>4. EarliestInv(k)' <=>
               /\ \A j \in EpisodeOf(k)' :
                     \/ events[j].first = 0
                     \/ new.earliest # 0 /\ new.earliest <= events[j].first
               /\ new.earliest # 0 => \E j \in EpisodeOf(k)' : events[j].first = new.earliest
        BY <3>1 DEF EarliestInv
      <3> QED BY <3>2, <3>3, <3>4
    <2>9. /\ e.to = "firing" => new = [firing |-> position, resolved |-> 0, earliest |-> e.first]
          /\ e.to = "resolved" => /\ new.firing = h.firing /\ new.resolved = position
                                  /\ new.earliest = Loop!Earlier(h, e)
          /\ e.to = "other" => /\ new.firing = h.firing /\ new.resolved = h.resolved
                               /\ new.earliest = Loop!Earlier(h, e)
      BY <1>1, <1>3, <1>7 DEF Loop!Firing, Loop!Resolved, Loop!Other
    <2>10. CASE e.to = "firing"
      <3>1. EpisodeOf(k)' = {position} /\ new.firing = position /\ new.resolved = 0
            /\ new.earliest = e.first
        BY <2>1, <2>9, <2>10
      <3> HIDE DEF new, S, E
      <3> QED BY <1>2, <2>7, <2>8, <2>10, <3>1
    <2>11. CASE e.to # "firing"
      <3>1. EpisodeOf(k)' = E \cup {position} /\ new.firing = h.firing
            /\ new.earliest = Loop!Earlier(h, e)
        BY <1>2, <2>1, <2>9, <2>11
      <3>2. FiringInv(k)'
        BY <1>7, <2>1, <2>2, <2>4, <2>8, <2>11, <3>1 DEF FiringInv
      <3>3. ResolvedInv(k)'
        <4>1. CASE e.to = "resolved"
          BY <2>1, <2>2, <2>7, <2>8, <2>9, <3>1, <4>1
        <4>2. CASE e.to = "other"
          BY <1>7, <2>1, <2>2, <2>4, <2>8, <2>9, <3>1, <4>2 DEF ResolvedInv
        <4> QED BY <1>2, <2>11, <4>1, <4>2
      <3>4. EarliestInv(k)'
        <4>1. /\ \A j \in E : events[j].first = 0 \/ (h.earliest # 0 /\ h.earliest <= events[j].first)
              /\ h.earliest # 0 => \E j \in E : events[j].first = h.earliest
          BY <1>7, <2>4 DEF EarliestInv
        <4>2. h.earliest \in Nat
          BY <1>3
        <4> HIDE DEF h, E, new
        <4> QED BY <1>2, <2>6, <2>8, <3>1, <4>1, <4>2 DEF Loop!Earlier
      <3> QED BY <3>2, <3>3, <3>4
    <2> QED BY <2>10, <2>11
  <1> QED BY <1>2, <1>5, <1>6, <1>7 DEF LoopInv

(* What the loop knows of every monitor after any number of iterations.        *)
THEOREM LoopInductive == Loop!Spec => []LoopInv
  <1>1. LoopInv /\ [Loop!Iterate]_(Loop!vars) => LoopInv'
    <2>1. CASE UNCHANGED Loop!vars
      BY <2>1 DEF Loop!vars, LoopInv, LoopTyped, FiringInv, ResolvedInv, EarliestInv, SeenOf,
         EpisodeOf
    <2> QED BY <2>1, LoopKeeps
  <1> QED BY <1>1, InitLoop, PTL DEF Loop!Spec

(* CondensesToLastPair: condenseMonitorEvents selects of each monitor its last *)
(* pair, with the earliest known first failure of the episode, from a queue of *)
(* any length.                                                                 *)
THEOREM SelectsLastPair == Loop!Spec => []CondensesToLastPair
  <1>1. ASSUME LoopInv, position > Len(events)
        PROVE  Loop!CondensesToLastPair
    <2>1. position = Len(events) + 1 /\ Len(events) \in Nat
      BY <1>1 DEF LoopInv, LoopTyped
    <2>2. \A k \in Monitors : SeenOf(k) = {j \in 1..Len(events) : events[j].key = k}
      BY <2>1 DEF SeenOf
    <2>3. \A j \in 1..Len(events) : events[j] \in Loop!Events
      BY <1>1 DEF LoopInv, LoopTyped
    <2> DEFINE last(j) ==
          /\ events[j].to # "other"
          /\ \A l \in (j + 1)..Len(events) :
                events[l].key = events[j].key =>
                    events[l].to # "firing" /\ events[l].to # events[j].to
    <2>4. ASSUME NEW j \in 1..Len(events)
          PROVE  j \in {histories[events[j].key].firing, histories[events[j].key].resolved}
                 <=> last(j)
      <3> DEFINE k == events[j].key
      <3>1. k \in Monitors /\ events[j].to \in {"firing", "resolved", "other"}
        BY <2>3 DEF Loop!Events
      <3>2. FiringInv(k) /\ ResolvedInv(k)
        BY <1>1, <3>1 DEF LoopInv
      <3>3. /\ histories[k].firing \in Nat /\ histories[k].resolved \in Nat
        BY <1>1, <3>1 DEF LoopInv, LoopTyped
      <3>4. SeenOf(k) = {l \in 1..Len(events) : events[l].key = k} /\ j \in SeenOf(k)
        BY <2>2, <3>1
      <3>5. last(j) <=> /\ events[j].to # "other"
                        /\ \A l \in SeenOf(k) :
                              l > j => events[l].to # "firing" /\ events[l].to # events[j].to
        BY <2>1, <3>4
      <3> HIDE DEF last, k
      <3>6. CASE events[j].to = "firing"
        BY <2>1, <3>2, <3>3, <3>4, <3>5, <3>6 DEF FiringInv, ResolvedInv, EpisodeOf
      <3>7. CASE events[j].to = "resolved"
        BY <2>1, <3>2, <3>3, <3>4, <3>5, <3>7, SMTT(30) DEF FiringInv, ResolvedInv, EpisodeOf
      <3>8. CASE events[j].to = "other"
        BY <2>1, <3>2, <3>3, <3>4, <3>5, <3>8 DEF FiringInv, ResolvedInv
      <3> QED BY <3>1, <3>6, <3>7, <3>8 DEF k
    <2>5. Loop!Selected = {j \in 1..Len(events) : last(j)}
      BY <2>4 DEF Loop!Selected
    <2>6. ASSUME NEW k \in Monitors
          PROVE  LET episode == {j \in 1..Len(events) :
                                   /\ events[j].key = k
                                   /\ \A l \in (j + 1)..Len(events) :
                                         events[l].key = k => events[l].to # "firing"}
                     times == {events[j].first : j \in episode} \ {0}
                 IN  histories[k].earliest = IF times = {} THEN 0 ELSE Loop!Min(times)
      <3> DEFINE episode == {j \in 1..Len(events) :
                               /\ events[j].key = k
                               /\ \A l \in (j + 1)..Len(events) :
                                     events[l].key = k => events[l].to # "firing"}
                 times == {events[j].first : j \in episode} \ {0}
                 t == histories[k].earliest
      <3>1. episode = EpisodeOf(k)
        BY <2>1, <2>2 DEF EpisodeOf
      <3>2. EarliestInv(k)
        BY <1>1 DEF LoopInv
      <3>3. t \in Nat /\ \A x \in times : x \in Nat
        <4>1. \A j \in episode : events[j].first \in Nat
          BY <2>3 DEF Loop!Events
        <4> QED BY <1>1, <4>1 DEF LoopInv, LoopTyped
      <3>4. (\A x \in times : t # 0 /\ t <= x) /\ (t # 0 => t \in times)
        BY <3>1, <3>2 DEF EarliestInv
      <3> HIDE DEF episode, times, t
      <3>5. ASSUME times = {} PROVE t = 0
        BY <3>4, <3>5
      <3>6. ASSUME times # {} PROVE t = Loop!Min(times)
        <4>1. t \in times /\ \A x \in times : t <= x
          BY <3>4, <3>6
        <4>2. \A x \in times : (\A y \in times : x <= y) => x = t
          BY <3>3, <4>1
        <4>3. Loop!Min(times) = t
          BY <4>1, <4>2 DEF Loop!Min
        <4> QED BY <4>3
      <3> QED BY <3>5, <3>6 DEF times, episode, t
    <2> QED BY <2>5, <2>6 DEF Loop!CondensesToLastPair
  <1>2. LoopInv => CondensesToLastPair
    BY <1>1 DEF CondensesToLastPair, Loop!CondensesToLastPair
  <1> QED BY <1>2, LoopInductive, PTL

--------------------------------------------------------------------------------
(* The reboot evaluator.                                                       *)

(* What outlives the agent never runs ahead of the host, and what was announced *)
(* is stored: boot ids after the first, in the order of the boots.             *)
RebootInv ==
    /\ host \in [boot : Nat \ {0}, stored : Nat] /\ host.stored <= host.boot
    /\ announced \in Seq(Nat)
    /\ \A n \in 1..Len(announced) : 1 < announced[n] /\ announced[n] <= host.stored
    /\ \A n, m \in 1..Len(announced) : n < m => announced[n] < announced[m]

(* No other evaluator touches what outlives the agent or announces a boot.     *)
LEMMA OthersLeaveReboots ==
    ASSUME Eval!Evaluate, ~Eval!Reboot
    PROVE  UNCHANGED <<host, announced>>
  <1>1. CASE Eval!Skip
    BY <1>1 DEF Eval!Skip, Eval!Unanswered
  <1>2. CASE Eval!Disk
    BY <1>2 DEF Eval!Disk, Eval!Unanswered, Eval!Judge
  <1>3. CASE Eval!Memory
    BY <1>3 DEF Eval!Memory, Eval!Unanswered, Eval!Judge
  <1>4. CASE Eval!CPU
    BY <1>4 DEF Eval!CPU, Eval!Unanswered, Eval!Judge
  <1>5. CASE Eval!Load
    BY <1>5 DEF Eval!Load, Eval!Unanswered, Eval!Judge
  <1>6. CASE Eval!DiskFill
    BY <1>6 DEF Eval!DiskFill, Eval!Unanswered, Eval!Judge
  <1>7. CASE Eval!LogSpike
    BY <1>7 DEF Eval!LogSpike, Eval!Unanswered, Eval!Judge
  <1>8. CASE Eval!CertFile
    BY <1>8 DEF Eval!CertFile, Eval!Judge
  <1>9. CASE Eval!Cert
    BY <1>9 DEF Eval!Cert
  <1>10. CASE Eval!Docker
    BY <1>10 DEF Eval!Docker, Eval!Unanswered, Eval!Judge
  <1>11. CASE Eval!PM2
    BY <1>11 DEF Eval!PM2, Eval!Unanswered, Eval!Judge
  <1>12. CASE Eval!Systemd
    BY <1>12 DEF Eval!Systemd, Eval!Unanswered, Eval!Judge
  <1>13. CASE Eval!Timer
    BY <1>13 DEF Eval!Timer, Eval!Unanswered, Eval!Judge
  <1>14. CASE Eval!JobFreshness
    BY <1>14 DEF Eval!JobFreshness, Eval!Unanswered, Eval!Judge
  <1>15. CASE Eval!Port
    BY <1>15 DEF Eval!Port, Eval!Unanswered, Eval!Judge
  <1>16. CASE Eval!Process
    BY <1>16 DEF Eval!Process, Eval!Unanswered, Eval!Judge
  <1> QED BY <1>1, <1>2, <1>3, <1>4, <1>5, <1>6, <1>7, <1>8, <1>9, <1>10, <1>11, <1>12,
             <1>13, <1>14, <1>15, <1>16 DEF Eval!Evaluate

(* A boot is announced only when another one was stored, and is stored then.   *)
LEMMA RebootKeeps ==
    ASSUME RebootInv, Eval!Reboot
    PROVE  RebootInv'
  <1>1. CASE UNCHANGED host /\ Eval!BootReport("error", FALSE)
    BY <1>1 DEF RebootInv, Eval!BootReport
  <1>2. CASE Eval!BootReport("ok", TRUE) /\ host' = [host EXCEPT !.stored = host.boot]
    <2>1. announced' = announced
      BY <1>2 DEF Eval!BootReport
    <2>2. /\ host'.boot = host.boot /\ host'.stored = host.boot
          /\ host' \in [boot : Nat \ {0}, stored : Nat]
      BY <1>2 DEF RebootInv
    <2> QED BY <2>1, <2>2 DEF RebootInv
  <1>3. CASE /\ host.stored \notin {0, host.boot} /\ Eval!BootReport("fail", TRUE)
             /\ host' = [host EXCEPT !.stored = host.boot]
    <2>1. announced' = Append(announced, host.boot)
      BY <1>3 DEF Eval!BootReport, Eval!BootID
    <2>2. /\ host'.boot = host.boot /\ host'.stored = host.boot
          /\ host' \in [boot : Nat \ {0}, stored : Nat]
          /\ 1 < host.boot /\ host.stored < host.boot
      BY <1>3 DEF RebootInv
    <2>3. /\ announced' \in Seq(Nat) /\ Len(announced') = Len(announced) + 1
          /\ announced'[Len(announced) + 1] = host.boot
          /\ \A n \in 1..Len(announced) : announced'[n] = announced[n]
      BY <2>1, <2>2 DEF RebootInv
    <2>4. 1..Len(announced') = 1..Len(announced) \cup {Len(announced) + 1}
      BY <2>3 DEF RebootInv
    <2>5. \A n \in 1..Len(announced) : announced[n] \in Nat /\ announced[n] < host.boot
      BY <2>2 DEF RebootInv
    <2>6. \A n \in 1..Len(announced') : 1 < announced'[n] /\ announced'[n] <= host'.stored
      <3>1. \A n \in 1..Len(announced) : 1 < announced[n] /\ announced[n] <= host'.stored
        BY <2>2, <2>5 DEF RebootInv
      <3>2. 1 < announced'[Len(announced) + 1] /\ announced'[Len(announced) + 1] <= host'.stored
        BY <2>2, <2>3
      <3> QED BY <2>3, <2>4, <3>1, <3>2
    <2>7. ASSUME NEW n \in 1..Len(announced'), NEW m \in 1..Len(announced'), n < m
          PROVE  announced'[n] < announced'[m]
      <3>1. n \in 1..Len(announced) /\ Len(announced) \in Nat
        BY <2>3, <2>7, SMTT(30) DEF RebootInv
      <3>2. CASE m = Len(announced) + 1
        BY <2>3, <2>5, <3>1, <3>2
      <3>3. CASE m \in 1..Len(announced)
        BY <2>3, <2>7, <3>1, <3>3 DEF RebootInv
      <3> QED BY <2>4, <2>7, <3>2, <3>3
    <2> QED BY <2>2, <2>3, <2>6, <2>7 DEF RebootInv
  <1> QED BY <1>1, <1>2, <1>3 DEF Eval!Reboot, Eval!BootID

(* What is stored and announced of the boots, whatever the evaluator.          *)
THEOREM RebootsInOrder == Eval!Spec => []RebootInv
  <1>1. Eval!Init => RebootInv
    BY DEF Eval!Init, RebootInv
  <1>2. ASSUME RebootInv, [Eval!Next]_(Eval!vars)
        PROVE  RebootInv'
    <2>1. CASE UNCHANGED <<host, announced>>
      BY <1>2, <2>1 DEF RebootInv
    <2>2. CASE Eval!Evaluate
      BY <1>2, <2>1, <2>2, OthersLeaveReboots, RebootKeeps
    <2>3. CASE Eval!Minute \/ Eval!Toggle
      BY <2>1, <2>3 DEF Eval!Minute, Eval!Toggle
    <2>4. CASE Eval!Restart
      <3>1. CASE host' = [host EXCEPT !.boot = host.boot + 1]
        <4>1. announced' = announced
          BY <2>4 DEF Eval!Restart
        <4>2. /\ host'.boot = host.boot + 1 /\ host'.stored = host.stored
              /\ host' \in [boot : Nat \ {0}, stored : Nat]
          BY <1>2, <3>1 DEF RebootInv
        <4> QED BY <1>2, <4>1, <4>2 DEF RebootInv
      <3> QED BY <2>1, <2>4, <3>1 DEF Eval!Restart
    <2> QED BY <1>2, <2>1, <2>2, <2>3, <2>4 DEF Eval!Next, Eval!vars
  <1> QED BY <1>1, <1>2, PTL DEF Eval!Spec

(* RebootAnnouncedOnce: RebootDetectedEvaluator announces no boot twice and the *)
(* first one it sees not at all, whatever fails to be read or stored and        *)
(* however often the agent and the host restart.                               *)
THEOREM AnnouncedOnce == Eval!Spec => []RebootAnnouncedOnce
  <1>1. RebootInv => RebootAnnouncedOnce
    <2> SUFFICES ASSUME RebootInv
                 PROVE  /\ \A n, m \in DOMAIN announced : announced[n] = announced[m] => n = m
                        /\ \A n \in DOMAIN announced : announced[n] # 1
      BY DEF RebootAnnouncedOnce, Eval!RebootAnnouncedOnce, Eval!IsInjective, Eval!Range
    <2>1. DOMAIN announced = 1..Len(announced) /\ Len(announced) \in Nat
      BY DEF RebootInv
    <2>2. \A n \in DOMAIN announced : announced[n] \in Nat
      BY <2>1 DEF RebootInv
    <2>3. ASSUME NEW n \in DOMAIN announced, NEW m \in DOMAIN announced,
                 announced[n] = announced[m]
          PROVE  n = m
      <3>1. ~(n < m) /\ ~(m < n)
        BY <2>1, <2>2, <2>3 DEF RebootInv
      <3> QED BY <2>1, <3>1
    <2> QED BY <2>1, <2>3 DEF RebootInv
  <1> QED BY <1>1, RebootsInOrder, PTL
--------------------------------------------------------------------------------
(* Induction.                                                                  *)

(* A set of natural numbers that is not empty has a least member.              *)
LEMMA LeastMember ==
    ASSUME NEW T, T \subseteq Nat, T # {}
    PROVE  \E x \in T : \A y \in T : x <= y
  <1>1. PICK x \in T : \A y \in T : ~(<<y, x>> \in OpToRel(<, Nat))
    BY NatLessThanWellFounded, WFMin
  <1>2. OpToRel(<, Nat) = {p \in Nat \X Nat : p[1] < p[2]}
    BY Zenon DEF OpToRel
  <1>3. \A y \in T : <<y, x>> \in Nat \X Nat /\ <<y, x>>[1] = y /\ <<y, x>>[2] = x
    OBVIOUS
  <1>4. \A y \in T : ~(y < x)
    BY <1>1, <1>2, <1>3
  <1> QED BY <1>4

(* Induction, for a property given as the set of the numbers that have it.     *)
LEMMA Induction ==
    ASSUME NEW P, 0 \in P, \A n \in Nat : n \in P => n + 1 \in P
    PROVE  Nat \subseteq P
  <1> SUFFICES ASSUME Nat \ P # {} PROVE FALSE
    OBVIOUS
  <1>1. PICK x \in Nat \ P : \A y \in Nat \ P : x <= y
    BY LeastMember
  <1>2. x # 0 /\ x - 1 \in Nat /\ x - 1 \in P
    BY <1>1
  <1> QED BY <1>1, <1>2

(* One iteration of the loop of Keep.                                          *)
Keeps(G, s, S, n) ==
    G[n] = IF n = 0 THEN <<>>
           ELSE IF s[n] \in S THEN Append(G[n - 1], s[n]) ELSE G[n - 1]

(* There are the results of the first n iterations, for every n.               *)
LEMMA KeepLoopExists ==
    ASSUME NEW X, NEW s \in Seq(X), NEW S
    PROVE  \A n \in Nat : n <= Len(s) =>
               \E G \in [0..n -> Seq(X \cap S)] : \A i \in 0..n : Keeps(G, s, S, i)
  <1> DEFINE P == {n \in Nat : n <= Len(s) =>
                     \E G \in [0..n -> Seq(X \cap S)] : \A i \in 0..n : Keeps(G, s, S, i)}
  <1>1. 0 \in P
    <2> DEFINE G == [i \in 0..0 |-> <<>>]
    <2>1. G \in [0..0 -> Seq(X \cap S)] /\ \A i \in 0..0 : Keeps(G, s, S, i)
      BY DEF Keeps
    <2> QED BY <2>1
  <1>2. ASSUME NEW n \in Nat, n \in P PROVE n + 1 \in P
    <2> SUFFICES ASSUME n + 1 <= Len(s)
                 PROVE  \E G \in [0..(n + 1) -> Seq(X \cap S)] :
                            \A i \in 0..(n + 1) : Keeps(G, s, S, i)
      BY <1>2, SMTT(30)
    <2>1. PICK H \in [0..n -> Seq(X \cap S)] : \A i \in 0..n : Keeps(H, s, S, i)
      BY <1>2
    <2> DEFINE last == IF s[n + 1] \in S THEN Append(H[n], s[n + 1]) ELSE H[n]
               G == [i \in 0..(n + 1) |-> IF i <= n THEN H[i] ELSE last]
    <2>2. s[n + 1] \in X /\ H[n] \in Seq(X \cap S)
      BY <2>1
    <2>3. last \in Seq(X \cap S)
      BY <2>2
    <2>4. G \in [0..(n + 1) -> Seq(X \cap S)]
      BY <2>1, <2>3
    <2>5. \A i \in 0..(n + 1) : Keeps(G, s, S, i)
      <3>1. ASSUME NEW i \in 0..n PROVE Keeps(G, s, S, i)
        <4>1. G[i] = H[i] /\ (i # 0 => G[i - 1] = H[i - 1])
          OBVIOUS
        <4> QED BY <2>1, <4>1 DEF Keeps
      <3>2. Keeps(G, s, S, n + 1)
        <4>1. G[n + 1] = last /\ G[n] = H[n]
          OBVIOUS
        <4> QED BY <4>1 DEF Keeps
      <3> HIDE DEF G
      <3> QED BY <3>1, <3>2
    <2> QED BY <2>4, <2>5
  <1> HIDE DEF P
  <1>3. Nat \subseteq P
    BY <1>1, <1>2, Induction
  <1> QED BY <1>3 DEF P

(* Keep returns a sequence of elements of s that are in S.                     *)
LEMMA KeepType ==
    ASSUME NEW X, NEW s \in Seq(X), NEW S
    PROVE  /\ Rules!Keep(s, S) \in Seq(X \cap S)
           /\ Diag!Keep(s, S) \in Seq(X \cap S)
           /\ Eval!Keep(s, S) \in Seq(X \cap S)
  <1> DEFINE loop(G) == [n \in 0..Len(s) |->
                           IF n = 0 THEN <<>>
                           ELSE IF s[n] \in S THEN Append(G[n - 1], s[n]) ELSE G[n - 1]]
             F == CHOOSE G : G = loop(G)
  <1>1. /\ Rules!Keep(s, S) = F[Len(s)] /\ Diag!Keep(s, S) = F[Len(s)]
        /\ Eval!Keep(s, S) = F[Len(s)]
    BY DEF Rules!Keep, Diag!Keep, Eval!Keep
  <1>2. PICK G \in [0..Len(s) -> Seq(X \cap S)] : \A i \in 0..Len(s) : Keeps(G, s, S, i)
    <2>1. Len(s) \in Nat /\ Len(s) <= Len(s)
      OBVIOUS
    <2> QED BY <2>1, KeepLoopExists
  <1>3. G = loop(G)
    BY <1>2 DEF Keeps
  <1>4. F = loop(F)
    BY <1>3
  <1> HIDE DEF F
  <1>5. \A n \in 0..Len(s) : Keeps(F, s, S, n)
    BY <1>4 DEF Keeps
  <1> HIDE DEF loop
  <1> DEFINE P == {n \in Nat : n <= Len(s) => F[n] \in Seq(X \cap S)}
  <1>6. 0 \in P
    <2>1. Keeps(F, s, S, 0)
      BY <1>5
    <2>2. F[0] = <<>>
      BY <2>1 DEF Keeps
    <2> QED BY <2>2, SMTT(30)
  <1>7. ASSUME NEW n \in Nat, n \in P PROVE n + 1 \in P
    <2> SUFFICES ASSUME n + 1 <= Len(s) PROVE F[n + 1] \in Seq(X \cap S)
      OBVIOUS
    <2>1. F[n] \in Seq(X \cap S) /\ s[n + 1] \in X
      BY <1>7
    <2>2. F[n + 1] = IF s[n + 1] \in S THEN Append(F[n], s[n + 1]) ELSE F[n]
      BY <1>5 DEF Keeps
    <2> QED BY <2>1, <2>2
  <1> HIDE DEF P
  <1>8. Len(s) \in P
    BY <1>6, <1>7, Induction
  <1> QED BY <1>1, <1>8 DEF P

(* One iteration of the loop of Total.                                         *)
SumsUp(G, s, n) == G[n] = IF n = 0 THEN 0 ELSE G[n - 1] + s[n]

(* There are the results of the first n iterations, for every n.               *)
LEMMA TotalLoopExists ==
    ASSUME NEW s
    PROVE  \A n \in Nat : \E G : G = [i \in 0..n |-> G[i]] /\ \A i \in 0..n : SumsUp(G, s, i)
  <1> DEFINE P == {n \in Nat : \E G : G = [i \in 0..n |-> G[i]] /\ \A i \in 0..n : SumsUp(G, s, i)}
  <1>1. 0 \in P
    <2> DEFINE G == [i \in 0..0 |-> 0]
    <2>1. G = [i \in 0..0 |-> G[i]] /\ \A i \in 0..0 : SumsUp(G, s, i)
      BY DEF SumsUp
    <2> QED BY <2>1
  <1>2. ASSUME NEW n \in Nat, n \in P PROVE n + 1 \in P
    <2>1. PICK H : H = [i \in 0..n |-> H[i]] /\ \A i \in 0..n : SumsUp(H, s, i)
      BY <1>2
    <2> DEFINE last == H[n] + s[n + 1]
               G == [i \in 0..(n + 1) |-> IF i <= n THEN H[i] ELSE last]
    <2>2. G = [i \in 0..(n + 1) |-> G[i]]
      OBVIOUS
    <2>3. ASSUME NEW i \in 0..n PROVE SumsUp(G, s, i)
      <3>1. G[i] = H[i] /\ (i # 0 => G[i - 1] = H[i - 1])
        OBVIOUS
      <3> QED BY <2>1, <3>1 DEF SumsUp
    <2>4. SumsUp(G, s, n + 1)
      <3>1. G[n + 1] = last /\ G[n] = H[n]
        OBVIOUS
      <3>2. (n + 1) - 1 = n /\ n + 1 # 0
        OBVIOUS
      <3> HIDE DEF G
      <3> QED BY <3>1, <3>2 DEF SumsUp
    <2> HIDE DEF G
    <2>5. \A i \in 0..(n + 1) : SumsUp(G, s, i)
      BY <2>3, <2>4
    <2> QED BY <2>2, <2>5
  <1> HIDE DEF P
  <1>3. Nat \subseteq P
    BY <1>1, <1>2, Induction
  <1> QED BY <1>3 DEF P

(* Integers add up to an integer.                                              *)
LEMMA TotalType ==
    ASSUME NEW s \in Seq(Int)
    PROVE  Eval!Total(s) \in Int
  <1> DEFINE loop(G) == [n \in 0..Len(s) |-> IF n = 0 THEN 0 ELSE G[n - 1] + s[n]]
             F == CHOOSE G : G = loop(G)
  <1>1. Eval!Total(s) = F[Len(s)] /\ Len(s) \in Nat
    BY DEF Eval!Total
  <1>2. PICK G : G = [i \in 0..Len(s) |-> G[i]] /\ \A i \in 0..Len(s) : SumsUp(G, s, i)
    BY <1>1, TotalLoopExists
  <1>3. G = loop(G)
    BY <1>2 DEF SumsUp
  <1>4. F = loop(F)
    BY <1>3
  <1> HIDE DEF F
  <1>5. \A n \in 0..Len(s) : SumsUp(F, s, n)
    BY <1>4 DEF SumsUp
  <1> HIDE DEF loop
  <1> DEFINE P == {n \in Nat : n <= Len(s) => F[n] \in Int}
  <1>6. 0 \in P
    <2>1. SumsUp(F, s, 0)
      BY <1>1, <1>5
    <2> QED BY <2>1 DEF SumsUp
  <1>7. ASSUME NEW n \in Nat, n \in P PROVE n + 1 \in P
    <2> SUFFICES ASSUME n + 1 <= Len(s) PROVE F[n + 1] \in Int
      OBVIOUS
    <2>1. F[n] \in Int /\ s[n + 1] \in Int
      BY <1>1, <1>7
    <2>2. F[n + 1] = F[n] + s[n + 1]
      BY <1>1, <1>5 DEF SumsUp
    <2> QED BY <2>1, <2>2
  <1> HIDE DEF P
  <1>8. Len(s) \in P
    BY <1>1, <1>6, <1>7, Induction
  <1> QED BY <1>1, <1>8 DEF P

--------------------------------------------------------------------------------
(* The rules and the check of a playbook.                                      *)

(* A step of a rule names something that Check looks up, or frees space on the *)
(* disk its signature is about.                                                *)
Sourced == Rules!ServiceSteps \cup
             {"container.restart", "compose.up", "pm2.restart", "cert.renew", "check.http"}
AboutDisk(sig) == sig.type \in {"disk_exhausted", "inode_exhausted"}

RuleStep(s, sig, f) ==
    \/ s.id \in Sourced
    \/ /\ s.id \in Rules!DiskSteps /\ s.target = Rules!None
       /\ AboutDisk(sig) /\ f.mounts[s.id] = Rules!Mount(sig)

LEMMA RuleSteps ==
    ASSUME NEW sig, NEW f
    PROVE  \A i \in DOMAIN Rules!FromSignature(sig, f).steps :
               RuleStep(Rules!FromSignature(sig, f).steps[i], sig, f)
  <1> DEFINE Fits(pb) == \A i \in DOMAIN pb.steps : RuleStep(pb.steps[i], sig, f)
  <1> USE DEF Rules!Playbook, Rules!Step
  <1>1. Fits(Rules!NoPlaybook)
    BY DEF Rules!NoPlaybook
  <1>2. Fits(Rules!containerPlaybook(sig, f))
    BY <1>1 DEF Rules!containerPlaybook, RuleStep, Sourced
  <1>3. \A u : Rules!restartStep(u).id \in Sourced
    BY DEF Rules!restartStep, Rules!ServiceSteps, Sourced
  <1>4. Fits(Rules!unitPlaybook(sig, f))
    BY <1>1, <1>3 DEF Rules!unitPlaybook, RuleStep
  <1>5. Fits(Rules!oomPlaybook(sig, f))
    BY <1>3 DEF Rules!oomPlaybook, RuleStep
  <1>6. AboutDisk(sig) => Fits(Rules!diskPlaybook(sig, f))
    <2> SUFFICES ASSUME AboutDisk(sig) PROVE Fits(Rules!diskPlaybook(sig, f))
      OBVIOUS
    <2> DEFINE D == {d \in Rules!DiskSteps : f.mounts[d] = Rules!Mount(sig)}
               S == {Rules!Step(d, Rules!None) : d \in D}
    <2>1. /\ "disk.journal_vacuum" \in D => Rules!Step("disk.journal_vacuum", Rules!None) \in S
          /\ "disk.docker_prune" \in D => Rules!Step("disk.docker_prune", Rules!None) \in S
          /\ "disk.apt_clean" \in D => Rules!Step("disk.apt_clean", Rules!None) \in S
      OBVIOUS
    <2>2. \A s \in S : RuleStep(s, sig, f)
      BY DEF RuleStep
    <2>3. Rules!diskPlaybook(sig, f).steps \in Seq(S)
      <3>1. \A d : d \in D <=> d \in Rules!DiskSteps /\ f.mounts[d] = Rules!Mount(sig)
        OBVIOUS
      <3> HIDE DEF S, D
      <3> QED BY <2>1, <3>1 DEF Rules!diskPlaybook
    <2> QED BY <2>2, <2>3
  <1>7. Fits(Rules!certPlaybook(sig, f))
    BY <1>1 DEF Rules!certPlaybook, RuleStep, Sourced
  <1>8. Fits(Rules!proxyPlaybook(sig, f))
    <2> DEFINE fix == Rules!Step("container.restart", "web")
               check == Rules!Step("check.http", CHOOSE u \in Rules!checkURL(f) : TRUE)
               S == {Rules!restartStep("mysql"), Rules!restartStep("ssh"), fix, check}
    <2>1. \A s \in S : RuleStep(s, sig, f)
      BY <1>3 DEF RuleStep, Sourced
    <2>2. /\ Rules!restartStep("mysql") \in S /\ Rules!restartStep("ssh") \in S
          /\ fix \in S /\ check \in S
      OBVIOUS
    <2>3. Rules!proxyPlaybook(sig, f).steps \in Seq(S)
      <3> HIDE DEF S
      <3>1. CASE Rules!proxyPlaybook(sig, f) = Rules!NoPlaybook
        BY <3>1 DEF Rules!NoPlaybook
      <3>2. CASE Rules!proxyPlaybook(sig, f) # Rules!NoPlaybook
        BY <2>2, <3>2 DEF Rules!proxyPlaybook
      <3> QED BY <3>1, <3>2
    <2> HIDE DEF S
    <2> QED BY <2>1, <2>3
  <1>9. Fits(Rules!pm2Playbook(sig, f))
    BY <1>1 DEF Rules!pm2Playbook, RuleStep, Sourced
  <1> QED
    BY <1>1, <1>2, <1>4, <1>5, <1>6, <1>7, <1>8, <1>9 DEF Rules!FromSignature, AboutDisk

(* So does a step of the catalog's playbook, whichever signature made it.      *)
BundleStep(s, f) ==
    \/ s.id \in Sourced
    \/ s.id \in Rules!DiskSteps /\ s.target = Rules!None /\ f.mounts[s.id] \in Rules!Full(f)

LEMMA BundleSteps ==
    ASSUME NEW f, NEW Y, f.sigs \in Seq(Y)
    PROVE  \A i \in DOMAIN Rules!FromBundle(f).steps : BundleStep(Rules!FromBundle(f).steps[i], f)
  <1> DEFINE Fits(pb) == \A i \in DOMAIN pb.steps : BundleStep(pb.steps[i], f)
  <1>1. Fits(Rules!NoPlaybook)
    BY DEF Rules!NoPlaybook
  <1>2. ASSUME NEW n \in DOMAIN f.sigs
        PROVE  Fits(Rules!FromSignature(f.sigs[n], f))
    <2>1. AboutDisk(f.sigs[n]) => Rules!Mount(f.sigs[n]) \in Rules!Full(f)
      BY DEF AboutDisk, Rules!Full
    <2> QED BY <2>1, RuleSteps DEF RuleStep, BundleStep
  <1>3. ASSUME NEW candidates \in SUBSET DOMAIN f.sigs
        PROVE  Fits(Rules!First(candidates, f))
    <2> DEFINE fitting == {i \in candidates : Rules!FromSignature(f.sigs[i], f) # Rules!NoPlaybook}
    <2>1. CASE fitting = {}
      BY <1>1, <2>1 DEF Rules!First
    <2>2. CASE fitting # {}
      <3>1. fitting \subseteq Nat
        OBVIOUS
      <3>2. Rules!Min(fitting) \in fitting
        BY <2>2, <3>1, LeastMember DEF Rules!Min
      <3>3. Rules!First(candidates, f) = Rules!FromSignature(f.sigs[Rules!Min(fitting)], f)
        BY <2>2 DEF Rules!First
      <3> QED BY <1>2, <3>2, <3>3
    <2> QED BY <2>1, <2>2
  <1> QED BY <1>3 DEF Rules!FromBundle

(* What is left of a draft frees space on a full disk, if one is full.         *)
LEMMA DraftIsTrimmed ==
    ASSUME NEW f, NEW draft \in Seq(Rules!DraftSteps)
    PROVE  LET steps == Rules!dropWrongDisk(Rules!fromDraft(draft), f).steps IN
           /\ steps \in Seq(Rules!DraftSteps)
           /\ Rules!Full(f) # {} =>
                 \A i \in DOMAIN steps :
                     steps[i].id \in Rules!DiskSteps => f.mounts[steps[i].id] \in Rules!Full(f)
  <1> DEFINE pb == Rules!fromDraft(draft)
             helping == {s \in Rules!ToSet(pb.steps) :
                           s.id \in Rules!DiskSteps => f.mounts[s.id] \in Rules!Full(f)}
             steps == Rules!dropWrongDisk(pb, f).steps
  <1>1. pb.steps = draft
    BY DEF Rules!fromDraft, Rules!NoPlaybook
  <1>2. Rules!Keep(pb.steps, helping) \in Seq(Rules!DraftSteps \cap helping)
    BY <1>1, KeepType
  <1>3. CASE Rules!Full(f) = {}
    BY <1>1, <1>3 DEF Rules!dropWrongDisk
  <1>4. CASE Rules!Full(f) # {}
    <2>1. steps = Rules!Keep(pb.steps, helping)
      BY <1>4 DEF Rules!dropWrongDisk, Rules!fromDraft, Rules!NoPlaybook
    <2>2. \A s \in helping : s.id \in Rules!DiskSteps => f.mounts[s.id] \in Rules!Full(f)
      OBVIOUS
    <2> HIDE DEF helping, pb, steps
    <2>3. steps \in Seq(Rules!DraftSteps \cap helping)
      BY <1>2, <2>1
    <2>4. \A i \in DOMAIN steps : steps[i] \in helping /\ steps[i] \in Rules!DraftSteps
      BY <2>3
    <2> QED BY <2>2, <2>3, <2>4 DEF steps, pb
  <1> QED BY <1>3, <1>4

(* What is proposed was checked, wherever it comes from.                       *)
LEMMA PreparedIsChecked ==
    ASSUME NEW f, NEW Y, f.sigs \in Seq(Y), NEW draft \in Seq(Rules!DraftSteps)
    PROVE  LET pb == Rules!Prepared(f, draft) IN
           \A i \in DOMAIN pb.steps :
              /\ Rules!checkStep(pb.steps[i], f.inv)
              /\ BundleStep(pb.steps[i], f)
                 \/ (/\ pb.steps[i] \in Rules!DraftSteps
                     /\ Rules!Full(f) # {} /\ pb.steps[i].id \in Rules!DiskSteps
                           => f.mounts[pb.steps[i].id] \in Rules!Full(f))
  <1> DEFINE pb == Rules!Prepared(f, draft)
             rules == Rules!FromBundle(f)
             trimmed == Rules!dropWrongDisk(Rules!fromDraft(draft), f)
  <1>1. CASE pb = rules /\ Rules!Check(rules, f.inv)
    BY <1>1, BundleSteps DEF Rules!Check
  <1>2. CASE pb = trimmed /\ Rules!Check(trimmed, f.inv)
    <2>1. \A i \in DOMAIN trimmed.steps : trimmed.steps[i] \in Rules!DraftSteps
      BY DraftIsTrimmed
    <2> QED BY <1>2, <2>1, DraftIsTrimmed DEF Rules!Check
  <1>3. CASE pb = Rules!NoPlaybook
    BY <1>3 DEF Rules!NoPlaybook
  <1> QED BY <1>1, <1>2, <1>3 DEF Rules!Prepared, Rules!Generate

(* What an incident is about: what was discovered, and what the relay drafted. *)
IncidentInv ==
    incident # Rules!NoIncident =>
        /\ incident.report \in Rules!Reports
        /\ incident.inv = Rules!playbookInventory(incident.report)
        /\ incident.sigs \in Seq(Rules!Signatures)
        /\ incident.draft \in Seq(Rules!DraftSteps)

(* What the relay drafts is made of its steps.                                 *)
LEMMA DraftsAreSteps == Rules!Drafts \cup {<<>>} \subseteq Seq(Rules!DraftSteps)
  <1> DEFINE D == Rules!DraftSteps
  <1>1. /\ \A d \in Rules!DiskSteps : Rules!Step(d, Rules!None) \in D
        /\ Rules!Step("process.stop", Rules!None) \in D
    BY DEF Rules!DraftSteps
  <1> HIDE DEF D
  <1>2. \A s \in D : <<s>> \in Seq(D)
    OBVIOUS
  <1>3. \A s \in D, d \in Rules!DiskSteps : <<s, Rules!Step(d, Rules!None)>> \in Seq(D)
    BY <1>1
  <1>4. [i \in 1..(MaxSteps + 1) |-> Rules!Step("process.stop", Rules!None)] \in Seq(D)
    BY <1>1, PipelineAssumption
  <1>5. <<>> \in Seq(D)
    OBVIOUS
  <1>6. \A d \in Rules!Drafts \cup {<<>>} :
          \/ d = <<>>
          \/ \E s \in D : d = <<s>>
          \/ \E s \in D, c \in Rules!DiskSteps : d = <<s, Rules!Step(c, Rules!None)>>
          \/ d = [i \in 1..(MaxSteps + 1) |-> Rules!Step("process.stop", Rules!None)]
    BY DEF Rules!Drafts, D
  <1>7. \A d \in Rules!Drafts \cup {<<>>} : d \in Seq(D)
    BY <1>2, <1>3, <1>4, <1>5, <1>6, Zenon
  <1> QED BY <1>7 DEF D

(* What the diagnosis finds is made of signatures.                             *)
LEMMA SignatureSeqsAre == Rules!SignatureSeqs \subseteq Seq(Rules!Signatures)
  <1> DEFINE S == Rules!Signatures
             T == Rules!Others
  <1>1. T \subseteq S
    BY DEF Rules!Signatures, Rules!Mounts, Rules!Others
  <1>2. \A q \in Rules!SignatureSeqs :
          \/ q = <<>>
          \/ \E s \in S : q = <<s>>
          \/ \E s \in S, t \in T : q = <<s, t>>
    BY DEF Rules!SignatureSeqs
  <1> HIDE DEF S, T
  <1>3. <<>> \in Seq(S) /\ (\A s \in S : <<s>> \in Seq(S))
        /\ (\A s \in S, t \in S : <<s, t>> \in Seq(S))
    OBVIOUS
  <1>4. \A q \in Rules!SignatureSeqs : q \in Seq(S)
    BY <1>1, <1>2, <1>3, Zenon
  <1> QED BY <1>4 DEF S

(* An incident is another one, is the same, or is gone.                        *)
LEMMA IncidentKeeps ==
    ASSUME IncidentInv, [Rules!Next]_incident
    PROVE  IncidentInv'
  <1>1. CASE Rules!Incident
    <2>1. PICK report \in Rules!Reports, service \in Rules!Services, mounts \in Rules!DiskMounts,
               sigs \in Rules!SignatureSeqs, draft \in {<<>>} \cup Rules!Drafts :
             incident' = [Rules!Facts(report, sigs, service, mounts) EXCEPT !.draft = draft]
      BY <1>1 DEF Rules!Incident
    <2>2. /\ incident'.report = report /\ incident'.inv = Rules!playbookInventory(report)
          /\ incident'.sigs = sigs /\ incident'.draft = draft
      BY <2>1 DEF Rules!Facts
    <2> QED BY <2>2, DraftsAreSteps, SignatureSeqsAre DEF IncidentInv
  <1>2. CASE incident' = Rules!NoIncident
    BY <1>2 DEF IncidentInv
  <1>3. CASE UNCHANGED incident
    BY <1>3 DEF IncidentInv
  <1> QED BY <1>1, <1>2, <1>3 DEF Rules!Next

(* What an incident is about, whatever was discovered and drafted.             *)
THEOREM IncidentInductive == Rules!Spec => []IncidentInv
  <1>1. Rules!Init => IncidentInv
    BY DEF Rules!Init, IncidentInv
  <1> QED BY <1>1, IncidentKeeps, PTL DEF Rules!Spec

(* ProtectedIsNeverTouched: whatever the relay drafts and the rules make, Check *)
(* lets nothing through that touches a protected unit, names what was not      *)
(* discovered or is not in the catalog.                                        *)
THEOREM NoProtectedName == Rules!Spec => []ProtectedIsNeverTouched
  <1>1. ASSUME IncidentInv, incident # Rules!NoIncident
        PROVE  LET pb == Rules!Prepared(incident, incident.draft) IN
               \A i \in DOMAIN pb.steps :
                  /\ pb.steps[i].id \in Rules!Catalog
                  /\ pb.steps[i].id \in Rules!ServiceSteps =>
                        pb.steps[i].target \in incident.report.units
                  /\ pb.steps[i].target \in Rules!Discovered(incident.report) \cup {Rules!None}
    <2> DEFINE pb == Rules!Prepared(incident, incident.draft)
    <2> SUFFICES ASSUME NEW i \in DOMAIN pb.steps
                 PROVE  /\ pb.steps[i].id \in Rules!Catalog
                        /\ pb.steps[i].id \in Rules!ServiceSteps =>
                              pb.steps[i].target \in incident.report.units
                        /\ pb.steps[i].target \in Rules!Discovered(incident.report) \cup {Rules!None}
      OBVIOUS
    <2> DEFINE s == pb.steps[i]
               report == incident.report
               known == Rules!Discovered(report)
    <2>1. /\ report \in Rules!Reports
          /\ incident.inv = Rules!playbookInventory(report)
          /\ incident.sigs \in Seq(Rules!Signatures) /\ incident.draft \in Seq(Rules!DraftSteps)
      BY <1>1 DEF IncidentInv
    <2>2. /\ Rules!checkStep(s, incident.inv)
          /\ BundleStep(s, incident) \/ s \in Rules!DraftSteps
      BY <2>1, PreparedIsChecked
    <2> HIDE DEF s, pb
    <2>3. s.id \in Rules!Catalog /\ Rules!checkSource(s, incident.inv)
      BY <2>2 DEF Rules!checkStep
    <2>4. s.id \in Rules!ServiceSteps => s.target \in incident.inv.units
      BY <2>3 DEF Rules!checkSource, Rules!ServiceSteps
    <2>5. incident.inv.units = report.units \ {"ssh", "systemd-journald"}
      BY <2>1 DEF Rules!playbookInventory, Rules!CheckUnitAllowed
    <2>6. report.container \in {"absent", "plain", "compose"} /\ report.others \in BOOLEAN
      BY <2>1 DEF Rules!Reports
    <2>7. CASE s.id \in Sourced
      <3>1. /\ s.id = "container.restart" => s.target \in incident.inv.containers
            /\ s.id = "compose.up" => s.target \in incident.inv.compose
            /\ s.id = "pm2.restart" => s.target \in incident.inv.pm2
            /\ s.id = "cert.renew" => s.target \in incident.inv.certs
            /\ s.id = "check.http" => s.target \in incident.inv.urls
        BY <2>3 DEF Rules!checkSource, Rules!ServiceSteps
      <3>2. /\ incident.inv.containers \subseteq known /\ incident.inv.compose \subseteq known
            /\ incident.inv.pm2 \subseteq known /\ incident.inv.certs \subseteq known
            /\ incident.inv.urls \subseteq known /\ incident.inv.units \subseteq known
        BY <2>1, <2>5, <2>6 DEF Rules!playbookInventory, Rules!Discovered
      <3>3. s.target \in known
        BY <2>4, <2>7, <3>1, <3>2 DEF Sourced
      <3> QED BY <2>3, <2>4, <2>5, <3>3 DEF s
    <2>8. CASE s.id \notin Sourced
      <3>1. s.target = Rules!None
        <4>1. CASE BundleStep(s, incident)
          BY <2>8, <4>1 DEF BundleStep
        <4>2. CASE s \in Rules!DraftSteps
          BY <2>8, <4>2 DEF Rules!DraftSteps, Rules!Step, Sourced, Rules!ServiceSteps
        <4> QED BY <2>2, <4>1, <4>2
      <3> QED BY <2>3, <2>4, <2>5, <3>1 DEF s
    <2> QED BY <2>7, <2>8
  <1>2. IncidentInv => ProtectedIsNeverTouched
    BY <1>1 DEF ProtectedIsNeverTouched, Rules!ProtectedIsNeverTouched
  <1> QED BY <1>2, IncidentInductive, PTL

(* CleanUpsHelp: with a disk that is full, the rules offer only clean-ups of    *)
(* one that is (diskPlaybook), and dropWrongDisk leaves only such in a draft.  *)
THEOREM OnlyHelpfulCleanUps == Rules!Spec => []CleanUpsHelp
  <1>1. ASSUME IncidentInv, incident # Rules!NoIncident, Rules!Full(incident) # {}
        PROVE  LET pb == Rules!Prepared(incident, incident.draft) IN
               \A i \in DOMAIN pb.steps :
                  pb.steps[i].id \in Rules!DiskSteps =>
                      incident.mounts[pb.steps[i].id] \in Rules!Full(incident)
    <2>1. incident.sigs \in Seq(Rules!Signatures) /\ incident.draft \in Seq(Rules!DraftSteps)
      BY <1>1 DEF IncidentInv
    <2>2. Sourced \cap Rules!DiskSteps = {}
      BY DEF Sourced, Rules!DiskSteps, Rules!ServiceSteps
    <2> QED BY <1>1, <2>1, <2>2, PreparedIsChecked DEF BundleStep
  <1>2. IncidentInv => CleanUpsHelp
    BY <1>1 DEF CleanUpsHelp, Rules!CleanUpsHelp
  <1> QED BY <1>2, IncidentInductive, PTL

--------------------------------------------------------------------------------
(* The diagnosis.                                                              *)

(* A bundle whose items are within the budget.                                 *)
IsList(s) == s \in Seq({s[i] : i \in DOMAIN s})
IsItem(item) ==
    item = [kind |-> item.kind, name |-> item.name, state |-> item.state, id |-> item.id]
BundleOK(b) ==
    /\ b = [items |-> b.items, dropped |-> b.dropped, warnings |-> b.warnings, used |-> b.used]
    /\ IsList(b.items) /\ Len(b.items) <= budget

(* The first item of a bundle is this one.                                     *)
StartsWith(b, item) ==
    /\ b.items # <<>>
    /\ b.items[1].kind = item.kind /\ b.items[1].name = item.name /\ b.items[1].state = item.state

(* What may become of a bundle: its first item stays.                          *)
After(b, c) == BundleOK(c) /\ (b.items # <<>> => c.items # <<>> /\ c.items[1] = b.items[1])

(* A sequence is one of its own elements.                                     *)
LEMMA ListOf ==
    ASSUME NEW X, NEW s \in Seq(X)
    PROVE  IsList(s)
  BY DEF IsList

(* One thing after another is still after the first.                          *)
LEMMA AfterIsTransitive ==
    ASSUME NEW a, NEW b, NEW c, After(a, b), After(b, c)
    PROVE  After(a, c)
  BY DEF After

(* The first item is still the first.                                         *)
LEMMA StartsStay ==
    ASSUME NEW b, NEW c, NEW item, After(b, c), StartsWith(b, item)
    PROVE  StartsWith(c, item)
  BY DEF After, StartsWith

(* A warning leaves the items alone.                                           *)
LEMMA WarnKeeps ==
    ASSUME NEW b, BundleOK(b)
    PROVE  After(b, Diag!Warn(b)) /\ Diag!Warn(b).items = b.items
  <1>1. /\ Diag!Warn(b).items = b.items /\ Diag!Warn(b).dropped = b.dropped
        /\ Diag!Warn(b).used = b.used
        /\ Diag!Warn(b) = [items |-> b.items, dropped |-> b.dropped, warnings |-> b.warnings + 1,
                           used |-> b.used]
    BY DEF Diag!Warn, BundleOK
  <1> QED BY <1>1 DEF BundleOK, After

(* Add: the item goes to the end, and to the front of an empty bundle.         *)
LEMMA AddKeeps ==
    ASSUME NEW b, BundleOK(b), NEW item, budget \in Nat \ {0}
    PROVE  /\ After(b, Diag!Add(b, item))
           /\ b.items = <<>> /\ IsItem(item) => StartsWith(Diag!Add(b, item), item)
  <1> DEFINE c == Diag!Add(b, item)
             X == {b.items[i] : i \in DOMAIN b.items}
  <1>1. b.items \in Seq(X) /\ Len(b.items) \in Nat
    BY DEF BundleOK, IsList
  <1>2. CASE Diag!itemBudgetOK(b)
    <2>1. PICK new : /\ new = [item EXCEPT !.id = Diag!id(b, [kind |-> item.kind, name |-> item.name])]
                     /\ c.items = Append(b.items, new)
                     /\ c = [items |-> c.items, dropped |-> c.dropped, warnings |-> c.warnings,
                             used |-> c.used]
      BY <1>2 DEF Diag!Add, BundleOK
    <2>2. c.items \in Seq(X \cup {new}) /\ Len(c.items) = Len(b.items) + 1
      BY <1>1, <2>1
    <2>3. BundleOK(c)
      <3>1. IsList(c.items)
        BY <2>2, ListOf
      <3>2. Len(c.items) <= budget
        BY <1>1, <1>2, <2>2 DEF Diag!itemBudgetOK
      <3> HIDE DEF c
      <3> QED BY <2>1, <3>1, <3>2 DEF BundleOK
    <2>4. b.items # <<>> => c.items # <<>> /\ c.items[1] = b.items[1]
      BY <1>1, <2>1
    <2>5. b.items = <<>> => c.items # <<>> /\ c.items[1] = new
      BY <1>1, <2>1
    <2>6. IsItem(item) => new.kind = item.kind /\ new.name = item.name /\ new.state = item.state
      BY <2>1 DEF IsItem
    <2>7. After(b, c)
      BY <2>3, <2>4 DEF After
    <2>8. b.items = <<>> /\ IsItem(item) => StartsWith(c, item)
      <3> HIDE DEF c
      <3> QED BY <2>5, <2>6 DEF StartsWith
    <2> QED BY <2>7, <2>8
  <1>3. CASE ~Diag!itemBudgetOK(b)
    <2>1. /\ c.items = b.items
          /\ c = [items |-> c.items, dropped |-> c.dropped, warnings |-> c.warnings, used |-> c.used]
      BY <1>3 DEF Diag!Add, BundleOK
    <2>2. b.items # <<>>
      BY <1>1, <1>3 DEF Diag!itemBudgetOK
    <2> QED BY <2>1, <2>2 DEF After, BundleOK
  <1> QED BY <1>2, <1>3

(* One iteration of the loop of AddEach.                                       *)
Adds(G, b, items, n) == G[n] = IF n = 0 THEN b ELSE Diag!Add(G[n - 1], items[n])

(* There are the results of the first n iterations, for every n.               *)
LEMMA AddLoopExists ==
    ASSUME NEW b, NEW items
    PROVE  \A n \in Nat : \E G : G = [i \in 0..n |-> G[i]] /\ \A i \in 0..n : Adds(G, b, items, i)
  <1> DEFINE P == {n \in Nat : \E G : /\ G = [i \in 0..n |-> G[i]]
                                      /\ \A i \in 0..n : Adds(G, b, items, i)}
  <1>1. 0 \in P
    <2> DEFINE G == [i \in 0..0 |-> b]
    <2>1. G = [i \in 0..0 |-> G[i]] /\ \A i \in 0..0 : Adds(G, b, items, i)
      BY DEF Adds
    <2> QED BY <2>1
  <1>2. ASSUME NEW n \in Nat, n \in P PROVE n + 1 \in P
    <2>1. PICK H : H = [i \in 0..n |-> H[i]] /\ \A i \in 0..n : Adds(H, b, items, i)
      BY <1>2
    <2> DEFINE last == Diag!Add(H[n], items[n + 1])
               G == [i \in 0..(n + 1) |-> IF i <= n THEN H[i] ELSE last]
    <2>2. G = [i \in 0..(n + 1) |-> G[i]]
      OBVIOUS
    <2>3. ASSUME NEW i \in 0..n PROVE Adds(G, b, items, i)
      <3>1. G[i] = H[i] /\ (i # 0 => G[i - 1] = H[i - 1])
        OBVIOUS
      <3> QED BY <2>1, <3>1 DEF Adds
    <2>4. Adds(G, b, items, n + 1)
      <3>1. G[n + 1] = last /\ G[n] = H[n]
        OBVIOUS
      <3>2. (n + 1) - 1 = n /\ n + 1 # 0
        OBVIOUS
      <3> HIDE DEF G
      <3> QED BY <3>1, <3>2 DEF Adds
    <2> HIDE DEF G
    <2>5. \A i \in 0..(n + 1) : Adds(G, b, items, i)
      BY <2>3, <2>4
    <2> QED BY <2>2, <2>5
  <1> HIDE DEF P
  <1>3. Nat \subseteq P
    BY <1>1, <1>2, Induction
  <1> QED BY <1>3 DEF P

(* AddEach, whatever it is given: the first item stays, and is the first that  *)
(* is given when there was none.                                               *)
LEMMA AddEachKeeps ==
    ASSUME NEW b, BundleOK(b), NEW items, Len(items) \in Nat, budget \in Nat \ {0}
    PROVE  /\ After(b, Diag!AddEach(b, items))
           /\ b.items = <<>> /\ Len(items) > 0 /\ IsItem(items[1])
                 => StartsWith(Diag!AddEach(b, items), items[1])
  <1> DEFINE loop(G) == [n \in 0..Len(items) |-> IF n = 0 THEN b ELSE Diag!Add(G[n - 1], items[n])]
             F == CHOOSE G : G = loop(G)
  <1>1. Diag!AddEach(b, items) = F[Len(items)]
    BY DEF Diag!AddEach
  <1>2. PICK G : G = [i \in 0..Len(items) |-> G[i]] /\ \A i \in 0..Len(items) : Adds(G, b, items, i)
    BY AddLoopExists
  <1>3. G = loop(G)
    BY <1>2 DEF Adds
  <1>4. F = loop(F)
    BY <1>3
  <1> HIDE DEF F
  <1>5. \A n \in 0..Len(items) : Adds(F, b, items, n)
    BY <1>4 DEF Adds
  <1> HIDE DEF loop
  <1> DEFINE Good(n) == /\ After(b, F[n])
                        /\ n > 0 /\ b.items = <<>> /\ IsItem(items[1]) => StartsWith(F[n], items[1])
             P == {n \in Nat : n <= Len(items) => Good(n)}
  <1>6. 0 \in P
    <2>1. Adds(F, b, items, 0)
      BY <1>5
    <2>2. F[0] = b
      BY <2>1 DEF Adds
    <2> QED BY <2>2 DEF After
  <1>7. ASSUME NEW n \in Nat, n \in P PROVE n + 1 \in P
    <2> SUFFICES ASSUME n + 1 <= Len(items) PROVE Good(n + 1)
      OBVIOUS
    <2>1. Good(n)
      BY <1>7
    <2>2. F[n + 1] = Diag!Add(F[n], items[n + 1])
      BY <1>5 DEF Adds
    <2>3. BundleOK(F[n])
      BY <2>1 DEF After
    <2>4. /\ After(F[n], F[n + 1])
          /\ F[n].items = <<>> /\ IsItem(items[n + 1]) => StartsWith(F[n + 1], items[n + 1])
      BY <2>2, <2>3, AddKeeps
    <2>5. After(b, F[n + 1])
      BY <2>1, <2>4, AfterIsTransitive
    <2>6. ASSUME b.items = <<>>, IsItem(items[1]) PROVE StartsWith(F[n + 1], items[1])
      <3>1. CASE n = 0
        <4>1. Adds(F, b, items, 0)
          BY <1>5
        <4>2. F[0] = b
          BY <4>1 DEF Adds
        <4> QED BY <2>4, <2>6, <3>1, <4>2
      <3>2. CASE n # 0
        BY <2>1, <2>4, <2>6, <3>2, StartsStay
      <3> QED BY <3>1, <3>2
    <2> QED BY <2>5, <2>6
  <1> HIDE DEF P
  <1>8. Len(items) \in P
    BY <1>6, <1>7, Induction
  <1>9. Good(Len(items))
    BY <1>8 DEF P
  <1> QED BY <1>1, <1>9

(* AddUntilFull: the first item that is given always has its turn.             *)
LEMMA AddUntilFullKeeps ==
    ASSUME NEW b, BundleOK(b), NEW X, NEW items \in Seq(X), budget \in Nat \ {0}
    PROVE  /\ After(b, Diag!AddUntilFull(b, items))
           /\ b.items = <<>> /\ items # <<>> /\ IsItem(items[1])
                 => StartsWith(Diag!AddUntilFull(b, items), items[1])
  <1> DEFINE room == budget - Len(b.items)
             T == {Len(items), room + 1}
             given == SubSeq(items, 1, Diag!Min(T))
  <1>1. Len(b.items) \in Nat /\ Len(items) \in Nat
    BY DEF BundleOK, IsList
  <1>2. room \in Nat
    BY <1>1 DEF BundleOK
  <1>3. T \subseteq Nat /\ T # {}
    BY <1>1, <1>2
  <1>4. Diag!Min(T) \in T
    BY <1>3, LeastMember DEF Diag!Min
  <1>5. Diag!Min(T) \in 0..Len(items) /\ (items # <<>> => Diag!Min(T) > 0)
    <2>1. \E x \in T : \A y \in T : x <= y
      BY <1>3, LeastMember
    <2>2. \A y \in T : Diag!Min(T) <= y
      BY <2>1, Zenon DEF Diag!Min
    <2>3. Diag!Min(T) <= Len(items)
      BY <2>2
    <2>4. items # <<>> => Len(items) > 0
      BY <1>1
    <2>5. Diag!Min(T) = Len(items) \/ Diag!Min(T) = room + 1
      BY <1>4
    <2> DEFINE n == Diag!Min(T)
               r == room
    <2>6. /\ n <= Len(items) /\ (n = Len(items) \/ n = r + 1)
          /\ Len(items) \in Nat /\ r \in Nat /\ (items # <<>> => Len(items) > 0)
      BY <1>1, <1>2, <2>3, <2>4, <2>5
    <2> HIDE DEF n, r
    <2>7. n \in 0..Len(items) /\ (items # <<>> => n > 0)
      BY <2>6
    <2> QED BY <2>7 DEF n
  <1>6. Len(given) \in Nat /\ (items # <<>> => Len(given) > 0 /\ given[1] = items[1])
    <2> DEFINE n == Diag!Min(T)
    <2>1. n \in 0..Len(items) /\ (items # <<>> => n > 0)
      BY <1>5
    <2> HIDE DEF n
    <2>2. Len(SubSeq(items, 1, n)) = n /\ (n > 0 => SubSeq(items, 1, n)[1] = items[1])
      BY <1>1, <2>1
    <2> QED BY <2>1, <2>2 DEF n
  <1>7. Diag!AddUntilFull(b, items) = Diag!AddEach(b, given)
    BY DEF Diag!AddUntilFull
  <1> HIDE DEF given
  <1> QED BY <1>6, <1>7, AddEachKeeps

(* Logs: an excerpt, or a warning.                                             *)
LEMMA LogKeeps ==
    ASSUME NEW b, BundleOK(b), NEW source, NEW lines, budget \in Nat \ {0}
    PROVE  After(b, Diag!buildLog(b, source, lines))
  <1> DEFINE added(state) == Diag!Add(b, Diag!Item("log", source, state))
             c == Diag!buildLog(b, source, lines)
  <1>1. PICK state : c = added(state) \/ \E n : c = [added(state) EXCEPT !.dropped = n]
    BY DEF Diag!buildLog
  <1>2. After(b, added(state))
    BY AddKeeps
  <1> HIDE DEF added, c
  <1>3. CASE c = added(state)
    BY <1>2, <1>3 DEF c
  <1>4. ASSUME NEW n, c = [added(state) EXCEPT !.dropped = n] PROVE After(b, c)
    <2>1. /\ c.items = added(state).items
          /\ c = [items |-> c.items, dropped |-> c.dropped, warnings |-> c.warnings, used |-> c.used]
      BY <1>2, <1>4 DEF After, BundleOK
    <2> QED BY <1>2, <2>1 DEF After, BundleOK
  <1> QED BY <1>1, <1>3, <1>4 DEF c

(* LogRead: with or without an answer, the first item stays.                  *)
LEMMA LogReadKeeps ==
    ASSUME NEW b, BundleOK(b), NEW source, budget \in Nat \ {0},
           NEW c \in Diag!LogRead(b, source)
    PROVE  After(b, c)
  BY LogKeeps, WarnKeeps DEF Diag!LogRead

(* What is known of a diagnosis: the component it is about is its first item.  *)
Confidences(sigs) == {s.confidence : s \in sigs}
DiagInv ==
    /\ budget \in 1..MaxBudget /\ BundleOK(bundle)
    /\ phase = "own" => bundle = Diag!EmptyBundle /\ culprit = Diag!NoItem
    /\ culprit # Diag!NoItem => StartsWith(bundle, culprit)
    /\ phase = "done" =>
          /\ assessment.sigs = Diag!Match
          /\ assessment.confidence = Diag!Max(Confidences(Diag!Match) \cup {0})
          /\ assessment.uncertain = (assessment.confidence < Diag!confidenceThreshold)

(* The end of a collector.                                                     *)
LEMMA CollectedKeeps ==
    ASSUME DiagInv, NEW b, NEW own, Diag!Collected(b, own), BundleOK(b),
           own # Diag!NoItem => StartsWith(b, own)
    PROVE  DiagInv'
  <1>1. /\ bundle' = b \/ bundle' = Diag!Warn(b)
        /\ phase' \in {"infra", "match"} /\ culprit' = own /\ budget' = budget
    BY DEF Diag!Collected
  <1>2. After(b, bundle')
    BY <1>1, WarnKeeps DEF After
  <1>3. own # Diag!NoItem => StartsWith(bundle', own)
    BY <1>2, StartsStay
  <1>4. BundleOK(bundle)' /\ (culprit # Diag!NoItem => StartsWith(bundle, culprit))'
    BY <1>1, <1>2, <1>3 DEF After, BundleOK, StartsWith
  <1> QED BY <1>1, <1>4 DEF DiagInv

(* The rest of the collection leaves the first item where it is.               *)
LEMMA RestKeeps ==
    ASSUME DiagInv, After(bundle, bundle'), phase' \in {"webserver", "match"},
           UNCHANGED <<budget, culprit>>
    PROVE  DiagInv'
  <1>1. BundleOK(bundle)'
    BY DEF After, BundleOK
  <1>2. (culprit # Diag!NoItem => StartsWith(bundle, culprit))'
    BY DEF DiagInv, After, StartsWith
  <1> QED BY <1>1, <1>2 DEF DiagInv

(* Nothing has been collected yet.                                             *)
LEMMA InOwnPhase ==
    ASSUME DiagInv, phase = "own"
    PROVE  BundleOK(bundle) /\ bundle.items = <<>> /\ budget \in Nat \ {0}
  BY PipelineAssumption DEF DiagInv, Diag!EmptyBundle

(* collectDocker: the container comes before its siblings, its log and its    *)
(* restarts.                                                                  *)
LEMMA DockerKeeps ==
    ASSUME DiagInv, Diag!collectDocker
    PROVE  DiagInv'
  <1>0. BundleOK(bundle) /\ bundle.items = <<>> /\ budget \in Nat \ {0}
    BY InOwnPhase DEF Diag!collectDocker, Diag!Collects
  <1>1. CASE Diag!Collected(Diag!Warn(bundle), Diag!NoItem)
    BY <1>0, <1>1, WarnKeeps, CollectedKeeps DEF After
  <1>2. ASSUME NEW state \in Diag!Containers, NEW detailed \in BOOLEAN, NEW restarts \in {0, 1, 3},
               NEW siblings \in {<<>>, << 1 >>, <<1, 2>>},
               LET own == Diag!buildDockerComponent(<<"web", 1>>, state)
                   Sibling(n) == Diag!buildDockerComponent(<<"web", n>>, "running")
                   b1 == Diag!Add(IF detailed THEN bundle ELSE Diag!Warn(bundle), own)
                   b2 == Diag!AddUntilFull(b1, [i \in DOMAIN siblings |-> Sibling(siblings[i])])
               IN \E b3 \in Diag!LogRead(b2, "web") :
                     LET b4 == IF detailed /\ restarts >= 3
                               THEN Diag!Add(b3, Diag!Item("restart_loop", "web", "signal")) ELSE b3
                         b5 == IF detailed /\ restarts > 0
                               THEN Diag!Add(b4, Diag!Item("container_restart", "web", "change"))
                               ELSE b4
                     IN Diag!Collected(b5, own)
        PROVE  DiagInv'
    <2> DEFINE own == Diag!buildDockerComponent(<<"web", 1>>, state)
               Sibling(n) == Diag!buildDockerComponent(<<"web", n>>, "running")
               b0 == IF detailed THEN bundle ELSE Diag!Warn(bundle)
               b1 == Diag!Add(b0, own)
               listed == [i \in DOMAIN siblings |-> Sibling(siblings[i])]
               b2 == Diag!AddUntilFull(b1, listed)
    <2>1. BundleOK(b0) /\ b0.items = <<>>
      BY <1>0, WarnKeeps DEF After
    <2>2. IsItem(own)
      BY DEF IsItem, Diag!buildDockerComponent
    <2>3. After(b0, b1) /\ StartsWith(b1, own)
      <3> HIDE DEF b0, own
      <3> QED BY <1>0, <2>1, <2>2, AddKeeps
    <2>4. listed \in Seq({Sibling(1), Sibling(2)})
      <3> HIDE DEF Sibling
      <3> QED OBVIOUS
    <2> HIDE DEF own, b0, b1, listed
    <2>5. After(b1, b2)
      BY <1>0, <2>3, <2>4, AddUntilFullKeeps DEF After
    <2> HIDE DEF b2
    <2>6. PICK b3 \in Diag!LogRead(b2, "web") :
            LET b4 == IF detailed /\ restarts >= 3
                      THEN Diag!Add(b3, Diag!Item("restart_loop", "web", "signal")) ELSE b3
                b5 == IF detailed /\ restarts > 0
                      THEN Diag!Add(b4, Diag!Item("container_restart", "web", "change")) ELSE b4
            IN Diag!Collected(b5, own)
      BY <1>2 DEF own, b0, b1, listed, b2
    <2>7. After(b2, b3)
      BY <1>0, <2>5, LogReadKeeps DEF After
    <2> DEFINE b4 == IF detailed /\ restarts >= 3
                     THEN Diag!Add(b3, Diag!Item("restart_loop", "web", "signal")) ELSE b3
               b5 == IF detailed /\ restarts > 0
                     THEN Diag!Add(b4, Diag!Item("container_restart", "web", "change")) ELSE b4
    <2>8. After(b3, b4)
      BY <1>0, <2>7, AddKeeps DEF After
    <2> HIDE DEF b4
    <2>9. After(b4, b5)
      BY <1>0, <2>8, AddKeeps DEF After
    <2>10. Diag!Collected(b5, own)
      BY <2>6 DEF b4
    <2> HIDE DEF b5
    <2>11. StartsWith(b5, own) /\ BundleOK(b5)
      <3>1. StartsWith(b2, own)
        BY <2>3, <2>5, StartsStay
      <3>2. StartsWith(b3, own)
        BY <2>7, <3>1, StartsStay
      <3>3. StartsWith(b4, own)
        BY <2>8, <3>2, StartsStay
      <3>4. StartsWith(b5, own)
        BY <2>9, <3>3, StartsStay
      <3> QED BY <2>9, <3>4 DEF After
    <2> QED BY <2>10, <2>11, CollectedKeeps
  <1> QED BY <1>1, <1>2 DEF Diag!collectDocker

(* collectSystemd: the unit comes before its log.                             *)
LEMMA SystemdKeeps ==
    ASSUME DiagInv, Diag!collectSystemd
    PROVE  DiagInv'
  <1>0. BundleOK(bundle) /\ bundle.items = <<>> /\ budget \in Nat \ {0}
    BY InOwnPhase DEF Diag!collectSystemd, Diag!Collects
  <1>1. CASE Diag!Collected(Diag!Warn(bundle), Diag!NoItem)
    BY <1>0, <1>1, WarnKeeps, CollectedKeeps DEF After
  <1>2. ASSUME NEW own, IsItem(own),
               NEW b \in Diag!LogRead(Diag!Add(bundle, own), "web.service"), Diag!Collected(b, own)
        PROVE  DiagInv'
    <2>1. After(bundle, Diag!Add(bundle, own)) /\ StartsWith(Diag!Add(bundle, own), own)
      BY <1>0, <1>2, AddKeeps
    <2>2. After(Diag!Add(bundle, own), b)
      BY <1>0, <2>1, LogReadKeeps DEF After
    <2>3. StartsWith(b, own) /\ BundleOK(b)
      BY <2>1, <2>2, StartsStay DEF After
    <2> QED BY <1>2, <2>3, CollectedKeeps
  <1>3. \A state : IsItem(Diag!buildSystemdComponent(state))
    BY DEF IsItem, Diag!buildSystemdComponent, Diag!Item
  <1> QED BY <1>1, <1>2, <1>3 DEF Diag!collectSystemd

(* collectDisk: directories, none of them a culprit.                          *)
LEMMA DiskKeeps ==
    ASSUME DiagInv, Diag!collectDisk
    PROVE  DiagInv'
  <1>0. BundleOK(bundle) /\ bundle.items = <<>> /\ budget \in Nat \ {0}
    BY InOwnPhase DEF Diag!collectDisk, Diag!Collects
  <1> DEFINE dir == Diag!Item("large_directory", "dir", "signal")
  <1>1. PICK found \in 0..2, failed \in BOOLEAN :
          Diag!Collected(Diag!AddUntilFull(IF failed THEN Diag!Warn(bundle) ELSE bundle,
                                           [i \in 1..found |-> dir]), Diag!NoItem)
    BY DEF Diag!collectDisk, Diag!largestDirCount
  <1> HIDE DEF dir
  <1> DEFINE b0 == IF failed THEN Diag!Warn(bundle) ELSE bundle
  <1>2. BundleOK(b0)
    BY <1>0, WarnKeeps DEF After
  <1>3. [i \in 1..found |-> dir] \in Seq({dir})
    OBVIOUS
  <1> HIDE DEF b0
  <1>4. BundleOK(Diag!AddUntilFull(b0, [i \in 1..found |-> dir]))
    BY <1>0, <1>2, <1>3, AddUntilFullKeeps DEF After
  <1> QED BY <1>1, <1>4, CollectedKeeps DEF b0

(* The first of those listed, if there is one, is the culprit.                 *)
LEMMA ListedKeeps ==
    ASSUME DiagInv, phase = "own", NEW X, \A x \in X : IsItem(x), NEW listed \in Seq(X),
           Diag!Collected(Diag!AddUntilFull(bundle, listed),
                          IF listed = <<>> THEN Diag!NoItem ELSE Head(listed))
    PROVE  DiagInv'
  <1>0. BundleOK(bundle) /\ bundle.items = <<>> /\ budget \in Nat \ {0}
    BY InOwnPhase
  <1> DEFINE b == Diag!AddUntilFull(bundle, listed)
  <1>1. listed # <<>> => IsItem(listed[1]) /\ Head(listed) = listed[1]
    OBVIOUS
  <1>2. BundleOK(b) /\ (listed # <<>> => StartsWith(b, Head(listed)))
    BY <1>0, <1>1, AddUntilFullKeeps DEF After
  <1> HIDE DEF b
  <1>3. CASE listed = <<>>
    BY <1>2, <1>3, CollectedKeeps DEF b
  <1>4. CASE listed # <<>>
    BY <1>2, <1>4, CollectedKeeps DEF b
  <1> QED BY <1>3, <1>4

(* Keep takes nothing that was not there.                                     *)
LEMMA KeepWithin ==
    ASSUME NEW X, NEW s \in Seq(X), NEW S
    PROVE  Diag!Keep(s, S) \in Seq(X)
  <1>1. Diag!Keep(s, S) \in Seq(X \cap S)
    BY KeepType
  <1>2. Seq(X \cap S) \subseteq Seq(X)
    OBVIOUS
  <1> QED BY <1>1, <1>2

(* collectPM2: the app of the incident, or the first of those that are        *)
(* stopped.                                                                   *)
LEMMA PM2Keeps ==
    ASSUME DiagInv, Diag!collectPM2
    PROVE  DiagInv'
  <1>0. phase = "own" /\ BundleOK(bundle)
    BY InOwnPhase DEF Diag!collectPM2, Diag!Collects
  <1>1. CASE Diag!Collected(Diag!Warn(bundle), Diag!NoItem)
    BY <1>0, <1>1, WarnKeeps, CollectedKeeps DEF After
  <1>2. ASSUME NEW x, NEW y, IsItem(x), IsItem(y), NEW S,
               Diag!Collected(Diag!AddUntilFull(bundle, Diag!Keep(<<x, y>>, S)),
                              IF Diag!Keep(<<x, y>>, S) = <<>> THEN Diag!NoItem
                              ELSE Head(Diag!Keep(<<x, y>>, S)))
        PROVE  DiagInv'
    <2>1. <<x, y>> \in Seq({x, y})
      OBVIOUS
    <2>2. Diag!Keep(<<x, y>>, S) \in Seq({x, y} \cap S)
      BY <2>1, KeepType
    <2>3. \A z \in {x, y} \cap S : IsItem(z)
      BY <1>2
    <2> QED BY <1>0, <1>2, <2>2, <2>3, ListedKeeps
  <1>3. \A name, state : IsItem(Diag!Item("pm2_app", name, state))
    BY DEF IsItem, Diag!Item
  <1>4. CASE ~Diag!Collected(Diag!Warn(bundle), Diag!NoItem)
    <2>1. PICK web, other :
            LET Shown(state) == IF target = "pm2" /\ state = "online" THEN "restarting" ELSE state
                apps == <<Diag!Item("pm2_app", "other", other),
                          Diag!Item("pm2_app", "web", Shown(web))>>
                listed == Diag!Keep(apps, {a \in Diag!ToSet(apps) :
                                              /\ a.state \notin {"online", "missing"}
                                              /\ target = "pm2" => a.name[1] = "web"})
            IN Diag!Collected(Diag!AddUntilFull(bundle, listed),
                              IF listed = <<>> THEN Diag!NoItem ELSE Head(listed))
      BY <1>4 DEF Diag!collectPM2
    <2> DEFINE Shown(state) == IF target = "pm2" /\ state = "online" THEN "restarting" ELSE state
               x == Diag!Item("pm2_app", "other", other)
               y == Diag!Item("pm2_app", "web", Shown(web))
               S == {a \in Diag!ToSet(<<x, y>>) :
                       /\ a.state \notin {"online", "missing"}
                       /\ target = "pm2" => a.name[1] = "web"}
    <2>2. IsItem(x) /\ IsItem(y)
      BY <1>3
    <2>3. Diag!Collected(Diag!AddUntilFull(bundle, Diag!Keep(<<x, y>>, S)),
                         IF Diag!Keep(<<x, y>>, S) = <<>> THEN Diag!NoItem
                         ELSE Head(Diag!Keep(<<x, y>>, S)))
      BY <2>1
    <2> HIDE DEF x, y, S
    <2> QED BY <1>2, <2>2, <2>3
  <1> QED BY <1>1, <1>4

(* collectCerts: the first of the certificates that expire.                   *)
LEMMA CertsKeep ==
    ASSUME DiagInv, Diag!collectCerts
    PROVE  DiagInv'
  <1>0. phase = "own" /\ BundleOK(bundle)
    BY InOwnPhase DEF Diag!collectCerts, Diag!Collects
  <1>1. CASE Diag!Collected(Diag!Warn(bundle), Diag!NoItem)
    BY <1>0, <1>1, WarnKeeps, CollectedKeeps DEF After
  <1>2. ASSUME NEW x, NEW y, IsItem(x), IsItem(y), NEW S, NEW T,
               LET all == Diag!Keep(<<x, y>>, S)
                   matched == IF Diag!Matching(all) # <<>> THEN Diag!Matching(all) ELSE all
                   listed == Diag!Keep(matched, T)
               IN  Diag!Collected(Diag!AddUntilFull(bundle, listed),
                                  IF listed = <<>> THEN Diag!NoItem ELSE Head(listed))
        PROVE  DiagInv'
    <2> DEFINE all == Diag!Keep(<<x, y>>, S)
               matched == IF Diag!Matching(all) # <<>> THEN Diag!Matching(all) ELSE all
               listed == Diag!Keep(matched, T)
               X == {x, y}
    <2>1. <<x, y>> \in Seq(X)
      OBVIOUS
    <2>2. all \in Seq(X)
      BY <2>1, KeepWithin
    <2>3. Diag!Matching(all) \in Seq(X)
      BY <2>2, KeepWithin DEF Diag!Matching
    <2>4. matched \in Seq(X)
      BY <2>2, <2>3
    <2>5. listed \in Seq(X)
      BY <2>4, KeepWithin
    <2>6. \A z \in X : IsItem(z)
      BY <1>2
    <2> HIDE DEF X
    <2> QED BY <1>0, <1>2, <2>5, <2>6, ListedKeeps
  <1>3. \A name, state : IsItem(Diag!Item("certificate", name, state))
    BY DEF IsItem, Diag!Item
  <1>4. CASE ~Diag!Collected(Diag!Warn(bundle), Diag!NoItem)
    <2>1. PICK web, other :
            LET certs == <<Diag!Item("certificate", "other", other),
                           Diag!Item("certificate", "web", web)>>
                all == Diag!Keep(certs, {c \in Diag!ToSet(certs) : c.state # "missing"})
                matched == IF Diag!Matching(all) # <<>> THEN Diag!Matching(all) ELSE all
                listed == Diag!Keep(matched, {c \in Diag!ToSet(matched) : c.state # "valid"})
            IN Diag!Collected(Diag!AddUntilFull(bundle, listed),
                              IF listed = <<>> THEN Diag!NoItem ELSE Head(listed))
      BY <1>4 DEF Diag!collectCerts
    <2> DEFINE x == Diag!Item("certificate", "other", other)
               y == Diag!Item("certificate", "web", web)
               S == {c \in Diag!ToSet(<<x, y>>) : c.state # "missing"}
               all == Diag!Keep(<<x, y>>, S)
               matched == IF Diag!Matching(all) # <<>> THEN Diag!Matching(all) ELSE all
               T == {c \in Diag!ToSet(matched) : c.state # "valid"}
    <2>2. IsItem(x) /\ IsItem(y)
      BY <1>3
    <2>3. Diag!Collected(Diag!AddUntilFull(bundle, Diag!Keep(matched, T)),
                         IF Diag!Keep(matched, T) = <<>> THEN Diag!NoItem
                         ELSE Head(Diag!Keep(matched, T)))
      BY <2>1
    <2> HIDE DEF x, y, S, T
    <2> QED BY <1>2, <2>2, <2>3
  <1> QED BY <1>1, <1>4

(* The proxy: the monitor's summary, the error log and the backends.           *)
LEMMA ProxyKeeps ==
    ASSUME DiagInv, Diag!collectProxy
    PROVE  DiagInv'
  <1>0. BundleOK(bundle) /\ budget \in Nat \ {0}
    BY InOwnPhase DEF Diag!collectProxy, Diag!Collects
  <1>1. PICK summary \in {<<>>, <<"plain">>, <<"upstream">>},
             backends \in {<<>>, <<"upstream_unit">>, <<"upstream_address", "upstream_container">>} :
          LET b1 == IF summary = <<>> THEN bundle ELSE Diag!buildLog(bundle, "summary", summary)
              Backend(i) == Diag!Item(backends[i], "backend", "unknown")
          IN \E b2 \in Diag!LogRead(b1, "proxy") \cup {b1} :
                Diag!Collected(IF backends = <<>> THEN Diag!Warn(b2)
                               ELSE Diag!AddUntilFull(b2, [i \in DOMAIN backends |-> Backend(i)]),
                               Diag!NoItem)
    BY DEF Diag!collectProxy
  <1> DEFINE b1 == IF summary = <<>> THEN bundle ELSE Diag!buildLog(bundle, "summary", summary)
             Backend(i) == Diag!Item(backends[i], "backend", "unknown")
             listed == [i \in DOMAIN backends |-> Backend(i)]
  <1>2. BundleOK(b1)
    BY <1>0, LogKeeps DEF After
  <1>3. listed \in Seq({Backend(1), Backend(2)})
    <2> HIDE DEF Backend
    <2> QED OBVIOUS
  <1> HIDE DEF b1, listed
  <1>4. PICK b2 \in Diag!LogRead(b1, "proxy") \cup {b1} :
          Diag!Collected(IF backends = <<>> THEN Diag!Warn(b2) ELSE Diag!AddUntilFull(b2, listed),
                         Diag!NoItem)
    BY <1>1 DEF b1, listed
  <1>5. BundleOK(b2)
    BY <1>0, <1>2, LogReadKeeps DEF After
  <1>6. BundleOK(Diag!Warn(b2)) /\ BundleOK(Diag!AddUntilFull(b2, listed))
    BY <1>0, <1>3, <1>5, WarnKeeps, AddUntilFullKeeps DEF After
  <1> QED BY <1>4, <1>6, CollectedKeeps

(* The host: metrics, and whether the kernel killed a process.                 *)
LEMMA InfraKeeps ==
    ASSUME DiagInv, Diag!collectInfra
    PROVE  DiagInv'
  <1>0. BundleOK(bundle) /\ budget \in Nat \ {0}
    BY PipelineAssumption DEF DiagInv
  <1>1. PICK b1 \in {Diag!Warn(bundle)} \cup {Diag!addInfraMetrics(bundle, s) : s \in Diag!Samples} :
          bundle' \in {b1, Diag!Warn(b1), Diag!Add(b1, Diag!Item("oom_kill", "host", "signal"))}
    BY DEF Diag!collectInfra
  <1>2. ASSUME NEW s PROVE After(bundle, Diag!addInfraMetrics(bundle, s))
    <2> DEFINE Metric(name, state) == IF state = "none" THEN <<>>
                                      ELSE <<Diag!Item(name, "host", state)>>
               X == {Diag!Item("cpu", "host", s.cpu), Diag!Item("memory", "host", s.memory),
                     Diag!Item("disk", "host", s.disk), Diag!Item("inode", "host", s.inode)}
               metrics == Metric("cpu", s.cpu) \o Metric("memory", s.memory)
                          \o Metric("disk", s.disk) \o Metric("inode", s.inode)
    <2>1. metrics \in Seq(X)
      <3>1. /\ Diag!Item("cpu", "host", s.cpu) \in X /\ Diag!Item("memory", "host", s.memory) \in X
            /\ Diag!Item("disk", "host", s.disk) \in X /\ Diag!Item("inode", "host", s.inode) \in X
        OBVIOUS
      <3>2. \A name, state : Diag!Item(name, "host", state) \in X => Metric(name, state) \in Seq(X)
        <4> HIDE DEF X
        <4> QED OBVIOUS
      <3>3. /\ Metric("cpu", s.cpu) \in Seq(X) /\ Metric("memory", s.memory) \in Seq(X)
            /\ Metric("disk", s.disk) \in Seq(X) /\ Metric("inode", s.inode) \in Seq(X)
        <4> HIDE DEF Metric, X
        <4> QED BY <3>1, <3>2
      <3> HIDE DEF Metric, X
      <3> QED BY <3>3
    <2>2. Diag!addInfraMetrics(bundle, s) = Diag!AddEach(bundle, metrics)
      BY DEF Diag!addInfraMetrics
    <2> HIDE DEF metrics, X
    <2>3. Len(metrics) \in Nat
      BY <2>1
    <2> QED BY <1>0, <2>2, <2>3, AddEachKeeps
  <1>3. After(bundle, b1)
    BY <1>0, <1>1, <1>2, WarnKeeps
  <1>4. After(b1, Diag!Warn(b1)) /\ After(b1, Diag!Add(b1, Diag!Item("oom_kill", "host", "signal")))
    BY <1>0, <1>3, WarnKeeps, AddKeeps DEF After
  <1>5. After(bundle, bundle')
    BY <1>1, <1>3, <1>4, AfterIsTransitive
  <1> QED BY <1>5, RestKeeps DEF Diag!collectInfra

(* collectWebserver: the web servers come after what is there.                *)
LEMMA WebserverKeeps ==
    ASSUME DiagInv, Diag!collectWebserver
    PROVE  DiagInv'
  <1>0. BundleOK(bundle) /\ budget \in Nat \ {0}
    BY PipelineAssumption DEF DiagInv
  <1> DEFINE nginx == Diag!Item("webserver", "nginx", "active")
  <1>1. \/ bundle' = Diag!Warn(bundle)
        \/ \E n \in 0..2 : bundle' = Diag!AddUntilFull(bundle, [i \in 1..n |-> nginx])
    BY DEF Diag!collectWebserver
  <1> HIDE DEF nginx
  <1>2. \A n \in 0..2 : [i \in 1..n |-> nginx] \in Seq({nginx})
    OBVIOUS
  <1>3. \A n \in 0..2 : After(bundle, Diag!AddUntilFull(bundle, [i \in 1..n |-> nginx]))
    BY <1>0, <1>2, AddUntilFullKeeps
  <1>4. After(bundle, bundle')
    BY <1>0, <1>1, <1>3, WarnKeeps
  <1> QED BY <1>4, RestKeeps DEF Diag!collectWebserver

(* Run: the assessment is made of what Match finds.                            *)
LEMMA RunKeeps ==
    ASSUME DiagInv, Diag!Run
    PROVE  DiagInv'
  <1>1. /\ UNCHANGED <<budget, bundle, culprit>> /\ phase' = "done"
        /\ assessment'.sigs = Diag!Match
        /\ assessment'.confidence = Diag!Max(Confidences(Diag!Match) \cup {0})
        /\ assessment'.uncertain = (assessment'.confidence < Diag!confidenceThreshold)
    BY DEF Diag!Run, Confidences
  <1>2. Diag!Match' = Diag!Match
    <2>1. bundle' = bundle
      BY <1>1
    <2> QED BY <2>1 DEF Diag!Match, Diag!proxySignature, Diag!signalSignature,
         Diag!componentSignature, Diag!metricSignature, Diag!changeSignature, Diag!Is, Diag!Sig
  <1>3. BundleOK(bundle)' /\ (culprit # Diag!NoItem => StartsWith(bundle, culprit))'
    BY <1>1 DEF DiagInv, BundleOK, StartsWith
  <1> QED BY <1>1, <1>2, <1>3 DEF DiagInv, Diag!confidenceThreshold, Confidences

(* What is known of a diagnosis after any number of its steps.                 *)
THEOREM DiagnosisInductive == Diag!Spec => []DiagInv
  <1>1. Diag!Init => DiagInv
    <2> SUFFICES ASSUME Diag!Init PROVE DiagInv
      OBVIOUS
    <2>1. budget \in 1..MaxBudget
      BY PipelineAssumption DEF Diag!Init, Diag!withDefaults
    <2>2. BundleOK(bundle)
      BY <2>1, PipelineAssumption DEF Diag!Init, Diag!EmptyBundle, BundleOK, IsList
    <2> QED BY <2>1, <2>2 DEF Diag!Init, DiagInv
  <1>2. DiagInv /\ [Diag!Next]_Diag!vars => DiagInv'
    <2> SUFFICES ASSUME DiagInv, [Diag!Next]_Diag!vars PROVE DiagInv'
      OBVIOUS
    <2>1. CASE Diag!collectNothing
      <3>1. BundleOK(bundle)
        BY DEF DiagInv
      <3> QED BY <2>1, <3>1, CollectedKeeps DEF Diag!collectNothing
    <2>2. CASE UNCHANGED Diag!vars
      <3>1. Diag!Match' = Diag!Match
        BY <2>2 DEF Diag!vars, Diag!Match, Diag!proxySignature, Diag!signalSignature,
           Diag!componentSignature, Diag!metricSignature, Diag!changeSignature, Diag!Is, Diag!Sig
      <3> QED BY <2>2, <3>1 DEF Diag!vars, DiagInv, BundleOK, StartsWith
    <2> QED BY <2>1, <2>2, DockerKeeps, SystemdKeeps, DiskKeeps, PM2Keeps, CertsKeep, ProxyKeeps,
         InfraKeeps, WebserverKeeps, RunKeeps DEF Diag!Next, Diag!Collect
  <1> QED BY <1>1, <1>2, PTL DEF Diag!Spec

(* CulpritIsNamed: the component that a collector saw down is the bundle's     *)
(* first item (Collect's order), the first item is always within the budget    *)
(* (itemBudgetOK), a signature of Match cites it, and Assess is at least as    *)
(* sure as that signature.                                                     *)
THEOREM NamesTheCulprit == Diag!Spec => []CulpritIsNamed
  <1>1. DiagInv => CulpritIsNamed
    <2> SUFFICES ASSUME DiagInv, phase = "done", culprit # Diag!NoItem,
                        culprit.kind \in DOMAIN Diag!Down,
                        culprit.state \in Diag!Down[culprit.kind]
                 PROVE  /\ bundle.items # <<>> /\ Len(bundle.items) <= budget
                        /\ \E s \in assessment.sigs :
                              /\ s.evidence = {bundle.items[1].id}
                              /\ bundle.items[1].name = culprit.name
                              /\ assessment.confidence >= s.confidence
                        /\ ~assessment.uncertain
      BY DEF CulpritIsNamed, Diag!CulpritIsNamed
    <2>1. /\ bundle.items # <<>> /\ Len(bundle.items) <= budget /\ 1 \in DOMAIN bundle.items
          /\ bundle.items[1].kind = culprit.kind /\ bundle.items[1].name = culprit.name
          /\ bundle.items[1].state = culprit.state
      BY DEF DiagInv, StartsWith, BundleOK, IsList
    <2>2. PICK s \in Diag!componentSignature(1) :
            s.evidence = {bundle.items[1].id} /\ s.confidence \in 85..95
      <3>1. \A t, c : /\ Diag!Sig(t, 1, c).evidence = {bundle.items[1].id}
                      /\ Diag!Sig(t, 1, c).confidence = c
        BY DEF Diag!Sig
      <3>2. \E t \in {"container_stopped", "unit_failed", "pm2_app_stopped", "cert_expiring"} :
              \E c \in 85..95 : Diag!Sig(t, 1, c) \in Diag!componentSignature(1)
        BY <2>1 DEF Diag!componentSignature, Diag!Is, Diag!Down, Diag!isStoppedState,
           Diag!isDownUnitState, Diag!isStoppedPM2
      <3> QED BY <3>1, <3>2
    <2>3. s \in Diag!Match
      BY <2>1, <2>2 DEF Diag!Match
    <2> DEFINE C == Confidences(Diag!Match) \cup {0}
    <2>4. C \subseteq 0..100
      <3>1. \A t, i, c : Diag!Sig(t, i, c).confidence = c
        BY DEF Diag!Sig
      <3>2. \A x \in Diag!Match : x.confidence \in 0..100
        BY <3>1 DEF Diag!Match, Diag!proxySignature, Diag!signalSignature,
           Diag!componentSignature, Diag!metricSignature, Diag!changeSignature
      <3> QED BY <3>2 DEF Confidences
    <2>5. \E x \in C : \A y \in C : x >= y
      <3> DEFINE T == {n \in 0..100 : 100 - n \in C}
      <3>1. T \subseteq Nat /\ 100 \in T
        OBVIOUS
      <3>2. \E n \in T : \A m \in T : n <= m
        <4> HIDE DEF T
        <4> QED BY <3>1, LeastMember
      <3>3. PICK n \in T : \A m \in T : n <= m
        BY <3>2
      <3>4. \A y \in C : y \in 0..100 /\ 100 - y \in T
        <4> HIDE DEF C
        <4>1. \A y \in 0..100 : 100 - (100 - y) = y /\ 100 - y \in 0..100
          OBVIOUS
        <4> QED BY <2>4, <4>1
      <3>5. n \in 0..100 /\ 100 - n \in C
        OBVIOUS
      <3> HIDE DEF C, T
      <3>6. \A y \in C : 100 - n >= y
        BY <3>3, <3>4, <3>5
      <3> QED BY <3>5, <3>6
    <2>6. \A y \in C : Diag!Max(C) >= y
      <3> HIDE DEF C
      <3> QED BY <2>5, Zenon DEF Diag!Max
    <2>7. Diag!Max(C) \in C
      BY <2>5, Zenon DEF Diag!Max
    <2>8. s.confidence \in C
      BY <2>3 DEF Confidences
    <2>9. assessment.confidence >= s.confidence /\ assessment.confidence \in 0..100
      BY <2>4, <2>6, <2>7, <2>8 DEF DiagInv
    <2>10. ~assessment.uncertain
      <3>1. assessment.uncertain = (assessment.confidence < 60)
        BY DEF DiagInv, Diag!confidenceThreshold
      <3>2. ~(assessment.confidence < 60)
        BY <2>2, <2>9
      <3> QED BY <3>1, <3>2
    <2> QED BY <2>1, <2>2, <2>3, <2>9, <2>10 DEF DiagInv
  <1> QED BY <1>1, DiagnosisInductive, PTL

--------------------------------------------------------------------------------
(* The evaluators: what ends an episode.                                       *)

(* The thresholds an evaluator works with, a level beyond the one that opens   *)
(* an episode (of hours and days the level is the negative), and what is known *)
(* of its memory.                                                              *)
Limits ==
    CASE kind \in Eval!Raw -> [fire |-> def.fire, recover |-> def.recover]
      [] kind \in Eval!HigherIsWorse -> Eval!thresholds(def, 2, 1, TRUE)
      [] kind = "fill" -> Eval!thresholds(def, 2, 3, FALSE)
      [] OTHER -> Eval!thresholds(def, 1, 2, FALSE)

Opens(level) == IF kind \in Eval!LowerIsWorse THEN level > -Limits.fire ELSE level >= Limits.fire

Measured == kind \in Eval!Kinds \ Eval!Plain

(* The kinds a level of which is held against a band the right way up.         *)
Banded == Measured /\ Eval!Ordered

FillSamples == [at : Int, used : Int]
LogEvents == [at : Int, n : Int]
MemoryInv ==
    /\ kind = "fill" => mem \in [samples : Seq(FillSamples), reset : BOOLEAN]
    /\ kind = "log" => mem.events \in Seq(LogEvents) /\ mem.offset \in Int
    /\ kind = "cert" => mem.have \in BOOLEAN /\ mem.notAfter \in Int

(* A certificate that was seen and is not found healthy runs out.              *)
CertInv ==
    kind = "cert" /\ inEpisode /\ mem.have /\ verdict \notin {"ok", "absent"}
       => mem.notAfter - now < Limits.recover

EpisodeInv ==
    /\ kind \in Eval!Kinds /\ now \in Nat /\ inEpisode \in BOOLEAN
    /\ def \in [fire : 0..MaxLevel, recover : Nat, param : Nat, enabled : BOOLEAN]
    /\ inEpisode /\ Measured => opened \in Int /\ Opens(opened)
    /\ inEpisode /\ Banded /\ verdict = "ok" => reading.level < opened

EvalInv == EpisodeInv /\ MemoryInv /\ CertInv

(* What the property asks of a step.                                           *)
Evidence ==
    inEpisode /\ verdict' = "ok" =>
        /\ Banded => reading'.level < opened
        /\ reading'.seen \/ verdict \in {"ok", "absent"}

(* The smaller and the larger of two integers.                                 *)
LEMMA MinMax ==
    ASSUME NEW x \in Int, NEW y \in Int
    PROVE  /\ Eval!Min({x, y}) \in {x, y} /\ Eval!Min({x, y}) <= y
           /\ Eval!Max({x, y}) \in {x, y} /\ y <= Eval!Max({x, y}) /\ x <= Eval!Max({x, y})
  <1>1. \E z \in {x, y} : \A w \in {x, y} : z <= w
    OBVIOUS
  <1>2. \E z \in {x, y} : \A w \in {x, y} : z >= w
    OBVIOUS
  <1>3. Eval!Min({x, y}) \in {x, y} /\ \A w \in {x, y} : Eval!Min({x, y}) <= w
    BY <1>1, Zenon DEF Eval!Min
  <1>4. Eval!Max({x, y}) \in {x, y} /\ \A w \in {x, y} : Eval!Max({x, y}) >= w
    BY <1>2, Zenon DEF Eval!Max
  <1> QED BY <1>3, <1>4

(* The firing value is a level, and recovery lies on its right side, which     *)
(* thresholds sees to where the relay's values are not taken as they are.      *)
LEMMA LimitsFit ==
    ASSUME EpisodeInv
    PROVE  /\ Limits.fire \in 0..999 /\ Limits.recover \in Int
           /\ kind \in Eval!Raw \cup Eval!HigherIsWorse /\ Eval!Ordered =>
                 Limits.recover <= Limits.fire
           /\ kind \in Eval!LowerIsWorse => Limits.fire <= Limits.recover
  <1>1. def.fire \in 0..999 /\ def.recover \in Int
    BY PipelineAssumption, SMTT(30) DEF EpisodeInv
  <1> DEFINE Fits(t) == t.fire \in 0..999 /\ t.recover \in Int
             T(f, r) == Eval!thresholds(def, f, r, TRUE)
             U(f, r) == Eval!thresholds(def, f, r, FALSE)
  <1>3. ASSUME NEW f \in 1..2, NEW r \in 1..3
        PROVE  /\ Fits(T(f, r)) /\ T(f, r).recover <= T(f, r).fire
               /\ Fits(U(f, r)) /\ U(f, r).fire <= U(f, r).recover
    <2> DEFINE fire == IF def.fire <= 0 THEN f ELSE def.fire
               recover == IF def.recover <= 0 THEN r ELSE def.recover
    <2>1. fire \in 0..999 /\ fire \in Int /\ recover \in Int
      BY <1>1, SMTT(30)
    <2>2. /\ T(f, r).fire = fire /\ T(f, r).recover = Eval!Min({recover, fire})
          /\ U(f, r).fire = fire /\ U(f, r).recover = Eval!Max({recover, fire})
      BY DEF Eval!thresholds
    <2> HIDE DEF fire, recover, T, U
    <2>3. /\ Eval!Min({recover, fire}) \in {recover, fire} /\ Eval!Min({recover, fire}) <= fire
          /\ Eval!Max({recover, fire}) \in {recover, fire} /\ fire <= Eval!Max({recover, fire})
      BY MinMax, <2>1
    <2>4. T(f, r).recover \in Int /\ U(f, r).recover \in Int
      BY <2>1, <2>2, <2>3
    <2> QED BY <2>1, <2>2, <2>3, <2>4
  <1> HIDE DEF T, U, Fits
  <1>0. 1 \in 1..2 /\ 2 \in 1..2 /\ 1 \in 1..3 /\ 2 \in 1..3 /\ 3 \in 1..3
    OBVIOUS
  <1>4. CASE kind \in Eval!Raw
    <2>1. kind \notin Eval!LowerIsWorse
      BY <1>4 DEF Eval!Raw, Eval!LowerIsWorse
    <2>2. kind \notin Eval!HigherIsWorse /\ kind # "fill"
      BY <1>4 DEF Eval!Raw, Eval!HigherIsWorse
    <2>3. Limits = [fire |-> def.fire, recover |-> def.recover]
      BY <1>4, <2>2, Zenon DEF Limits
    <2> QED BY <1>1, <1>4, <2>1, <2>3 DEF Eval!Ordered
  <1>5. CASE kind \in Eval!HigherIsWorse
    <2>1. kind \notin Eval!LowerIsWorse /\ Limits = T(2, 1)
      BY <1>5 DEF Limits, T, Eval!Raw, Eval!LowerIsWorse, Eval!HigherIsWorse
    <2>2. Fits(T(2, 1)) /\ T(2, 1).recover <= T(2, 1).fire
      BY <1>0, <1>3, Zenon
    <2> QED BY <2>1, <2>2 DEF Fits
  <1>6. CASE kind \notin Eval!Raw \cup Eval!HigherIsWorse
    <2>1. Limits = U(2, 3) \/ Limits = U(1, 2)
      BY <1>6 DEF Limits, U
    <2>2. /\ Fits(U(2, 3)) /\ U(2, 3).fire <= U(2, 3).recover
          /\ Fits(U(1, 2)) /\ U(1, 2).fire <= U(1, 2).recover
      BY <1>0, <1>3, Zenon
    <2> QED BY <1>6, <2>1, <2>2 DEF Fits
  <1> QED BY <1>4, <1>5, <1>6

(* The thresholds are the definition's.                                        *)
LEMMA LimitsStay ==
    ASSUME EpisodeInv, kind' = kind, def'.fire = def.fire, def'.recover = def.recover
    PROVE  Limits' = Limits /\ (Measured <=> Measured') /\ (Banded <=> Banded')
  BY DEF Limits, Eval!thresholds, Measured, Banded, Eval!Ordered

(* An evaluation, whatever its outcome.                                        *)
LEMMA ReportKeeps ==
    ASSUME EpisodeInv, NEW v, NEW met, NEW level, NEW m, Eval!Report(v, met, level, m),
           Measured /\ v = "fail" /\ ~inEpisode => level \in Int /\ Opens(level),
           Banded /\ v = "ok" /\ inEpisode => level < opened,
           v = "ok" /\ inEpisode => met \/ verdict \in {"ok", "absent"}
    PROVE  EpisodeInv' /\ Evidence
  <1>1. /\ verdict' = v /\ reading'.seen = met /\ reading'.level = level
        /\ UNCHANGED <<kind, def, named, now>>
        /\ opened' = IF v = "fail" /\ ~inEpisode THEN level ELSE opened
        /\ v = "fail" => inEpisode' = TRUE
        /\ v # "fail" => inEpisode' \in {FALSE, inEpisode}
    BY DEF Eval!Report, EpisodeInv
  <1>2. Limits' = Limits /\ (Measured <=> Measured') /\ (Banded <=> Banded')
    BY <1>1, LimitsStay
  <1>3. inEpisode' \in BOOLEAN
    BY <1>1 DEF EpisodeInv
  <1>4. ASSUME inEpisode', Measured' PROVE opened' \in Int /\ Opens(opened)'
    <2>1. CASE v = "fail" /\ ~inEpisode
      BY <1>1, <1>2, <1>4, <2>1 DEF Opens
    <2>2. CASE ~(v = "fail" /\ ~inEpisode)
      <3>1. inEpisode /\ opened' = opened
        BY <1>1, <1>4, <2>2 DEF EpisodeInv
      <3> QED BY <1>1, <1>2, <1>4, <3>1 DEF Opens, EpisodeInv
    <2> QED BY <2>1, <2>2
  <1>5. ASSUME inEpisode', Banded', verdict' = "ok" PROVE reading'.level < opened'
    <2>1. inEpisode /\ v = "ok" /\ opened' = opened
      BY <1>1, <1>5 DEF EpisodeInv
    <2> QED BY <1>1, <1>2, <1>5, <2>1
  <1>6. Evidence
    BY <1>1 DEF Evidence
  <1> QED BY <1>1, <1>2, <1>3, <1>4, <1>5, <1>6 DEF EpisodeInv

(* Most kinds have no memory that counts here.                                 *)
LEMMA MemoryStays ==
    ASSUME EvalInv, kind' = kind, kind \notin {"fill", "log", "cert"} \/ mem' = mem,
           kind = "cert" => verdict' = "absent"
    PROVE  MemoryInv' /\ CertInv'
  BY DEF EvalInv, MemoryInv, CertInv

(* No answer.                                                                  *)
LEMMA UnansweredKeeps ==
    ASSUME EvalInv, NEW v, Eval!Unanswered(v), v \in {"hold", "error", "absent"},
           kind = "cert" => v = "absent"
    PROVE  EvalInv' /\ Evidence
  <1>1. Eval!Report(v, FALSE, 0, mem)
    BY DEF Eval!Unanswered
  <1>2. kind' = kind /\ mem' = mem /\ verdict' = v
    BY <1>1 DEF Eval!Report
  <1>3. EpisodeInv' /\ Evidence
    BY <1>1, ReportKeeps DEF EvalInv
  <1> QED BY <1>2, <1>3, MemoryStays DEF EvalInv

(* A look at a kind without memory.                                            *)
LEMMA LookKeeps ==
    ASSUME EvalInv, NEW v, NEW met, NEW level, NEW m, Eval!Report(v, met, level, m),
           kind \notin {"fill", "log", "cert"}, v = "ok" => met,
           Measured /\ v = "fail" /\ ~inEpisode => level \in Int /\ Opens(level),
           Banded /\ v = "ok" /\ inEpisode => level < opened
    PROVE  EvalInv' /\ Evidence
  <1>1. kind' = kind
    BY DEF Eval!Report
  <1>2. EpisodeInv' /\ Evidence
    BY ReportKeeps DEF EvalInv
  <1> QED BY <1>1, <1>2, MemoryStays DEF EvalInv

(* And one that ends in a judgement.                                          *)
LEMMA JudgeKeeps ==
    ASSUME EvalInv, NEW fails, NEW level, NEW m, Eval!Judge(fails, level, m),
           kind \notin {"fill", "log", "cert"},
           Measured /\ fails /\ ~inEpisode => level \in Int /\ Opens(level),
           Banded /\ ~fails /\ inEpisode => level < opened
    PROVE  EvalInv' /\ Evidence
  <1>1. Eval!Report(IF fails THEN "fail" ELSE "ok", TRUE, level, m)
    BY DEF Eval!Judge
  <1>2. CASE fails
    BY <1>1, <1>2, LookKeeps
  <1>3. CASE ~fails
    BY <1>1, <1>3, LookKeeps
  <1> QED BY <1>2, <1>3

(* A level of a kind of which more is worse, against the thresholds.           *)
LEMMA AboveBand ==
    ASSUME EpisodeInv, kind \in Eval!Raw \cup Eval!HigherIsWorse, NEW level \in Int, NEW fails,
           fails /\ ~inEpisode => level >= Limits.fire,
           ~fails /\ inEpisode => level < Limits.recover
    PROVE  /\ Measured /\ fails /\ ~inEpisode => level \in Int /\ Opens(level)
           /\ Banded /\ ~fails /\ inEpisode => level < opened
  <1>1. kind \notin Eval!LowerIsWorse
    BY DEF Eval!Raw, Eval!HigherIsWorse, Eval!LowerIsWorse
  <1>2. fails /\ ~inEpisode => Opens(level)
    BY <1>1 DEF Opens
  <1>3. ASSUME Banded, ~fails, inEpisode PROVE level < opened
    <2>1. opened \in Int /\ Opens(opened) /\ Eval!Ordered
      BY <1>3 DEF EpisodeInv, Banded
    <2>2. level < Limits.recover /\ Limits.recover <= Limits.fire /\ opened >= Limits.fire
      BY <1>1, <1>3, <2>1, LimitsFit DEF Opens
    <2>3. Limits.fire \in Int /\ Limits.recover \in Int
      BY LimitsFit
    <2> QED BY <2>1, <2>2, <2>3
  <1> QED BY <1>2, <1>3

(* And of one of which fewer are worse.                                        *)
LEMMA BelowBand ==
    ASSUME EpisodeInv, kind \in Eval!LowerIsWorse, NEW level \in Int, NEW fails,
           fails /\ ~inEpisode => level > -Limits.fire,
           ~fails /\ inEpisode => level <= -Limits.recover \/ level <= Eval!Best
    PROVE  /\ Measured /\ fails /\ ~inEpisode => level \in Int /\ Opens(level)
           /\ Banded /\ ~fails /\ inEpisode => level < opened
  <1>1. fails /\ ~inEpisode => Opens(level)
    BY DEF Opens
  <1>2. ASSUME Banded, ~fails, inEpisode PROVE level < opened
    <2>1. opened \in Int /\ Opens(opened)
      BY <1>2 DEF EpisodeInv, Banded
    <2> DEFINE f == Limits.fire
               r == Limits.recover
    <2>2. f \in 0..999 /\ r \in Int /\ f <= r
      BY LimitsFit
    <2>3. opened > -f
      BY <2>1 DEF Opens
    <2>4. level <= -r \/ level <= Eval!Best
      BY <1>2
    <2> HIDE DEF f, r
    <2> QED BY <2>1, <2>2, <2>3, <2>4 DEF Eval!Best
  <1> QED BY <1>1, <1>2

(* Kinds that take their definition as it is.                                  *)
LEMMA RawLimits ==
    ASSUME kind \in Eval!Raw
    PROVE  /\ Limits = [fire |-> def.fire, recover |-> def.recover]
           /\ kind \notin {"fill", "log", "cert"}
  <1>1. kind \notin Eval!HigherIsWorse /\ kind \notin {"fill", "log", "cert"}
    BY DEF Eval!Raw, Eval!HigherIsWorse
  <1> QED BY <1>1, Zenon DEF Limits

(* A definition that is switched off.                                         *)
LEMMA SkipKeeps ==
    ASSUME EvalInv, Eval!Skip
    PROVE  EvalInv' /\ Evidence
  <1>1. CASE kind = "docker" /\ Eval!Unanswered("error")
    BY <1>1, UnansweredKeeps
  <1>2. CASE Eval!Report("absent", FALSE, 0, IF kind \in {"docker", "pm2"} THEN Eval!memOf(kind) ELSE mem)
    <2>1. kind' = kind /\ verdict' = "absent"
      BY <1>2 DEF Eval!Report
    <2>2. kind \notin {"docker", "pm2"} => mem' = mem
      BY <1>2 DEF Eval!Report
    <2>3. kind \notin {"fill", "log", "cert"} \/ mem' = mem
      BY <2>2
    <2>4. EpisodeInv' /\ Evidence
      BY <1>2, ReportKeeps, Zenon DEF EvalInv
    <2> QED BY <2>1, <2>3, <2>4, MemoryStays DEF EvalInv
  <1> QED BY <1>1, <1>2 DEF Eval!Skip

(* Disk and inode usage: the band between recover and fire keeps the episode. *)
LEMMA DiskUsageKeeps ==
    ASSUME EvalInv, Eval!Disk
    PROVE  EvalInv' /\ Evidence
  <1>0. kind \in Eval!Raw
    BY DEF Eval!Disk, Eval!Raw
  <1>1. /\ kind \in Eval!Raw /\ kind \notin {"fill", "log", "cert"}
        /\ Limits = [fire |-> def.fire, recover |-> def.recover]
    BY <1>0, RawLimits
  <1>2. CASE Eval!Unanswered(IF named THEN "hold" ELSE "absent")
    BY <1>1, <1>2, UnansweredKeeps
  <1>3. ASSUME NEW v \in Eval!Levels, Eval!Judge(Eval!evalThreshold(v, def.fire, def.recover), v, mem)
        PROVE  EvalInv' /\ Evidence
    <2> DEFINE fails == Eval!evalThreshold(v, def.fire, def.recover)
    <2>1. fails <=> v >= (IF inEpisode THEN Limits.recover ELSE Limits.fire)
      BY <1>1 DEF Eval!evalThreshold
    <2>2. v \in Int
      BY DEF Eval!Levels
    <2> HIDE DEF fails
    <2>3. /\ fails /\ ~inEpisode => v >= Limits.fire
          /\ ~fails /\ inEpisode => v < Limits.recover
      BY <2>1, <2>2, LimitsFit DEF EvalInv
    <2>4. Eval!Judge(fails, v, mem)
      BY <1>3 DEF fails
    <2> QED BY <1>1, <2>2, <2>3, <2>4, AboveBand, JudgeKeeps DEF EvalInv
  <1> QED BY <1>2, <1>3 DEF Eval!Disk

(* Memory or swap, whichever is worse, or an OOM kill, which is worse than    *)
(* any level.                                                                 *)
LEMMA MemoryKeeps ==
    ASSUME EvalInv, Eval!Memory
    PROVE  EvalInv' /\ Evidence
  <1>0. kind \in Eval!Raw
    BY DEF Eval!Memory, Eval!Evaluates, Eval!Raw
  <1>1. /\ kind \in Eval!Raw /\ kind \notin {"fill", "log", "cert"}
        /\ Limits = [fire |-> def.fire, recover |-> def.recover]
    BY <1>0, RawLimits
  <1>2. CASE Eval!Unanswered("hold") \/ Eval!Unanswered("error")
    BY <1>1, <1>2, UnansweredKeeps
  <1>3. ASSUME NEW used \in Eval!Levels, NEW swap \in Eval!Levels, NEW oom \in BOOLEAN,
               LET value == Eval!Max({used, swap})
               IN  Eval!Judge(Eval!evalThreshold(value, def.fire, def.recover) \/ oom,
                              IF oom THEN Eval!Worst ELSE value, mem)
        PROVE  EvalInv' /\ Evidence
    <2> DEFINE value == Eval!Max({used, swap})
               fails == Eval!evalThreshold(value, def.fire, def.recover) \/ oom
               level == IF oom THEN Eval!Worst ELSE value
    <2>1. used \in Int /\ swap \in Int
      BY DEF Eval!Levels
    <2>2. value \in Int
      BY <2>1, MinMax
    <2>3. fails <=> value >= (IF inEpisode THEN Limits.recover ELSE Limits.fire) \/ oom
      BY <1>1 DEF Eval!evalThreshold
    <2>4. Eval!Judge(fails, level, mem)
      BY <1>3
    <2>5. level = (IF oom THEN 1000 ELSE value)
      BY DEF Eval!Worst
    <2> HIDE DEF value, fails, level
    <2>6. level \in Int
      BY <2>2, <2>5
    <2>7. /\ fails /\ ~inEpisode => level >= Limits.fire
          /\ ~fails /\ inEpisode => level < Limits.recover
      BY <2>2, <2>3, <2>5, LimitsFit DEF EvalInv
    <2> QED BY <1>1, <2>4, <2>6, <2>7, AboveBand, JudgeKeeps DEF EvalInv
  <1> QED BY <1>2, <1>3 DEF Eval!Memory

(* CPU pressure, with the defaults of thresholds.                             *)
LEMMA CPUKeeps ==
    ASSUME EvalInv, Eval!CPU
    PROVE  EvalInv' /\ Evidence
  <1>1. /\ kind \in Eval!HigherIsWorse /\ kind \notin {"fill", "log", "cert"}
        /\ Limits = Eval!thresholds(def, 2, 1, TRUE)
    BY DEF Eval!CPU, Eval!Evaluates, Eval!Raw, Eval!HigherIsWorse, Limits
  <1>2. CASE Eval!Unanswered("hold")
    BY <1>1, <1>2, UnansweredKeeps
  <1>3. ASSUME NEW v \in Eval!Levels,
               Eval!Judge(Eval!evalThreshold(v, Limits.fire, Limits.recover), v, mem)
        PROVE  EvalInv' /\ Evidence
    <2> DEFINE fails == Eval!evalThreshold(v, Limits.fire, Limits.recover)
    <2>1. fails <=> v >= (IF inEpisode THEN Limits.recover ELSE Limits.fire)
      BY DEF Eval!evalThreshold
    <2>2. v \in Int
      BY DEF Eval!Levels
    <2> HIDE DEF fails
    <2>3. /\ fails /\ ~inEpisode => v >= Limits.fire
          /\ ~fails /\ inEpisode => v < Limits.recover
      BY <2>1, <2>2, LimitsFit DEF EvalInv
    <2>4. Eval!Judge(fails, v, mem)
      BY <1>3 DEF fails
    <2> QED BY <1>1, <2>2, <2>3, <2>4, AboveBand, JudgeKeeps DEF EvalInv
  <1> QED BY <1>1, <1>2, <1>3 DEF Eval!CPU

(* Load per core: comparing n times the thresholds is comparing the quotient. *)
LEMMA LoadKeeps ==
    ASSUME EvalInv, Eval!Load
    PROVE  EvalInv' /\ Evidence
  <1>1. /\ kind \in Eval!HigherIsWorse /\ kind \notin {"fill", "log", "cert"}
        /\ Limits = Eval!thresholds(def, 2, 1, TRUE)
    BY DEF Eval!Load, Eval!Evaluates, Eval!Raw, Eval!HigherIsWorse, Limits
  <1>2. CASE Eval!Unanswered("hold")
    BY <1>1, <1>2, UnansweredKeeps
  <1>3. ASSUME NEW five \in Eval!Levels, NEW cores \in {0, 1, 2},
               LET n == Eval!Max({cores, 1})
               IN  Eval!Judge(Eval!evalThreshold(five, n * Limits.fire, n * Limits.recover),
                              five \div n, mem)
        PROVE  EvalInv' /\ Evidence
    <2> DEFINE n == Eval!Max({cores, 1})
               fails == Eval!evalThreshold(five, n * Limits.fire, n * Limits.recover)
    <2>1. n \in 1..2
      <3>0. cores \in Int /\ 1 \in Int
        OBVIOUS
      <3>1. n \in {cores, 1} /\ 1 <= n
        BY <3>0, MinMax
      <3> QED BY <3>1
    <2>2. Eval!Judge(fails, five \div n, mem)
      BY <1>3
    <2>3. fails <=> five >= (IF inEpisode THEN n * Limits.recover ELSE n * Limits.fire)
      BY DEF Eval!evalThreshold
    <2>4. five \in Int
      BY DEF Eval!Levels
    <2> HIDE DEF n, fails
    <2>5. \A x \in Int : /\ five \div n \in Int
                         /\ five >= n * x => five \div n >= x
                         /\ five < n * x => five \div n < x
      <3>1. CASE n = 1
        BY <2>4, <3>1
      <3>2. CASE n = 2
        BY <2>4, <3>2
      <3> QED BY <2>1, <3>1, <3>2
    <2>6. Limits.fire \in Int /\ Limits.recover \in Int
      BY LimitsFit, SMTT(30) DEF EvalInv
    <2>7. n * Limits.fire \in Int /\ n * Limits.recover \in Int
      BY <2>1, <2>6
    <2>8. /\ fails /\ ~inEpisode => five \div n >= Limits.fire
          /\ ~fails /\ inEpisode => five \div n < Limits.recover
      BY <2>3, <2>4, <2>5, <2>6, <2>7
    <2>9. five \div n \in Int
      BY <2>5, <2>6
    <2> QED BY <1>1, <2>2, <2>8, <2>9, AboveBand, JudgeKeeps DEF EvalInv
  <1> QED BY <1>1, <1>2, <1>3 DEF Eval!Load

(* What is left of a sequence after its first k elements.                      *)
LEMMA RestType ==
    ASSUME NEW X, NEW s \in Seq(X), NEW k \in Nat
    PROVE  SubSeq(s, 1 + k, Len(s)) \in Seq(X)
  OBVIOUS

(* The window of samples, and the trend in it.                                 *)
LEMMA RecordType ==
    ASSUME EvalInv, kind = "fill", NEW used \in Int
    PROVE  Eval!record(mem, used) \in [samples : Seq(FillSamples), reset : BOOLEAN]
  <1> DEFINE last == mem.samples[Len(mem.samples)]
             drop == mem.samples # <<>> /\ last.used - used > Eval!fillReset
             kept == IF drop THEN <<>> ELSE mem.samples
             added == Append(kept, [at |-> now, used |-> used])
             old == {i \in 1..(Len(added) - 1) : now - added[i].at > Eval!fillWindowMax}
             rest == SubSeq(added, 1 + Eval!Cardinality(old), Len(added))
  <1>1. mem \in [samples : Seq(FillSamples), reset : BOOLEAN] /\ now \in Int
    BY DEF EvalInv, MemoryInv, EpisodeInv
  <1>2. kept \in Seq(FillSamples) /\ [at |-> now, used |-> used] \in FillSamples
    BY <1>1 DEF FillSamples
  <1>3. added \in Seq(FillSamples)
    BY <1>2
  <1>4. Eval!Cardinality(old) \in Nat
    <2>1. Len(added) - 1 \in Int
      BY <1>3
    <2>2. IsFiniteSet(1..(Len(added) - 1))
      BY <2>1, FS_Interval
    <2>3. Cardinality(old) \in Nat
      BY <2>2, FS_Subset, FS_CardinalityType
    <2>4. Eval!Cardinality(old) = Cardinality(old)
      <3> HIDE DEF old
      <3> QED BY DEF Eval!Cardinality, Cardinality
    <2> QED BY <2>3, <2>4
  <1>5. rest \in Seq(FillSamples)
    <2> HIDE DEF added, old
    <2> QED BY <1>3, <1>4, RestType
  <1> DEFINE reset == mem.reset \/ drop
             new == [samples |-> rest, reset |-> reset]
  <1>6. Eval!record(mem, used) = IF mem.samples # <<>> /\ ~drop /\ now - last.at < Eval!fillSampleEvery
                                 THEN mem ELSE new
    BY Zenon DEF Eval!record
  <1>7. reset \in BOOLEAN
    OBVIOUS
  <1> HIDE DEF rest, reset
  <1>8. new \in [samples : Seq(FillSamples), reset : BOOLEAN]
    BY <1>5, <1>7
  <1> HIDE DEF new, last, drop
  <1> QED BY <1>1, <1>6, <1>8

(* The slope of a window is a quotient of integers.                           *)
LEMMA FitType ==
    ASSUME NEW s \in Seq(FillSamples)
    PROVE  Eval!fitSlope(s).num \in Int /\ Eval!fitSlope(s).den \in Int
  <1> DEFINE n   == Len(s)
             x(p) == p.at - s[1].at
             xs == [i \in DOMAIN s |-> x(s[i])]
             xxs == [i \in DOMAIN s |-> x(s[i]) * x(s[i])]
             ys == [i \in DOMAIN s |-> s[i].used]
             xys == [i \in DOMAIN s |-> x(s[i]) * s[i].used]
  <1>0. \A i \in DOMAIN s : s[i] \in FillSamples /\ s[1] \in FillSamples
    OBVIOUS
  <1>1. \A i \in DOMAIN s : x(s[i]) \in Int /\ s[i].used \in Int
    <2>1. \A p \in FillSamples : p.at \in Int /\ p.used \in Int
      BY DEF FillSamples
    <2> QED BY <1>0, <2>1
  <1>2. \A i \in DOMAIN s : x(s[i]) * x(s[i]) \in Int /\ x(s[i]) * s[i].used \in Int
    <2> HIDE DEF x
    <2> QED BY <1>1
  <1>3. xs \in Seq(Int) /\ xxs \in Seq(Int) /\ ys \in Seq(Int) /\ xys \in Seq(Int)
    <2> HIDE DEF x
    <2>1. DOMAIN s = 1..Len(s) /\ Len(s) \in Nat
      OBVIOUS
    <2>2. xs \in [1..Len(s) -> Int] /\ xxs \in [1..Len(s) -> Int]
      BY <1>1, <1>2, <2>1
    <2>3. ys \in [1..Len(s) -> Int] /\ xys \in [1..Len(s) -> Int]
      BY <1>1, <1>2, <2>1
    <2> HIDE DEF xs, xxs, ys, xys
    <2>4. \A f \in [1..Len(s) -> Int] : f \in Seq(Int)
      BY <2>1
    <2> QED BY <2>2, <2>3, <2>4
  <1>4. /\ Eval!fitSlope(s).num = n * Eval!Total(xys) - Eval!Total(xs) * Eval!Total(ys)
        /\ Eval!fitSlope(s).den = n * Eval!Total(xxs) - Eval!Total(xs) * Eval!Total(xs)
    BY DEF Eval!fitSlope, Eval!Sum
  <1> HIDE DEF xs, xxs, ys, xys
  <1>5. /\ Eval!Total(xs) \in Int /\ Eval!Total(xxs) \in Int
        /\ Eval!Total(ys) \in Int /\ Eval!Total(xys) \in Int
    BY <1>3, TotalType
  <1>6. n \in Int
    OBVIOUS
  <1>7. \A a, b, c, d \in Int : a * b - c * d \in Int
    OBVIOUS
  <1> QED BY <1>4, <1>5, <1>6, <1>7

(* The hours until the disk is full, when there is a trend.                    *)
LEMMA HoursType ==
    ASSUME NEW s \in Seq(FillSamples), NEW avail \in Int, Eval!trending(s)
    PROVE  Eval!timeToFull(s, avail) \in Int
  <1> DEFINE f == Eval!fitSlope(s)
  <1>1. f.num > 0
    BY DEF Eval!trending, Eval!Rises
  <1>2. f.num \in Int /\ f.den \in Int
    BY FitType
  <1>3. \A a, b, c \in Int : c > 0 => a * b \in Int /\ (a * b) \div c \in Int
    OBVIOUS
  <1>4. Eval!timeToFull(s, avail) = (avail * f.den) \div f.num
    BY DEF Eval!timeToFull
  <1> QED BY <1>1, <1>2, <1>3, <1>4

(* Disk fill: the hours left, or a window that is too short after a purge.    *)
LEMMA FillKeeps ==
    ASSUME EvalInv, Eval!DiskFill
    PROVE  EvalInv' /\ Evidence
  <1>1. kind = "fill" /\ kind \in Eval!LowerIsWorse /\ Limits = Eval!thresholds(def, 2, 3, FALSE)
    BY DEF Eval!DiskFill, Eval!Evaluates, Eval!LowerIsWorse, Eval!HigherIsWorse, Eval!Raw, Limits
  <1>2. CASE Eval!Unanswered("hold")
    BY <1>1, <1>2, UnansweredKeeps
  <1>3. ASSUME NEW used \in Eval!Levels,
               LET w == Eval!record(mem, used)
                   s == w.samples
                   hours == Eval!timeToFull(s, MaxLevel - used)
               IN  IF s[Len(s)].at - s[1].at < Eval!fillMinWindow
                   THEN /\ Eval!Report(IF w.reset THEN "ok" ELSE "hold", TRUE, Eval!Best, w)
                        /\ UNCHANGED <<host, announced>>
                   ELSE Eval!Judge(Eval!trending(s) /\ Eval!runsOut(hours, Limits),
                                   IF Eval!trending(s) THEN -hours ELSE Eval!Best,
                                   [w EXCEPT !.reset = FALSE])
        PROVE  EvalInv' /\ Evidence
    <2> DEFINE w == Eval!record(mem, used)
               s == w.samples
               hours == Eval!timeToFull(s, MaxLevel - used)
               trend == Eval!trending(s)
               fails == trend /\ Eval!runsOut(hours, Limits)
               level == IF trend THEN -hours ELSE Eval!Best
               v == IF fails THEN "fail" ELSE "ok"
               w2 == [w EXCEPT !.reset = FALSE]
    <2>1. used \in Int /\ MaxLevel - used \in Int
      BY PipelineAssumption DEF Eval!Levels
    <2>2. w \in [samples : Seq(FillSamples), reset : BOOLEAN]
      BY <1>1, <2>1, RecordType
    <2>3. w2 \in [samples : Seq(FillSamples), reset : BOOLEAN]
      <3> HIDE DEF w
      <3> QED BY <2>2
    <2>4. trend => hours \in Int
      BY <2>1, <2>2, HoursType
    <2>5. \/ Eval!Report("ok", TRUE, Eval!Best, w)
          \/ Eval!Report("hold", TRUE, Eval!Best, w)
          \/ Eval!Report(v, TRUE, level, w2)
      BY <1>3 DEF Eval!Judge
    <2>6. fails <=> trend /\ hours < (IF inEpisode THEN Limits.recover ELSE Limits.fire)
      BY DEF Eval!runsOut
    <2>7. level = (IF trend THEN -hours ELSE -1000)
      BY DEF Eval!Best
    <2>8. v = (IF fails THEN "fail" ELSE "ok")
      OBVIOUS
    <2> HIDE DEF w, hours, trend, fails, level, w2, v
    <2>9. level \in Int
      BY <2>4, <2>7
    <2>10. /\ fails /\ ~inEpisode => level > -Limits.fire
           /\ ~fails /\ inEpisode => level <= -Limits.recover \/ level <= Eval!Best
      <3>1. EpisodeInv
        BY DEF EvalInv
      <3>2. Limits.fire \in 0..999 /\ Limits.recover \in Int
        BY <3>1, LimitsFit
      <3>3. Limits.fire \in Int
        BY <3>2
      <3> QED BY <2>4, <2>6, <2>7, <3>2, <3>3 DEF Eval!Best
    <2>11. /\ Measured /\ fails /\ ~inEpisode => level \in Int /\ Opens(level)
           /\ Banded /\ ~fails /\ inEpisode => level < opened
      <3>1. EpisodeInv
        BY DEF EvalInv
      <3> QED BY <1>1, <2>9, <2>10, <3>1, BelowBand, ZenonT(30)
    <2>12. Banded /\ inEpisode => Eval!Best < opened
      <3> SUFFICES ASSUME Banded, inEpisode PROVE Eval!Best < opened
        OBVIOUS
      <3>1. EpisodeInv /\ Eval!Best = -1000
        BY DEF EvalInv, Eval!Best
      <3>2. opened \in Int /\ Opens(opened)
        BY <3>1 DEF EpisodeInv, Banded
      <3>3. Limits.fire \in 0..999
        BY <3>1, LimitsFit
      <3>4. kind \in Eval!LowerIsWorse
        BY <1>1
      <3>5. opened > -Limits.fire
        BY <3>2, <3>4 DEF Opens
      <3> QED BY <3>1, <3>2, <3>3, <3>5
    <2>13. mem' \in [samples : Seq(FillSamples), reset : BOOLEAN] /\ kind' = kind
      BY <2>2, <2>3, <2>5 DEF Eval!Report
    <2>14. MemoryInv' /\ CertInv'
      BY <1>1, <2>13 DEF MemoryInv, CertInv
    <2>15. EpisodeInv' /\ Evidence
      <3>1. CASE Eval!Report("ok", TRUE, Eval!Best, w)
        BY <2>12, <3>1, ReportKeeps DEF EvalInv
      <3>2. CASE Eval!Report("hold", TRUE, Eval!Best, w)
        BY <3>2, ReportKeeps DEF EvalInv
      <3>3. CASE Eval!Report(v, TRUE, level, w2)
        BY <2>8, <2>11, <3>3, ReportKeeps DEF EvalInv
      <3> QED BY <2>5, <3>1, <3>2, <3>3
    <2> QED BY <2>14, <2>15 DEF EvalInv
  <1> QED BY <1>1, <1>2, <1>3 DEF Eval!DiskFill

(* The window of matching lines of a log and their number.                     *)
LEMMA SampleType ==
    ASSUME EvalInv, kind = "log", NEW size \in Int
    PROVE  /\ Eval!logSample(size).events \in Seq(LogEvents)
           /\ Eval!logSample(size).offset \in Int
           /\ Eval!CountIn(Eval!logSample(size).events) \in Int
  <1> DEFINE due == mem.lastRead = -1 \/ now - mem.lastRead >= Eval!logReadEvery
             n == Eval!read(size)
             added == IF due /\ n > 0 THEN Append(mem.events, [at |-> now, n |-> n])
                                      ELSE mem.events
             S == {e \in Eval!ToSet(added) : e.at > now - Eval!logWindow}
             m == Eval!logSample(size)
             counts == [i \in DOMAIN m.events |-> m.events[i].n]
  <1>1. mem.events \in Seq(LogEvents) /\ mem.offset \in Int /\ now \in Int
    BY DEF EvalInv, MemoryInv, EpisodeInv
  <1>2. n \in Int
    <2> DEFINE rest == size - (IF size < mem.offset THEN 0 ELSE mem.offset)
    <2>1. n = Eval!Min({rest, 2}) \/ n = 0
      BY DEF Eval!read, Eval!ReadFrom, Eval!logReadMax
    <2>2. rest \in Int /\ 2 \in Int
      BY <1>1
    <2> HIDE DEF rest, n
    <2>3. Eval!Min({rest, 2}) \in {rest, 2}
      BY <2>2, MinMax
    <2> QED BY <2>1, <2>2, <2>3
  <1>3. added \in Seq(LogEvents)
    <2> HIDE DEF n
    <2>1. [at |-> now, n |-> n] \in LogEvents
      BY <1>1, <1>2 DEF LogEvents
    <2> QED BY <1>1, <2>1
  <1>4. m.events = Eval!Keep(added, S)
    BY DEF Eval!logSample
  <1>5. m.offset = IF due THEN size ELSE mem.offset
    BY DEF Eval!logSample
  <1> HIDE DEF m, added, S, due
  <1>6. Eval!Keep(added, S) \in Seq(LogEvents \cap S)
    BY <1>3, KeepType
  <1>7. m.events \in Seq(LogEvents)
    BY <1>4, <1>6
  <1>8. counts \in Seq(Int)
    <2>1. \A i \in 1..Len(m.events) : m.events[i].n \in Int
      <3>1. \A i \in 1..Len(m.events) : m.events[i] \in LogEvents
        BY <1>7
      <3> QED BY <3>1 DEF LogEvents
    <2>2. DOMAIN m.events = 1..Len(m.events) /\ Len(m.events) \in Nat
      BY <1>7
    <2>3. counts \in [1..Len(m.events) -> Int]
      BY <2>1, <2>2
    <2> HIDE DEF counts
    <2> QED BY <2>2, <2>3
  <1>9. Eval!CountIn(m.events) = Eval!Total(counts)
    BY DEF Eval!CountIn
  <1> HIDE DEF counts
  <1>10. Eval!CountIn(m.events) \in Int
    BY <1>8, <1>9, TotalType
  <1> QED BY <1>1, <1>5, <1>7, <1>10 DEF m

(* Log spikes: the count above the baseline opens, below recover ends.        *)
LEMMA SpikeKeeps ==
    ASSUME EvalInv, Eval!LogSpike
    PROVE  EvalInv' /\ Evidence
  <1>1. kind = "log" /\ kind \in Eval!HigherIsWorse /\ Limits = Eval!thresholds(def, 2, 1, TRUE)
    BY DEF Eval!LogSpike, Eval!Evaluates, Eval!HigherIsWorse, Eval!Raw, Limits
  <1>2. CASE Eval!Unanswered("hold") \/ Eval!Unanswered("error")
    BY <1>1, <1>2, UnansweredKeeps
  <1>3. ASSUME NEW size \in Eval!Levels,
               LET m == Eval!logSample(size)
                   count == Eval!CountIn(m.events)
                   len == Len(mem.history)
                   total == Eval!Total(mem.history)
                   spikes == /\ count > Limits.fire
                             /\ count * len > Eval!param(1) * Eval!Max({total, len})
               IN  IF len < Eval!logBaselineMin
                   THEN /\ Eval!Report("hold", TRUE, count, m)
                        /\ UNCHANGED <<host, announced>>
                   ELSE Eval!Judge(IF inEpisode THEN count >= Limits.recover ELSE spikes, count, m)
        PROVE  EvalInv' /\ Evidence
    <2> DEFINE m == Eval!logSample(size)
               count == Eval!CountIn(m.events)
               len == Len(mem.history)
               total == Eval!Total(mem.history)
               spikes == /\ count > Limits.fire
                         /\ count * len > Eval!param(1) * Eval!Max({total, len})
               fails == IF inEpisode THEN count >= Limits.recover ELSE spikes
               v == IF fails THEN "fail" ELSE "ok"
    <2>1. size \in Int
      BY DEF Eval!Levels
    <2>2. m.events \in Seq(LogEvents) /\ m.offset \in Int /\ count \in Int
      BY <1>1, <2>1, SampleType
    <2>3. \/ Eval!Report("hold", TRUE, count, m)
          \/ Eval!Report(v, TRUE, count, m)
      BY <1>3 DEF Eval!Judge
    <2>4. /\ fails /\ ~inEpisode => count > Limits.fire
          /\ ~fails /\ inEpisode => ~(count >= Limits.recover)
      OBVIOUS
    <2>5. v = (IF fails THEN "fail" ELSE "ok")
      OBVIOUS
    <2> HIDE DEF m, count, len, total, spikes, fails, v
    <2>6. EpisodeInv
      BY DEF EvalInv
    <2>7. /\ fails /\ ~inEpisode => count >= Limits.fire
          /\ ~fails /\ inEpisode => count < Limits.recover
      <3>1. Limits.fire \in Int /\ Limits.recover \in Int
        BY <2>6, LimitsFit, SMTT(30)
      <3> QED BY <2>2, <2>4, <3>1
    <2>8. /\ Measured /\ fails /\ ~inEpisode => count \in Int /\ Opens(count)
          /\ Banded /\ ~fails /\ inEpisode => count < opened
      BY <1>1, <2>2, <2>6, <2>7, AboveBand, ZenonT(30)
    <2>9. EpisodeInv' /\ Evidence
      <3>1. CASE Eval!Report("hold", TRUE, count, m)
        BY <2>6, <3>1, ReportKeeps
      <3>2. CASE Eval!Report(v, TRUE, count, m)
        BY <2>5, <2>6, <2>8, <3>2, ReportKeeps
      <3> QED BY <2>3, <3>1, <3>2
    <2>10. kind' = kind /\ mem' = m
      BY <2>3 DEF Eval!Report
    <2>11. MemoryInv' /\ CertInv'
      BY <1>1, <2>2, <2>10 DEF MemoryInv, CertInv
    <2> QED BY <2>9, <2>11 DEF EvalInv
  <1> QED BY <1>1, <1>2, <1>3 DEF Eval!LogSpike

(* A certificate file: what cannot be read fails as worse than any date.      *)
LEMMA CertFileKeeps ==
    ASSUME EvalInv, Eval!CertFile
    PROVE  EvalInv' /\ Evidence
  <1>1. kind = "certfile" /\ kind \in Eval!LowerIsWorse /\ Limits = Eval!thresholds(def, 1, 2, FALSE)
    BY DEF Eval!CertFile, Eval!Evaluates, Eval!LowerIsWorse, Eval!HigherIsWorse, Eval!Raw, Limits
  <1>2. EpisodeInv
    BY DEF EvalInv
  <1>3. kind \notin {"fill", "log", "cert"} /\ kind \in Eval!LowerIsWorse
    BY <1>1
  <1>4. CASE Eval!Report("fail", FALSE, Eval!Worst, mem)
    <2>1. Eval!Worst \in Int /\ Opens(Eval!Worst)
      <3>1. Limits.fire \in 0..999
        BY <1>2, LimitsFit
      <3>2. \A f \in 0..999 : 1000 > -f
        OBVIOUS
      <3> QED BY <1>3, <3>1, <3>2 DEF Opens, Eval!Worst
    <2> QED BY <1>3, <1>4, <2>1, LookKeeps
  <1>5. ASSUME NEW a \in {Eval!Key, Eval!Garbled} \cup -1..MaxLevel,
               NEW b \in {Eval!Key, Eval!Garbled} \cup -1..MaxLevel,
               LET days == Eval!fileNotAfter(<<a, b>>)
               IN  Eval!Judge(Eval!runsOut(days, Limits), -days, mem)
        PROVE  EvalInv' /\ Evidence
    <2> DEFINE blocks == <<a, b>>
               days == Eval!fileNotAfter(blocks)
               fails == Eval!runsOut(days, Limits)
               level == -days
    <2>1. blocks \in Seq(Int)
      <3>1. a \in Int /\ b \in Int
        BY PipelineAssumption DEF Eval!Key, Eval!Garbled, Eval!Worst, Eval!Best
      <3> QED BY <3>1
    <2>2. days \in Int
      <3> DEFINE S == Eval!ToSet(blocks) \ {Eval!Key}
                 certs == Eval!Keep(blocks, S)
      <3>1. certs \in Seq(Int \cap S)
        <4> HIDE DEF blocks, S
        <4> QED BY <2>1, KeepType
      <3>2. days = IF certs = <<>> THEN Eval!Garbled ELSE Head(certs)
        BY DEF Eval!fileNotAfter
      <3> HIDE DEF certs, S, days
      <3>3. certs # <<>> => Head(certs) \in Int
        BY <3>1
      <3> QED BY <3>2, <3>3 DEF Eval!Garbled, Eval!Worst
    <2>3. fails <=> days < (IF inEpisode THEN Limits.recover ELSE Limits.fire)
      BY DEF Eval!runsOut
    <2>4. Eval!Judge(fails, level, mem)
      BY <1>5
    <2>5. level = -days
      OBVIOUS
    <2> HIDE DEF blocks, days, fails, level
    <2>6. level \in Int
      BY <2>2, <2>5
    <2>7. /\ fails /\ ~inEpisode => level > -Limits.fire
          /\ ~fails /\ inEpisode => level <= -Limits.recover \/ level <= Eval!Best
      <3>1. Limits.fire \in Int /\ Limits.recover \in Int
        BY <1>2, LimitsFit, SMTT(30)
      <3> QED BY <2>2, <2>3, <2>5, <3>1
    <2>8. /\ Measured /\ fails /\ ~inEpisode => level \in Int /\ Opens(level)
          /\ Banded /\ ~fails /\ inEpisode => level < opened
      BY <1>2, <1>3, <2>6, <2>7, BelowBand, ZenonT(30)
    <2> QED BY <1>3, <2>4, <2>8, JudgeKeeps
  <1> QED BY <1>1, <1>4, <1>5 DEF Eval!CertFile

(* A certificate of an endpoint: while the dial fails, the date that is known *)
(* decides, and in an episode that is one that runs out.                      *)
LEMMA CertKeeps ==
    ASSUME EvalInv, Eval!Cert
    PROVE  EvalInv' /\ Evidence
  <1>1. kind = "cert" /\ kind \in Eval!LowerIsWorse /\ Limits = Eval!thresholds(def, 1, 2, FALSE)
    BY DEF Eval!Cert, Eval!Evaluates, Eval!LowerIsWorse, Eval!HigherIsWorse, Eval!Raw, Limits
  <1>2. EpisodeInv /\ now \in Int /\ mem.have \in BOOLEAN /\ mem.notAfter \in Int
    BY <1>1 DEF EvalInv, EpisodeInv, MemoryInv
  <1>3. ASSUME NEW dial \in BOOLEAN, NEW date \in Eval!CertNotAfter,
               LET every == IF mem.err THEN Eval!certRetryEvery ELSE Eval!certCheckEvery
                   due == mem.checkedAt = -1 \/ now - mem.checkedAt >= every
                   m == IF ~due THEN mem
                        ELSE [checkedAt |-> now, err |-> ~dial,
                              have      |-> mem.have \/ dial,
                              notAfter  |-> IF dial THEN date ELSE mem.notAfter]
                   days == m.notAfter - now
                   fails == Eval!runsOut(days, Limits)
                   verdictOf == IF ~m.have THEN "hold" ELSE IF fails THEN "fail" ELSE "ok"
               IN /\ Eval!Report(verdictOf, due /\ dial, -days, m)
                  /\ UNCHANGED <<host, announced>>
        PROVE  EvalInv' /\ Evidence
    <2> DEFINE every == IF mem.err THEN Eval!certRetryEvery ELSE Eval!certCheckEvery
               due == mem.checkedAt = -1 \/ now - mem.checkedAt >= every
               m == IF ~due THEN mem
                    ELSE [checkedAt |-> now, err |-> ~dial,
                          have      |-> mem.have \/ dial,
                          notAfter  |-> IF dial THEN date ELSE mem.notAfter]
               days == m.notAfter - now
               fails == Eval!runsOut(days, Limits)
               v == IF ~m.have THEN "hold" ELSE IF fails THEN "fail" ELSE "ok"
               met == due /\ dial
               level == -days
    <2>1. date \in Int
      BY <1>2, PipelineAssumption DEF Eval!CertNotAfter
    <2>2. m.have \in BOOLEAN /\ m.notAfter \in Int /\ days \in Int
      <3> HIDE DEF due
      <3> QED BY <1>2, <2>1
    <2>3. met \/ (m.have = mem.have /\ m.notAfter = mem.notAfter)
      <3> HIDE DEF due
      <3>1. CASE ~due
        BY <3>1
      <3>2. CASE due /\ ~dial
        BY <1>2, <3>2
      <3> QED BY <3>1, <3>2
    <2>4. Eval!Report(v, met, level, m)
      BY <1>3
    <2>5. fails <=> days < (IF inEpisode THEN Limits.recover ELSE Limits.fire)
      BY DEF Eval!runsOut
    <2>6. v = (IF ~m.have THEN "hold" ELSE IF fails THEN "fail" ELSE "ok")
      OBVIOUS
    <2>7. level = -days /\ days = m.notAfter - now
      OBVIOUS
    <2> HIDE DEF every, due, m, days, fails, v, met, level
    <2>8. level \in Int
      BY <2>2, <2>7
    <2>9. Limits.fire \in Int /\ Limits.recover \in Int /\ Limits.fire <= Limits.recover
      <3>1. kind \in Eval!LowerIsWorse
        BY <1>1
      <3>2. Limits.fire \in 0..999
        BY <1>2, LimitsFit
      <3> QED BY <1>2, <3>1, <3>2, LimitsFit
    <2>10. /\ fails /\ ~inEpisode => level > -Limits.fire
           /\ ~fails /\ inEpisode => level <= -Limits.recover \/ level <= Eval!Best
      BY <2>2, <2>5, <2>7, <2>9
    <2>11. /\ Measured /\ fails /\ ~inEpisode => level \in Int /\ Opens(level)
           /\ Banded /\ ~fails /\ inEpisode => level < opened
      <3>1. kind \in Eval!LowerIsWorse
        BY <1>1
      <3> QED BY <1>2, <2>8, <2>10, <3>1, BelowBand, ZenonT(30)
    <2>12. v = "ok" /\ inEpisode => met \/ verdict \in {"ok", "absent"}
      <3> SUFFICES ASSUME v = "ok", inEpisode, ~met, verdict \notin {"ok", "absent"}
                   PROVE  FALSE
        OBVIOUS
      <3>1. m.have /\ ~fails
        BY <2>6
      <3>2. mem.have /\ days = mem.notAfter - now
        BY <2>3, <2>7, <3>1
      <3>3. mem.notAfter - now < Limits.recover
        BY <1>1, <3>2 DEF EvalInv, CertInv
      <3> QED BY <2>5, <3>1, <3>2, <3>3
    <2>13. EpisodeInv' /\ Evidence
      <3>1. v = "fail" => fails
        BY <2>6
      <3>2. v = "ok" => ~fails
        BY <2>6
      <3>3. /\ Measured /\ v = "fail" /\ ~inEpisode => level \in Int /\ Opens(level)
            /\ Banded /\ v = "ok" /\ inEpisode => level < opened
        BY <2>11, <3>1, <3>2
      <3> QED BY <1>2, <2>4, <2>12, <3>3, ReportKeeps
    <2>14. kind' = kind /\ mem' = m /\ now' = now /\ verdict' = v
      BY <2>4 DEF Eval!Report
    <2>15. MemoryInv'
      BY <1>1, <2>2, <2>14 DEF MemoryInv
    <2>16. CertInv'
      <3>1. Limits' = Limits
        BY <1>2, <2>4, LimitsStay DEF Eval!Report
      <3>2. v = "fail" => m.notAfter - now < Limits.recover
        <4>1. v = "fail" => days < (IF inEpisode THEN Limits.recover ELSE Limits.fire)
          BY <2>5, <2>6
        <4> QED BY <2>2, <2>7, <2>9, <4>1
      <3>3. v \in {"hold", "fail", "ok"} /\ (v = "hold" => ~m.have)
        BY <2>6
      <3> QED BY <2>14, <3>1, <3>2, <3>3 DEF CertInv
    <2> QED BY <2>13, <2>15, <2>16 DEF EvalInv
  <1> QED BY <1>1, <1>3, ZenonT(30) DEF Eval!Cert

(* Where nothing is measured, all that counts is that a healthy verdict comes  *)
(* from a source that answered.                                                *)
Answered ==
    \E v, met, level, m : Eval!Report(v, met, level, m) /\ (v = "ok" => met)

(* A judgement comes from a source that answered.                             *)
LEMMA JudgeAnswers ==
    ASSUME NEW fails, NEW level, NEW m, Eval!Judge(fails, level, m) PROVE Answered
  <1> DEFINE v == IF fails THEN "fail" ELSE "ok"
  <1>1. Eval!Report(v, TRUE, level, m)
    BY DEF Eval!Judge
  <1> HIDE DEF v
  <1> QED BY <1>1 DEF Answered

(* No answer is no healthy verdict.                                           *)
LEMMA UnansweredAnswers ==
    ASSUME NEW v, v \in {"hold", "error", "absent"}, Eval!Unanswered(v) PROVE Answered
  <1>1. Eval!Report(v, FALSE, 0, mem) /\ v # "ok"
    BY DEF Eval!Unanswered
  <1> QED BY <1>1 DEF Answered

(* Which is all that counts of a kind without a level.                        *)
LEMMA PlainKeeps ==
    ASSUME EvalInv, kind \in Eval!Plain, Answered PROVE EvalInv' /\ Evidence
  <1>1. PICK v, met, level, m : Eval!Report(v, met, level, m) /\ (v = "ok" => met)
    BY DEF Answered
  <1>2. ~Measured /\ ~Banded /\ kind \notin {"fill", "log", "cert"}
    BY DEF Banded, Measured, Eval!Plain
  <1> QED BY <1>1, <1>2, LookKeeps

(* The kinds without a level, one by one: docker_container.                   *)
LEMMA DockerAnswers ==
    ASSUME Eval!Docker
    PROVE  Answered
  <1>1. CASE Eval!Unanswered("error")
    BY <1>1, UnansweredAnswers
  <1>2. CASE Eval!Report("absent", TRUE, Eval!Best, Eval!NoContainer)
    BY <1>2, Zenon DEF Answered
  <1>3. ASSUME NEW state, NEW unhealthy, NEW inspected, NEW d,
               LET detail == IF inspected THEN d ELSE Eval!NoDetail
                   m == [mem EXCEPT !.ran = @ \/ state = "running"]
                   tracked == Eval!trackCrashLoop(m, detail.count)
                   loop == Len(tracked.increases) >= Eval!crashLoopRestarts
                   down == Eval!containerDown(state, detail, m.ran)
               IN IF ~inspected /\ state \notin {"running", "restarting"}
                  THEN Eval!Report("hold", FALSE, 0, m) /\ UNCHANGED <<host, announced>>
                  ELSE Eval!Judge(down \/ unhealthy \/ loop, 0, tracked)
        PROVE  Answered
    <2> DEFINE detail == IF inspected THEN d ELSE Eval!NoDetail
               m == [mem EXCEPT !.ran = @ \/ state = "running"]
               tracked == Eval!trackCrashLoop(m, detail.count)
               loop == Len(tracked.increases) >= Eval!crashLoopRestarts
               down == Eval!containerDown(state, detail, m.ran)
               fails == down \/ unhealthy \/ loop
    <2>1. Eval!Report("hold", FALSE, 0, m) \/ Eval!Judge(fails, 0, tracked)
      BY <1>3, Zenon
    <2> HIDE DEF detail, m, tracked, fails
    <2>2. CASE Eval!Report("hold", FALSE, 0, m)
      <3>1. "hold" # "ok"
        OBVIOUS
      <3> QED BY <2>2, <3>1, Zenon DEF Answered
    <2> QED BY <2>1, <2>2, JudgeAnswers, Zenon
  <1> QED BY <1>1, <1>2, <1>3, ZenonT(30) DEF Eval!Docker

(* pm2_app.                                                                   *)
LEMMA PM2Answers ==
    ASSUME Eval!PM2
    PROVE  Answered
  <1>1. ASSUME NEW one, LET m == Eval!observe(mem, one.restarts)
                        IN  Eval!Judge(one.status # "online" \/ m.looping, 0, m)
        PROVE  Answered
    BY <1>1, JudgeAnswers, Zenon
  <1>2. CASE Eval!Unanswered("hold")
    BY <1>2, UnansweredAnswers
  <1>3. CASE Eval!Judge(TRUE, 0, Eval!NoApp)
    BY <1>3, JudgeAnswers, Zenon
  <1> QED BY <1>1, <1>2, <1>3, Zenon DEF Eval!PM2

(* systemd_unit.                                                              *)
LEMMA SystemdAnswers ==
    ASSUME Eval!Systemd
    PROVE  Answered
  <1>1. CASE Eval!Unanswered("error")
    BY <1>1, UnansweredAnswers
  <1>2. CASE Eval!Report("absent", TRUE, Eval!Best, mem)
    BY <1>2, Zenon DEF Answered
  <1>3. ASSUME NEW active, NEW sub,
               Eval!Judge("failed" \in {active, sub} \/ (named /\ active = "inactive"), 0, mem)
        PROVE  Answered
    BY <1>3, JudgeAnswers, Zenon
  <1> QED BY <1>1, <1>2, <1>3, Zenon DEF Eval!Systemd

(* systemd_timer_failed.                                                      *)
LEMMA TimerAnswers ==
    ASSUME Eval!Timer
    PROVE  Answered
  <1>1. CASE Eval!Unanswered("error") \/ Eval!Unanswered("hold")
    BY <1>1, UnansweredAnswers
  <1>2. ASSUME NEW p,
               Eval!Judge(\/ p.state = "failed"
                          \/ p.state = "inactive" /\ p.result \notin {"", "success"}, 0, mem)
        PROVE  Answered
    BY <1>2, JudgeAnswers, Zenon
  <1>3. CASE Eval!Report("absent", TRUE, Eval!Best, mem)
    BY <1>3, Zenon DEF Answered
  <1> QED BY <1>1, <1>2, <1>3, Zenon DEF Eval!Timer

(* job_freshness.                                                             *)
LEMMA JobAnswers ==
    ASSUME Eval!JobFreshness
    PROVE  Answered
  <1>1. CASE Eval!Unanswered("error")
    BY <1>1, UnansweredAnswers
  <1>2. CASE Eval!Report("fail", FALSE, 0, mem)
    <2>1. "fail" # "ok"
      OBVIOUS
    <2> QED BY <1>2, <2>1, Zenon DEF Answered
  <1>3. ASSUME NEW f, Eval!Judge(f.age > Eval!param(2) \/ f.size < def.param, 0, mem)
        PROVE  Answered
    BY <1>3, JudgeAnswers, Zenon
  <1> QED BY <1>1, <1>2, <1>3, Zenon DEF Eval!JobFreshness

(* port_listening.                                                            *)
LEMMA PortAnswers ==
    ASSUME Eval!Port
    PROVE  Answered
  <1>1. CASE Eval!Unanswered("error") \/ Eval!Unanswered("hold")
    BY <1>1, UnansweredAnswers
  <1>2. ASSUME NEW h, NEW proto, NEW socks, NEW port,
               Eval!Judge(~Eval!listening(socks, h, port, proto), 0, mem)
        PROVE  Answered
    BY <1>2, JudgeAnswers, Zenon
  <1> QED BY <1>1, <1>2, Zenon DEF Eval!Port

(* process_running.                                                           *)
LEMMA ProcessAnswers ==
    ASSUME Eval!Process
    PROVE  Answered
  <1>1. CASE Eval!Unanswered("error")
    BY <1>1, UnansweredAnswers
  <1>2. ASSUME NEW contains, NEW procs,
               Eval!Judge({p \in procs : Eval!processMatches(p, contains)} = {}, 0, mem)
        PROVE  Answered
    BY <1>2, JudgeAnswers, Zenon
  <1> QED BY <1>1, <1>2, Zenon DEF Eval!Process

(* reboot_detected.                                                           *)
LEMMA RebootAnswers ==
    ASSUME Eval!Reboot
    PROVE  Answered
  <1>1. \/ Eval!Report("error", FALSE, 0, mem) \/ Eval!Report("ok", TRUE, 0, mem)
        \/ Eval!Report("fail", TRUE, 0, mem)
    BY Zenon DEF Eval!Reboot, Eval!BootReport
  <1>2. ASSUME NEW v \in {"error", "fail"}, NEW met, Eval!Report(v, met, 0, mem) PROVE Answered
    <2>1. v # "ok"
      OBVIOUS
    <2> QED BY <1>2, <2>1 DEF Answered
  <1>3. CASE Eval!Report("ok", TRUE, 0, mem)
    BY <1>3, Zenon DEF Answered
  <1> QED BY <1>1, <1>2, <1>3

(* Any evaluation.                                                            *)
LEMMA EvaluateKeeps ==
    ASSUME EvalInv, Eval!Evaluate
    PROVE  EvalInv' /\ Evidence
  <1>1. CASE Eval!Skip \/ Eval!Disk \/ Eval!Memory \/ Eval!CPU \/ Eval!Load
    BY <1>1, SkipKeeps, DiskUsageKeeps, MemoryKeeps, CPUKeeps, LoadKeeps
  <1>2. CASE Eval!DiskFill \/ Eval!LogSpike \/ Eval!CertFile \/ Eval!Cert
    BY <1>2, FillKeeps, SpikeKeeps, CertFileKeeps, CertKeeps
  <1>3. CASE \/ Eval!Docker \/ Eval!PM2 \/ Eval!Systemd \/ Eval!Timer \/ Eval!JobFreshness
             \/ Eval!Port \/ Eval!Process \/ Eval!Reboot
    <2>1. kind \in Eval!Plain
      BY <1>3 DEF Eval!Docker, Eval!PM2, Eval!Systemd, Eval!Timer, Eval!JobFreshness, Eval!Port,
                  Eval!Process, Eval!Reboot, Eval!Evaluates, Eval!Plain
    <2>2. Answered
      BY <1>3, DockerAnswers, PM2Answers, SystemdAnswers, TimerAnswers, JobAnswers, PortAnswers,
         ProcessAnswers, RebootAnswers
    <2> QED BY <2>1, <2>2, PlainKeeps
  <1> QED BY <1>1, <1>2, <1>3 DEF Eval!Evaluate

(* A fresh memory.                                                             *)
LEMMA FreshMemory ==
    /\ kind = "fill" => Eval!memOf(kind) \in [samples : Seq(FillSamples), reset : BOOLEAN]
    /\ kind = "log" => Eval!memOf(kind).events \in Seq(LogEvents) /\ Eval!memOf(kind).offset \in Int
    /\ kind = "cert" => Eval!memOf(kind).have = FALSE /\ Eval!memOf(kind).notAfter \in Int
  <1>1. ASSUME kind = "fill" PROVE Eval!memOf(kind) \in [samples : Seq(FillSamples), reset : BOOLEAN]
    <2>1. Eval!memOf(kind) = [samples |-> <<>>, reset |-> FALSE]
      BY <1>1 DEF Eval!memOf
    <2> QED BY <2>1
  <1>2. ASSUME kind = "log"
        PROVE  Eval!memOf(kind).events \in Seq(LogEvents) /\ Eval!memOf(kind).offset \in Int
    <2>1. Eval!memOf(kind) = [started |-> FALSE, lastRead |-> -1, offset |-> 0,
                              events |-> <<>>, history |-> <<>>, lastHistory |-> -1]
      BY <1>2 DEF Eval!memOf
    <2> QED BY <2>1
  <1>3. ASSUME kind = "cert"
        PROVE  Eval!memOf(kind).have = FALSE /\ Eval!memOf(kind).notAfter \in Int
    <2>1. Eval!memOf(kind) = [checkedAt |-> -1, err |-> FALSE, have |-> FALSE, notAfter |-> 0]
      BY <1>3 DEF Eval!memOf
    <2> QED BY <2>1
  <1> QED BY <1>1, <1>2, <1>3

(* The clock, a definition switched on or off, a restart of the agent.        *)
LEMMA WorldKeeps ==
    ASSUME EvalInv, Eval!Minute \/ Eval!Toggle \/ Eval!Restart \/ UNCHANGED Eval!vars
    PROVE  EvalInv' /\ Evidence
  <1>1. /\ UNCHANGED <<kind, inEpisode, verdict, reading, opened>>
        /\ now' \in {now, now + 1} /\ now \in Nat
        /\ def' \in {def, [def EXCEPT !.enabled = ~@]}
    BY DEF Eval!Minute, Eval!Toggle, Eval!Restart, Eval!vars, EvalInv, EpisodeInv
  <1>2. EpisodeInv
    BY DEF EvalInv
  <1>3. /\ def'.fire = def.fire /\ def'.recover = def.recover
        /\ def' \in [fire : 0..MaxLevel, recover : Nat, param : Nat, enabled : BOOLEAN]
    BY <1>1, <1>2 DEF EpisodeInv
  <1>4. Limits' = Limits /\ (Measured <=> Measured') /\ (Banded <=> Banded')
    BY <1>1, <1>2, <1>3, LimitsStay
  <1>5. EpisodeInv'
    <2>1. inEpisode' /\ Measured' => opened' \in Int /\ Opens(opened)'
      BY <1>1, <1>2, <1>4 DEF EpisodeInv, Opens
    <2> QED BY <1>1, <1>2, <1>3, <1>4, <2>1 DEF EpisodeInv
  <1>6. Evidence
    BY <1>1, <1>2 DEF Evidence, EpisodeInv
  <1>7. MemoryInv'
    <2>1. CASE mem' = mem
      BY <1>1, <2>1 DEF EvalInv, MemoryInv
    <2>2. CASE mem' = Eval!memOf(kind)
      BY <1>1, <2>2, FreshMemory DEF MemoryInv
    <2> QED BY <2>1, <2>2 DEF Eval!Minute, Eval!Toggle, Eval!Restart, Eval!vars
  <1>8. CertInv'
    <2>1. CASE mem' = mem
      <3>1. kind = "cert" => mem.notAfter \in Int
        BY DEF EvalInv, MemoryInv
      <3>2. kind \in Eval!Kinds /\ Limits.recover \in Int
        BY <1>2, LimitsFit DEF EpisodeInv
      <3> QED BY <1>1, <1>4, <2>1, <3>1, <3>2 DEF EvalInv, CertInv
    <2>2. CASE mem' = Eval!memOf(kind)
      BY <1>1, <2>2, FreshMemory DEF CertInv
    <2> QED BY <2>1, <2>2 DEF Eval!Minute, Eval!Toggle, Eval!Restart, Eval!vars
  <1> QED BY <1>5, <1>6, <1>7, <1>8 DEF EvalInv

(* At first there is no episode.                                              *)
LEMMA InitEval ==
    ASSUME Eval!Init
    PROVE  EvalInv
  <1>1. inEpisode = FALSE /\ mem = Eval!memOf(kind) /\ now = 0 /\ kind \in Eval!Kinds
    BY DEF Eval!Init
  <1>2. def \in Eval!Definitions(kind)
    BY DEF Eval!Init
  <1>3. /\ def \in [fire : 0..MaxLevel, recover : Nat, param : Nat, enabled : BOOLEAN]
    <2>1. def \in [fire : Eval!Levels, recover : Eval!Levels, param : 0..1, enabled : {TRUE}]
      BY <1>2, Zenon DEF Eval!Definitions
    <2>3. Eval!Levels = 0..MaxLevel /\ Eval!Levels \subseteq Nat
      BY DEF Eval!Levels
    <2>4. \A p \in {TRUE} : p \in BOOLEAN
      OBVIOUS
    <2>6. \A n \in 0..1 : n \in Nat
      OBVIOUS
    <2>7. \A F, R, P, E, F2, R2, P2, E2 : F \subseteq F2 /\ R \subseteq R2 /\ P \subseteq P2 /\ E \subseteq E2 =>
             [fire : F, recover : R, param : P, enabled : E] \subseteq [fire : F2, recover : R2, param : P2, enabled : E2]
      OBVIOUS
    <2>8. /\ Eval!Levels \subseteq 0..MaxLevel /\ Eval!Levels \subseteq Nat
          /\ 0..1 \subseteq Nat /\ {TRUE} \subseteq BOOLEAN
      BY <2>3, <2>4, <2>6
    <2>9. [fire : Eval!Levels, recover : Eval!Levels, param : 0..1, enabled : {TRUE}] \subseteq
          [fire : 0..MaxLevel, recover : Nat, param : Nat, enabled : BOOLEAN]
      BY <2>7, <2>8, Zenon
    <2> QED BY <2>1, <2>9
  <1>4. EpisodeInv
    BY <1>1, <1>3 DEF EpisodeInv
  <1>5. MemoryInv
    BY <1>1, FreshMemory DEF MemoryInv
  <1>6. CertInv
    BY <1>1 DEF CertInv
  <1> QED BY <1>4, <1>5, <1>6 DEF EvalInv

(* What an evaluator knows of an episode at every moment: the level that opened *)
(* it was beyond the firing value, whatever the definition.                     *)
THEOREM EvalInductive == Eval!Spec => []EvalInv
  <1>1. EvalInv /\ [Eval!Next]_(Eval!vars) => EvalInv'
    BY EvaluateKeeps, WorldKeeps DEF Eval!Next
  <1> QED BY <1>1, InitEval, PTL DEF Eval!Spec

(* EpisodeEndsOnEvidence: an episode of a measured kind ends on a reading       *)
(* better than the one that opened it (evalThreshold) when the thresholds are  *)
(* clamped (thresholds), or taken raw and in the right order; and no silent    *)
(* source makes a target healthy, whatever the definition.                     *)
THEOREM EvidenceEndsEpisodes == Eval!Spec => EpisodeEndsOnEvidence
  <1>1. ASSUME EvalInv, [Eval!Next]_(Eval!vars), inEpisode, verdict' = "ok"
        PROVE  /\ kind \notin Eval!Plain /\ Eval!Ordered => reading'.level < opened
               /\ reading'.seen \/ verdict \in {"ok", "absent"}
    <2>1. Evidence
      BY <1>1, EvaluateKeeps, WorldKeeps DEF Eval!Next
    <2>2. kind \notin Eval!Plain /\ Eval!Ordered => Banded
      BY <1>1 DEF EvalInv, EpisodeInv, Measured, Banded
    <2> QED BY <1>1, <2>1, <2>2 DEF Evidence
  <1> QED BY <1>1, EvalInductive, PTL DEF EpisodeEndsOnEvidence, Eval!EpisodeEndsOnEvidence, Eval!Spec

--------------------------------------------------------------------------------
(* The composition the run checks.                                             *)

(* A step of one part is a stutter of every other, which share no variable.    *)
LEMMA EveryStepIsAParts ==
    ASSUME [PipelineNext]_<<part, vars, loopVars, incident, evalVars, diagVars>>
    PROVE  /\ [Next]_vars
           /\ [Loop!Iterate]_(Loop!vars)
           /\ [Rules!Next]_incident
           /\ [Eval!Next]_(Eval!vars)
           /\ [Diag!Next]_(Diag!vars)
  <1>1. UNCHANGED loopVars => UNCHANGED Loop!vars
    BY DEF loopVars, Loop!vars
  <1>2. UNCHANGED evalVars => UNCHANGED Eval!vars
    BY DEF evalVars, Eval!vars
  <1>3. UNCHANGED diagVars => UNCHANGED Diag!vars
    BY DEF diagVars, Diag!vars
  <1>4. CASE UNCHANGED <<part, vars, loopVars, incident, evalVars, diagVars>>
    BY <1>4, <1>1, <1>2, <1>3
  <1>5. CASE PipelineNext
    BY <1>5, <1>1, <1>2, <1>3 DEF PipelineNext, Stream, Condense, Propose, Judge, Diagnose
  <1> QED BY <1>4, <1>5

(* Every behaviour of PipelineSpec, which the run checks, is one of each part  *)
(* on its own, so that what is proved of a part holds in it: the event stream, *)
(* condensing, the rules, the evaluators and the diagnosis.                    *)
THEOREM EveryRunIsItsParts ==
    PipelineSpec => Spec /\ Loop!Spec /\ Rules!Spec /\ Eval!Spec /\ Diag!Spec
  <1>1. PipelineInit => Init /\ Loop!Init /\ Rules!Init /\ Eval!Init /\ Diag!Init
    BY DEF PipelineInit
  <1> QED BY <1>1, EveryStepIsAParts, PTL
          DEF PipelineSpec, Spec, Loop!Spec, Rules!Spec, Eval!Spec, Diag!Spec

(* All the safety on the way from a reading to the phone at once, of the       *)
(* behaviours the run checks: episodes end on evidence and reboots are told    *)
(* once, condensing keeps each monitor's last pair, the diagnosis names what   *)
(* is down, proposals touch nothing protected and clean up only what helps,    *)
(* and the phone sees every event once, with nobody waiting for good.          *)
THEOREM PipelineIsSafe ==
    PipelineSpec =>
        /\ EpisodeEndsOnEvidence /\ []RebootAnnouncedOnce
        /\ []CondensesToLastPair
        /\ []CulpritIsNamed
        /\ [](ProtectedIsNeverTouched /\ CleanUpsHelp)
        /\ [](NoDuplicates /\ NothingMissed /\ NobodyWaits)
  BY EveryRunIsItsParts, EvidenceEndsEpisodes, AnnouncedOnce, SelectsLastPair, NamesTheCulprit,
     NoProtectedName, OnlyHelpfulCleanUps, SendsOnce, MissesNothing, NobodyWaitsForGood, PTL
================================================================================
