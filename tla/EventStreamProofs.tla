--------------------------- MODULE EventStreamProofs ---------------------------
(* The live event stream, for any number of appending goroutines, connections  *)
(* and events and any capacity of the channels and the writer's queue: no      *)
(* subscription sends an event twice, and one that follows an execution to     *)
(* which one goroutine at a time appends misses none, and nobody waits for     *)
(* anybody else for good.                                                      *)
EXTENDS EventStream, FiniteSetTheorems, WellFoundedInduction, TLAPS

--------------------------------------------------------------------------------
(* The inductive invariant.                                                    *)

In(n, q) == \E i \in 1..Len(q) : q[i] = n
Single(q) == \A i, j \in 1..Len(q) : q[i] = q[j] => i = j

(* The connection is up and its subscription served.                           *)
Live(s) == srv[s] = "run" /\ s \notin cancelled

(* The phone has one connection at a time; what a connection that is down      *)
(* leaves in its channels reaches nobody, and only a connection that is down   *)
(* is deregistered.                                                            *)
OneConnection ==
    /\ \A s \in Subs : srv[s] = "none" =>
          /\ s \notin subs \cup done \cup cancelled
          /\ fwd[s] = "none" /\ held[s] = 0
          /\ ch[s] = <<>> /\ out[s] = <<>> /\ send[s] = <<>> /\ wire[s] = <<>>
          /\ \A n \in Seqs : s \notin targets[n]
    /\ \A s \in Subs : srv[s] # "none" /\ s \notin cancelled =>
          srv[s] = "run" /\ s \in subs /\ s \notin done /\ fwd[s] \in {"replay", "live", "send"}
    /\ \A s \in cancelled : send[s] = <<>> /\ wire[s] = <<>>
    /\ \A r, s \in Subs : r < s /\ srv[s] # "none" => r \in cancelled

(* Events are appended in order, and fanned out once they are persisted.       *)
AppendOrder ==
    /\ \E m \in 0..MaxEvents : Events = 1..m
    /\ \A n \in Seqs : targets[n] # {} => app[n] = "sending"
    /\ ~overlap => \A n \in Appending : n = log

(* Whatever is on its way, or has arrived, was appended.                       *)
Appended ==
    /\ seen \subseteq Events
    /\ \A s \in Subs :
          /\ \A i \in 1..Len(ch[s]) : ch[s][i] \in Events
          /\ \A i \in 1..Len(out[s]) : out[s][i] \in Events
          /\ \A i \in 1..Len(send[s]) : send[s][i] \in Events
          /\ \A i \in 1..Len(replay[s]) : replay[s][i] \in Events
          /\ fwd[s] = "send" => held[s] \in Events

(* What has left the snapshot or the channel on its way to the phone.          *)
Passed(s) == {n \in Seqs : In(n, wire[s]) \/ In(n, out[s]) \/ held[s] = n}

(* Handed n to the subscription, and not to hand it again.                     *)
Handed(n, s) == s \notin targets[n] /\ app[n] \in {"sending", "done"}

(* An event is at one place of a subscription only: in what was sent, in the   *)
(* snapshot, in the channel, or still to be fanned out. Events up to the high- *)
(* water mark come from the snapshot, those above it from the channel.         *)
OnePlace(s) ==
    /\ Single(wire[s]) /\ Single(out[s]) /\ Single(ch[s])
    /\ \A n \in Seqs : /\ In(n, wire[s]) => ~In(n, out[s]) /\ held[s] # n
                       /\ In(n, out[s]) => held[s] # n
                       /\ In(n, ch[s]) => Handed(n, s)
    /\ \A n \in Passed(s) : /\ n > after[s]
                            /\ n > high[s] => Handed(n, s) /\ ~In(n, ch[s])
    /\ after[s] <= high[s] /\ high[s] <= log
    /\ held[s] # 0 <=> fwd[s] = "send"
    /\ held[s] # 0 => held[s] > high[s]
    /\ fwd[s] = "replay" =>
          /\ \A i \in 1..Len(replay[s]) : replay[s][i] = high[s] - Len(replay[s]) + i
          /\ after[s] <= high[s] - Len(replay[s])
          /\ \A n \in Passed(s) : n <= high[s] - Len(replay[s])

(* An event is still to be handed to the subscription; the last one that was,  *)
(* appends not overlapping.                                                    *)
Owed(s) == \E n \in Appending : app[n] = "persisted" \/ s \in targets[n]
LastHanded(s) == IF Owed(s) THEN log - 1 ELSE log

Sent(s) == after[s] + Len(wire[s]) + Len(out[s])

(* The last event that has passed the forwarding goroutine, or will without    *)
(* its reading the channel.                                                    *)
Position(s) == CASE fwd[s] = "replay" -> high[s]
                 [] fwd[s] = "send"   -> Sent(s) + 1
                 [] OTHER             -> Sent(s)

(* What was seen, queued, written and in out follow one another...             *)
Sending(s) ==
    /\ \A i \in 1..Len(wire[s]) : wire[s][i] = after[s] + i
    /\ \A i \in 1..Len(out[s]) : out[s][i] = after[s] + Len(wire[s]) + i
    /\ Len(send[s]) <= Len(wire[s])
    /\ \A i \in 1..Len(send[s]) : send[s][i] = after[s] + Len(wire[s]) - Len(send[s]) + i
    /\ seen = 1..(after[s] + Len(wire[s]) - Len(send[s]))

(* ... and so do what is still to be replayed and what is in the channel.      *)
Reading(s) ==
    /\ fwd[s] = "replay" => Sent(s) = high[s] - Len(replay[s])
    /\ fwd[s] = "send" => held[s] = Sent(s) + 1
    /\ \A i \in 1..Len(ch[s]) : ch[s][i] = LastHanded(s) - Len(ch[s]) + i
    /\ \/ Position(s) = high[s] /\ LastHanded(s) - Len(ch[s]) <= high[s]
       \/ Position(s) > high[s] /\ LastHanded(s) - Len(ch[s]) = Position(s)

GapFree(s) == Sending(s) /\ Reading(s)

StreamInv ==
    /\ TypeOK
    /\ OneConnection
    /\ AppendOrder
    /\ Appended
    /\ \A s \in Subs : Live(s) => OnePlace(s)
    /\ ~overlap => /\ \E k \in 0..MaxEvents : seen = 1..k
                   /\ \A s \in Subs : Live(s) => GapFree(s)

--------------------------------------------------------------------------------
(* The log and the last event seen.                                            *)

(* A set of positive numbers up to n that is not empty has a greatest one.     *)
LEMMA GreatestSeen ==
    ASSUME NEW n \in Nat, NEW S \in SUBSET (1..n), S # {}
    PROVE  \E x \in S : \A y \in S : y <= x
  <1> DEFINE R == OpToRel(<, Nat)
             D == {n - x : x \in S}
  <1>1. D \in SUBSET Nat /\ D # {}
    <2>1. \A x \in S : n - x \in Nat
      OBVIOUS
    <2> QED BY <2>1
  <1>2. PICK d \in D : \A y \in D : ~(<<y, d>> \in R)
    <2>1. IsWellFoundedOn(R, Nat)
      BY NatLessThanWellFounded
    <2> HIDE DEF R, D
    <2> QED BY <1>1, <2>1, WFMin
  <1>3. \A y \in D : ~(y < d)
    BY <1>1, <1>2 DEF OpToRel
  <1>4. PICK x \in S : d = n - x
    BY <1>2
  <1>5. ASSUME NEW y \in S
        PROVE  y <= x
    <2>1. n - y \in D /\ ~(n - y < d)
      BY <1>3
    <2> QED BY <1>4, <2>1
  <1> QED BY <1>5

(* The rows of an execution are numbered from 1 without a gap.                 *)
LEMMA LogIs ==
    ASSUME AppendOrder
    PROVE  /\ log \in Nat /\ log <= MaxEvents /\ Events = 1..log
           /\ \A n \in Seqs : app[n] # "none" <=> n <= log
           /\ MaxEvents \in Nat
  <1>1. MaxEvents \in Nat
    BY StreamAssumption
  <1>2. PICK m \in 0..MaxEvents : Events = 1..m
    BY DEF AppendOrder
  <1>3. log = m
    BY <1>1, <1>2, FS_Interval DEF log
  <1>4. \A n \in Seqs : n \in Events <=> app[n] # "none"
    BY DEF Events
  <1>5. \A n \in Seqs : n \in 1..m <=> n <= m
    BY <1>1 DEF Seqs
  <1> QED BY <1>1, <1>2, <1>3, <1>4, <1>5

(* The phone asks for what follows an event that was appended.                 *)
LEMMA LastSeenIs ==
    ASSUME AppendOrder, seen \subseteq Events
    PROVE  /\ LastSeen \in 0..log
           /\ \A k \in Nat : seen = 1..k => LastSeen = k
  <1>1. log \in Nat /\ seen \subseteq 1..log
    BY LogIs
  <1>2. CASE seen = {}
    <2>1. LastSeen = 0
      BY <1>2 DEF LastSeen
    <2>2. \A k \in Nat : seen = 1..k => k = 0
      BY <1>2
    <2> QED BY <1>1, <2>1, <2>2
  <1>3. CASE seen # {}
    <2>1. \E x \in seen : \A y \in seen : y <= x
      BY <1>1, <1>3, GreatestSeen
    <2>2. LastSeen \in seen /\ \A y \in seen : y <= LastSeen
      BY <1>3, <2>1 DEF LastSeen
    <2>3. LastSeen \in 1..log
      BY <1>1, <2>2
    <2>4. ASSUME NEW k \in Nat, seen = 1..k
          PROVE  LastSeen = k
      <3>1. k \in seen
        BY <1>3, <2>4
      <3> QED BY <1>1, <2>2, <2>3, <2>4, <3>1
    <2> QED BY <1>1, <2>3, <2>4
  <1> QED BY <1>2, <1>3

--------------------------------------------------------------------------------
(* A channel or a queue of one subscription, with an event more or less.       *)

(* An event more at the end.                                                  *)
LEMMA Pushed ==
    ASSUME NEW q \in [Subs -> Seq(Seqs)], NEW s \in Subs, NEW n \in Seqs
    PROVE  LET p == [q EXCEPT ![s] = Append(@, n)]
           IN  /\ p \in [Subs -> Seq(Seqs)]
               /\ \A r \in Subs : r # s => p[r] = q[r]
               /\ Len(q[s]) \in Nat /\ Len(p[s]) = Len(q[s]) + 1
               /\ \A i \in 1..Len(q[s]) : p[s][i] = q[s][i]
               /\ p[s][Len(q[s]) + 1] = n
  <1>1. q[s] \in Seq(Seqs)
    OBVIOUS
  <1>2. /\ Append(q[s], n) \in Seq(Seqs) /\ Len(q[s]) \in Nat
        /\ Len(Append(q[s], n)) = Len(q[s]) + 1
        /\ \A i \in 1..Len(q[s]) : Append(q[s], n)[i] = q[s][i]
        /\ Append(q[s], n)[Len(q[s]) + 1] = n
    BY <1>1
  <1> QED BY <1>2

(* The first one taken.                                                       *)
LEMMA Popped ==
    ASSUME NEW q \in [Subs -> Seq(Seqs)], NEW s \in Subs, q[s] # <<>>
    PROVE  LET p == [q EXCEPT ![s] = Tail(@)]
           IN  /\ p \in [Subs -> Seq(Seqs)]
               /\ \A r \in Subs : r # s => p[r] = q[r]
               /\ Len(q[s]) \in Nat \ {0} /\ Len(p[s]) = Len(q[s]) - 1
               /\ \A i \in 1..(Len(q[s]) - 1) : p[s][i] = q[s][i + 1]
               /\ Head(q[s]) = q[s][1] /\ Head(q[s]) \in Seqs
  <1>1. q[s] \in Seq(Seqs)
    OBVIOUS
  <1>2. /\ Tail(q[s]) \in Seq(Seqs) /\ Len(q[s]) \in Nat \ {0}
        /\ Len(Tail(q[s])) = Len(q[s]) - 1
        /\ \A i \in 1..(Len(q[s]) - 1) : Tail(q[s])[i] = q[s][i + 1]
        /\ Head(q[s]) = q[s][1] /\ Head(q[s]) \in Seqs
    BY <1>1
  <1> QED BY <1>2

(* What is in a sequence of events with one more at its end...                 *)
LEMMA InPushed ==
    ASSUME NEW q \in [Subs -> Seq(Seqs)], NEW s \in Subs, NEW n \in Seqs
    PROVE  LET p == [q EXCEPT ![s] = Append(@, n)]
           IN  /\ \A m : In(m, p[s]) <=> In(m, q[s]) \/ m = n
               /\ Single(q[s]) /\ ~In(n, q[s]) => Single(p[s])
  <1> DEFINE p == [q EXCEPT ![s] = Append(@, n)]
  <1>1. /\ Len(q[s]) \in Nat /\ Len(p[s]) = Len(q[s]) + 1
        /\ \A i \in 1..Len(q[s]) : p[s][i] = q[s][i]
        /\ p[s][Len(q[s]) + 1] = n
    BY Pushed
  <1> HIDE DEF p
  <1>2. \A i \in 1..Len(p[s]) : i \in 1..Len(q[s]) \/ i = Len(q[s]) + 1
    BY <1>1
  <1>3. \A i \in 1..Len(q[s]) : i \in 1..Len(p[s])
    BY <1>1
  <1>4. Len(q[s]) + 1 \in 1..Len(p[s])
    BY <1>1
  <1>5. \A m : In(m, p[s]) <=> In(m, q[s]) \/ m = n
    BY <1>1, <1>2, <1>3, <1>4 DEF In
  <1>6. Single(q[s]) /\ ~In(n, q[s]) => Single(p[s])
    BY <1>1, <1>2 DEF Single, In
  <1> QED BY <1>5, <1>6 DEF p

(* ... and without its first.                                                  *)
LEMMA InPopped ==
    ASSUME NEW q \in [Subs -> Seq(Seqs)], NEW s \in Subs, q[s] # <<>>
    PROVE  LET p == [q EXCEPT ![s] = Tail(@)]
           IN  /\ \A m : In(m, q[s]) <=> In(m, p[s]) \/ m = Head(q[s])
               /\ Single(q[s]) => Single(p[s]) /\ ~In(Head(q[s]), p[s])
  <1> DEFINE p == [q EXCEPT ![s] = Tail(@)]
  <1>1. /\ Len(q[s]) \in Nat \ {0} /\ Len(p[s]) = Len(q[s]) - 1
        /\ \A i \in 1..(Len(q[s]) - 1) : p[s][i] = q[s][i + 1]
        /\ Head(q[s]) = q[s][1]
    BY Popped
  <1> HIDE DEF p
  <1>2. \A i \in 1..Len(p[s]) : p[s][i] = q[s][i + 1] /\ i + 1 \in 1..Len(q[s]) /\ i + 1 # 1
    BY <1>1
  <1>3. 1 \in 1..Len(q[s])
    BY <1>1
  <1>4. ASSUME NEW i \in 1..Len(q[s]), i # 1
        PROVE  \E j \in 1..Len(p[s]) : p[s][j] = q[s][i]
    <2>1. i - 1 \in 1..Len(p[s]) /\ (i - 1) + 1 = i
      BY <1>1, <1>4
    <2> QED BY <1>2, <2>1
  <1>5. \A m : In(m, q[s]) <=> In(m, p[s]) \/ m = Head(q[s])
    BY <1>1, <1>2, <1>3, <1>4, ZenonT(30) DEF In
  <1>6. ASSUME Single(q[s])
        PROVE  Single(p[s]) /\ ~In(Head(q[s]), p[s])
    <2>1. \A i, j \in 1..Len(p[s]) : p[s][i] = p[s][j] => i + 1 = j + 1
      BY <1>2, <1>6 DEF Single
    <2>2. \A i, j \in 1..Len(p[s]) : i + 1 = j + 1 => i = j
      OBVIOUS
    <2>3. \A i \in 1..Len(p[s]) : p[s][i] # q[s][1]
      BY <1>2, <1>3, <1>6 DEF Single
    <2> QED BY <1>1, <2>1, <2>2, <2>3 DEF Single, In
  <1> QED BY <1>5, <1>6 DEF p

(* ... after a step as well.                                                   *)
LEMMA LogNext == (AppendOrder => /\ log \in Nat /\ log <= MaxEvents /\ Events = 1..log
                                 /\ \A n \in Seqs : app[n] # "none" <=> n <= log)'
  <1>1. AppendOrder => /\ log \in Nat /\ log <= MaxEvents /\ Events = 1..log
                       /\ \A n \in Seqs : app[n] # "none" <=> n <= log
    BY LogIs
  <1> QED BY <1>1, PTL

--------------------------------------------------------------------------------
(* Types.                                                                      *)

(* Types, the capacities of the channels and of the queue included.           *)
LEMMA StreamTypes ==
    ASSUME StreamInv, [Next]_vars
    PROVE  TypeOK'
  <1> USE DEF StreamInv, TypeOK
  <1>0. /\ MaxEvents \in Nat /\ MaxConns \in Nat
        /\ ChanCap \in Nat \ {0} /\ SendCap \in Nat \ {0}
        /\ log \in 0..MaxEvents /\ LastSeen \in 0..log /\ \A n \in Events : n \in Seqs
        /\ 0 \in 0..MaxEvents /\ \A n \in Seqs : n \in 0..MaxEvents
    BY LogIs, LastSeenIs, StreamAssumption DEF Appended, Events, Seqs
  <1>15. <<>> \in Seq(Seqs) /\ Len(<<>>) = 0 /\ Len(<<>>) <= SendCap
    BY <1>0
  <1>1. ASSUME NEW n \in Seqs, AppendRemediationEvent(n)
        PROVE  TypeOK'
    BY <1>1 DEF AppendRemediationEvent, forwarding
  <1>2. ASSUME NEW n \in Seqs, fanout(n)
        PROVE  TypeOK'
    BY <1>2 DEF fanout, forwarding
  <1>3. ASSUME NEW n \in Seqs, NEW s \in Subs, Deliver(n, s)
        PROVE  TypeOK'
    <2>1. ch' \in [Subs -> Seq(Seqs)] /\ \A r \in Subs : Len(ch'[r]) <= ChanCap
      <3>1. CASE UNCHANGED ch
        BY <3>1
      <3>2. CASE Len(ch[s]) < ChanCap /\ ch' = [ch EXCEPT ![s] = Append(@, n)]
        BY <1>0, <3>2, Pushed
      <3> QED BY <1>3, <3>1, <3>2 DEF Deliver
    <2> QED BY <1>3, <2>1 DEF Deliver, forwarding
  <1>4. ASSUME NEW s \in Subs, Subscribe(s)
        PROVE  TypeOK'
    <2>1. [k \in 1..(log - LastSeen) |-> LastSeen + k] \in Seq(Seqs)
      <3>1. \A k \in 1..(log - LastSeen) : LastSeen + k \in Seqs
        BY <1>0 DEF Seqs
      <3>2. log - LastSeen \in Nat
        BY <1>0
      <3> DEFINE d == log - LastSeen
      <3> HIDE DEF d
      <3>3. \A k \in 1..d : LastSeen + k \in Seqs
        BY <3>1 DEF d
      <3>4. [k \in 1..d |-> LastSeen + k] \in Seq(Seqs)
        <4>1. d \in Nat
          BY <3>2 DEF d
        <4> QED BY <3>3, <4>1
      <3> QED BY <3>4 DEF d
    <2>2. LastSeen \in 0..MaxEvents
      BY <1>0
    <2> QED BY <1>0, <1>4, <2>1, <2>2 DEF Subscribe, Snapshot, appending
  <1>5. ASSUME NEW s \in Subs, Replay(s)
        PROVE  TypeOK'
    <2>1. out' \in [Subs -> Seq(Seqs)] /\ \A r \in Subs : Len(out'[r]) <= ChanCap
      <3>1. CASE UNCHANGED out
        BY <3>1
      <3>2. CASE /\ replay[s] # <<>> /\ Len(out[s]) < ChanCap
                 /\ out' = [out EXCEPT ![s] = Append(@, Head(replay[s]))]
        <4>1. Head(replay[s]) \in Seqs
          BY <3>2, Popped
        <4> QED BY <1>0, <3>2, <4>1, Pushed, SMTT(30)
      <3> QED BY <1>5, <3>1, <3>2 DEF Replay
    <2>2. replay' \in [Subs -> Seq(Seqs)]
      <3>1. replay' = replay \/ (replay[s] # <<>> /\ replay' = [replay EXCEPT ![s] = Tail(@)])
        BY <1>5 DEF Replay
      <3>2. CASE replay' = replay
        BY <3>2
      <3>3. CASE replay[s] # <<>> /\ replay' = [replay EXCEPT ![s] = Tail(@)]
        BY <3>3, Popped
      <3> QED BY <3>1, <3>2, <3>3
    <2> QED BY <1>5, <2>1, <2>2 DEF Replay, appending
  <1>6. ASSUME NEW s \in Subs, Forward(s)
        PROVE  TypeOK'
    <2>1. ch' \in [Subs -> Seq(Seqs)] /\ \A r \in Subs : Len(ch'[r]) <= ChanCap
      <3>1. ch[s] # <<>> /\ ch' = [ch EXCEPT ![s] = Tail(@)]
        BY <1>6 DEF Forward
      <3>2. Tail(ch[s]) \in Seq(Seqs) /\ Len(Tail(ch[s])) <= ChanCap
        BY <1>0, <3>1, Popped
      <3> QED BY <1>0, <3>1, <3>2
    <2>2. Head(ch[s]) \in 0..MaxEvents
      BY <1>0, <1>6, Popped DEF Forward
    <2>3. /\ fwd' \in [Subs -> {"none", "replay", "live", "send", "finished"}]
          /\ held' \in [Subs -> 0..MaxEvents]
      <3>1. \/ UNCHANGED <<fwd, held>>
            \/ /\ fwd' = [fwd EXCEPT ![s] = "send"]
               /\ held' = [held EXCEPT ![s] = Head(ch[s])]
        BY <1>6 DEF Forward
      <3>2. CASE UNCHANGED <<fwd, held>>
        BY <3>2
      <3>3. CASE /\ fwd' = [fwd EXCEPT ![s] = "send"]
                 /\ held' = [held EXCEPT ![s] = Head(ch[s])]
        BY <2>2, <3>3
      <3> QED BY <3>1, <3>2, <3>3
    <2> QED BY <1>6, <2>1, <2>3 DEF Forward, appending
  <1>7. ASSUME NEW s \in Subs, SendOut(s)
        PROVE  TypeOK'
    <2>1. held[s] \in Seqs
      BY <1>0, <1>7 DEF SendOut, Appended
    <2>2. out' \in [Subs -> Seq(Seqs)] /\ \A r \in Subs : Len(out'[r]) <= ChanCap
      BY <1>0, <1>7, <2>1 DEF SendOut
    <2> QED BY <1>0, <1>7, <2>2 DEF SendOut, appending
  <1>8. ASSUME NEW s \in Subs, ForwardEnds(s)
        PROVE  TypeOK'
    BY <1>8 DEF ForwardEnds, appending
  <1>9. ASSUME NEW s \in Subs, WriteEvent(s)
        PROVE  TypeOK'
    <2>1. out' \in [Subs -> Seq(Seqs)] /\ \A r \in Subs : Len(out'[r]) <= ChanCap
      <3>1. out[s] # <<>> /\ out' = [out EXCEPT ![s] = Tail(@)]
        BY <1>9 DEF WriteEvent
      <3>2. Tail(out[s]) \in Seq(Seqs) /\ Len(Tail(out[s])) <= ChanCap
        BY <1>0, <3>1, Popped
      <3> QED BY <1>0, <3>1, <3>2
    <2>2. Head(out[s]) \in Seqs
      BY <1>9 DEF WriteEvent
    <2>3. enqueue(s, Head(out[s]))
      BY <1>9 DEF WriteEvent
    <2>4. /\ send' \in [Subs -> Seq(Seqs)] /\ \A r \in Subs : Len(send'[r]) <= SendCap
          /\ wire' \in [Subs -> Seq(Seqs)] /\ cancelled' \subseteq Subs
          /\ after' \in [Subs -> 0..MaxEvents]
      <3>1. CASE UNCHANGED <<send, wire, cancelled, after>>
        BY <3>1
      <3>2. CASE /\ Len(send[s]) < SendCap
                 /\ send' = [send EXCEPT ![s] = Append(@, Head(out[s]))]
                 /\ wire' = [wire EXCEPT ![s] = Append(@, Head(out[s]))]
                 /\ UNCHANGED <<cancelled, after>>
        BY <1>0, <2>2, <3>2, Pushed, SMTT(30)
      <3>3. CASE shutdown(s)
        BY <1>0, <1>15, <3>3 DEF shutdown
      <3> QED BY <2>3, <3>1, <3>2, <3>3 DEF enqueue
    <2> QED BY <1>9, <2>1, <2>4 DEF WriteEvent, appending, forwarding
  <1>10. ASSUME NEW s \in Subs, Deregister(s) \/ CloseDone(s)
         PROVE  TypeOK'
    BY <1>10, ZenonT(30) DEF Deregister, CloseDone, appending, forwarding
  <1>11. ASSUME NEW s \in Subs, Finished(s)
         PROVE  TypeOK'
    BY <1>0, <1>11, SMTT(30) DEF Finished, appending
  <1>12. ASSUME NEW s \in Subs, WriteFrame(s)
         PROVE  TypeOK'
    BY <1>0, <1>12, SMTT(30) DEF WriteFrame, appending, forwarding
  <1>13. ASSUME NEW s \in Subs, Disconnect(s)
         PROVE  TypeOK'
    BY <1>0, <1>13, <1>15 DEF Disconnect, shutdown, appending, forwarding
  <1>14. CASE UNCHANGED vars
    BY <1>14 DEF vars, appending, forwarding
  <1> QED
    BY <1>1, <1>2, <1>3, <1>4, <1>5, <1>6, <1>7, <1>8, <1>9, <1>10, <1>11, <1>12, <1>13, <1>14
    DEF Next, AppendStep, ForwardStep, ServerStep

--------------------------------------------------------------------------------
(* Connections, the log, and what was appended.                                *)

(* A connection is opened when all earlier ones are down.                     *)
LEMMA OneConnectionNext ==
    ASSUME StreamInv, [Next]_vars
    PROVE  OneConnection'
  <1>0. TypeOK /\ OneConnection
    BY DEF StreamInv
  <1> USE <1>0 DEF TypeOK, OneConnection
  <1>1. ASSUME NEW n \in Seqs, AppendRemediationEvent(n)
        PROVE  OneConnection'
    BY <1>1 DEF AppendRemediationEvent, forwarding
  <1>2. ASSUME NEW n \in Seqs, fanout(n)
        PROVE  OneConnection'
    BY <1>2 DEF fanout, forwarding
  <1>3. ASSUME NEW n \in Seqs, NEW s \in Subs, Deliver(n, s)
        PROVE  OneConnection'
    <2>1. srv[s] # "none"
      BY <1>3 DEF Deliver
    <2>2. \A r \in Subs : r # s => ch'[r] = ch[r]
      BY <1>3, ZenonT(30) DEF Deliver
    <2>3. \A m \in Seqs : targets'[m] \subseteq targets[m]
      BY <1>3 DEF Deliver
    <2>4. UNCHANGED <<subs, done, out, forwarding, srv, cancelled, send, wire>>
      BY <1>3 DEF Deliver
    <2> QED BY <2>1, <2>2, <2>3, <2>4 DEF forwarding
  <1>4. ASSUME NEW s \in Subs, Subscribe(s)
        PROVE  OneConnection'
    <2>1. /\ s \notin done /\ s \notin cancelled /\ \A r \in 1..(s - 1) : r \in cancelled
          /\ srv[s] = "none"
      BY <1>4 DEF Subscribe
    <2>2. \A r \in Subs : r < s => r \in 1..(s - 1)
      BY DEF Subs
    <2>3. /\ subs' = subs \cup {s} /\ fwd' = [fwd EXCEPT ![s] = "replay"]
          /\ srv' = [srv EXCEPT ![s] = "run"]
          /\ UNCHANGED <<appending, done, ch, out, held, cancelled, send, wire>>
      BY <1>4 DEF Subscribe
    <2> QED BY <2>1, <2>2, <2>3 DEF appending
  <1>5. ASSUME NEW s \in Subs, Replay(s)
        PROVE  OneConnection'
    <2>1. /\ srv[s] # "none" /\ UNCHANGED <<appending, subs, done, ch, held, srv, cancelled,
                                            send, wire>>
      BY <1>5 DEF Replay
    <2>2. /\ \A r \in Subs : r # s => out'[r] = out[r] /\ fwd'[r] = fwd[r]
          /\ fwd'[s] \in {"replay", "live"}
      BY <1>5, SMTT(30) DEF Replay
    <2> QED BY <2>1, <2>2 DEF appending
  <1>6. ASSUME NEW s \in Subs, Forward(s)
        PROVE  OneConnection'
    <2>1. srv[s] # "none" /\ ch' = [ch EXCEPT ![s] = Tail(@)]
      BY <1>6 DEF Forward
    <2>2. /\ UNCHANGED <<appending, subs, done, out, srv, cancelled, send, wire>>
          /\ \A r \in Subs : r # s => held'[r] = held[r] /\ fwd'[r] = fwd[r]
          /\ fwd'[s] \in {"live", "send"}
      BY <1>6 DEF Forward
    <2> QED BY <2>1, <2>2, ZenonT(30) DEF appending
  <1>7. ASSUME NEW s \in Subs, SendOut(s)
        PROVE  OneConnection'
    BY <1>7, SMTT(30) DEF SendOut, appending
  <1>8. ASSUME NEW s \in Subs, ForwardEnds(s)
        PROVE  OneConnection'
    BY <1>8, SMTT(30) DEF ForwardEnds, appending
  <1>9. ASSUME NEW s \in Subs, WriteEvent(s)
        PROVE  OneConnection'
    <2>1. /\ srv[s] = "run" /\ out' = [out EXCEPT ![s] = Tail(@)] /\ enqueue(s, Head(out[s]))
          /\ UNCHANGED <<appending, subs, done, ch, forwarding, srv>>
      BY <1>9 DEF WriteEvent
    <2>2. /\ cancelled' = cancelled \/ cancelled' = cancelled \cup {s}
          /\ \A r \in Subs : r # s => send'[r] = send[r] /\ wire'[r] = wire[r]
          /\ s \in cancelled' => send'[s] = <<>> /\ wire'[s] = <<>>
      BY <2>1 DEF enqueue, shutdown
    <2> QED BY <2>1, <2>2, ZenonT(30) DEF appending, forwarding
  <1>10. ASSUME NEW s \in Subs, Deregister(s) \/ CloseDone(s)
         PROVE  OneConnection'
    <2>1. /\ s \in cancelled /\ srv[s] # "none"
          /\ \A r \in Subs : r # s => srv'[r] = srv[r] /\ (r \in subs' <=> r \in subs)
                                      /\ (r \in done' <=> r \in done)
          /\ srv'[s] # "none"
      BY <1>10 DEF Deregister, CloseDone
    <2>2. UNCHANGED <<appending, ch, out, forwarding, cancelled, send, wire>>
      BY <1>10 DEF Deregister, CloseDone
    <2> QED BY <2>1, <2>2 DEF appending, forwarding
  <1>11. ASSUME NEW s \in Subs, Finished(s)
         PROVE  OneConnection'
    BY <1>11, SMTT(30) DEF Finished, appending
  <1>12. ASSUME NEW s \in Subs, WriteFrame(s)
         PROVE  OneConnection'
    <2>1. srv[s] # "none" /\ s \notin cancelled
      BY <1>12 DEF WriteFrame
    <2>2. /\ \A r \in Subs : r # s => send'[r] = send[r]
          /\ UNCHANGED <<appending, subs, done, ch, out, forwarding, srv, cancelled, wire>>
      BY <1>12 DEF WriteFrame
    <2> QED BY <2>1, <2>2 DEF appending, forwarding
  <1>13. ASSUME NEW s \in Subs, Disconnect(s)
         PROVE  OneConnection'
    BY <1>13 DEF Disconnect, shutdown, appending, forwarding
  <1>14. CASE UNCHANGED vars
    BY <1>14 DEF vars, appending, forwarding
  <1> QED
    BY <1>1, <1>2, <1>3, <1>4, <1>5, <1>6, <1>7, <1>8, <1>9, <1>10, <1>11, <1>12, <1>13, <1>14
    DEF Next, AppendStep, ForwardStep, ServerStep

(* The steps that leave the log and the fanouts alone.                         *)
OffTheLog(s) ==
    Subscribe(s) \/ ForwardStep(s) \/ ServerStep(s) \/ WriteFrame(s) \/ Disconnect(s)

(* Rows are appended one after the other and never removed.                   *)
LEMMA AppendOrderNext ==
    ASSUME StreamInv, [Next]_vars
    PROVE  AppendOrder' /\ log <= log' /\ Events \subseteq Events'
  <1>0. /\ TypeOK /\ AppendOrder /\ log \in Nat /\ log <= MaxEvents /\ Events = 1..log
        /\ MaxEvents \in Nat /\ \A n \in Seqs : app[n] # "none" <=> n <= log
    BY LogIs DEF StreamInv
  <1>1. ASSUME NEW n \in Seqs, AppendRemediationEvent(n)
        PROVE  AppendOrder' /\ log <= log' /\ Events \subseteq Events'
    <2>1. /\ n = log + 1 /\ app' = [app EXCEPT ![n] = "persisted"] /\ targets' = targets
          /\ overlap' = (overlap \/ Appending # {})
      BY <1>1 DEF AppendRemediationEvent
    <2>2. Events' = 1..n
      <3>1. Events' = Events \cup {n}
        BY <1>0, <2>1 DEF Events, TypeOK
      <3> QED BY <1>0, <2>1, <3>1
    <2>3. n \in 0..MaxEvents /\ log' = n
      BY <1>0, <2>1, <2>2, FS_Interval DEF log, Seqs
    <2>4. ~overlap' => Appending' = {n}
      BY <1>0, <2>1 DEF Appending, TypeOK
    <2>5. \A m \in Seqs : targets'[m] # {} => app'[m] = "sending"
      <3>1. app[n] = "none"
        BY <1>0, <2>1
      <3> QED BY <1>0, <2>1, <3>1 DEF AppendOrder, TypeOK
    <2> QED BY <1>0, <2>1, <2>2, <2>3, <2>4, <2>5 DEF AppendOrder
  <1>2. ASSUME NEW n \in Seqs, \A m \in Seqs : m # n => app'[m] = app[m] /\ targets'[m] = targets[m],
               app[n] \in {"persisted", "sending"}, app'[n] \in {"sending", "done"},
               targets'[n] # {} => app'[n] = "sending", overlap' = overlap
        PROVE  AppendOrder' /\ log <= log' /\ Events \subseteq Events'
    <2>1. Events' = Events
      BY <1>2 DEF Events
    <2>2. log' = log /\ Appending' \subseteq Appending
      BY <1>2, <2>1 DEF log, Appending
    <2> QED BY <1>0, <1>2, <2>1, <2>2 DEF AppendOrder
  <1>3. ASSUME NEW n \in Seqs, fanout(n)
        PROVE  AppendOrder' /\ log <= log' /\ Events \subseteq Events'
    BY <1>0, <1>2, <1>3 DEF fanout, TypeOK
  <1>4. ASSUME NEW n \in Seqs, NEW s \in Subs, Deliver(n, s)
        PROVE  AppendOrder' /\ log <= log' /\ Events \subseteq Events'
    <2>1. app[n] = "sending"
      BY <1>0, <1>4 DEF AppendOrder, Deliver
    <2>2. /\ \A m \in Seqs : m # n => app'[m] = app[m] /\ targets'[m] = targets[m]
          /\ app'[n] \in {"sending", "done"} /\ overlap' = overlap
          /\ targets'[n] # {} => app'[n] = "sending"
      BY <1>0, <1>4, <2>1 DEF Deliver, TypeOK
    <2> QED BY <1>2, <2>1, <2>2
  <1>5. ASSUME UNCHANGED <<app, targets, overlap>>
        PROVE  AppendOrder' /\ log <= log' /\ Events \subseteq Events'
    BY <1>0, <1>5 DEF AppendOrder, log, Events, Appending
  <1>6. ASSUME NEW s \in Subs, OffTheLog(s)
        PROVE  UNCHANGED <<app, targets, overlap>>
    BY <1>6 DEF OffTheLog, ForwardStep, ServerStep, Subscribe, Replay, Forward, SendOut,
                ForwardEnds, WriteEvent, Deregister, CloseDone, Finished, WriteFrame,
                Disconnect, appending
  <1>7. CASE UNCHANGED vars
    BY <1>5, <1>7 DEF vars, appending
  <1> QED BY <1>1, <1>3, <1>4, <1>5, <1>6, <1>7 DEF Next, AppendStep, OffTheLog

(* Nothing is sent that was not appended.                                     *)
LEMMA AppendedNext ==
    ASSUME StreamInv, [Next]_vars
    PROVE  Appended'
  <1>0. /\ TypeOK /\ Appended /\ log \in Nat /\ log <= MaxEvents /\ Events = 1..log
        /\ MaxEvents \in Nat /\ LastSeen \in 0..log /\ Events \subseteq Events'
    BY LogIs, LastSeenIs, AppendOrderNext DEF StreamInv, Appended
  <1>1. ASSUME NEW n \in Seqs, AppendRemediationEvent(n) \/ fanout(n)
        PROVE  Appended'
    BY <1>0, <1>1 DEF AppendRemediationEvent, fanout, Appended, forwarding
  <1>2. ASSUME NEW q \in [Subs -> Seq(Seqs)], NEW s \in Subs, NEW n \in Events,
               NEW r \in Subs, \A i \in 1..Len(q[r]) : q[r][i] \in Events
        PROVE  LET p == [q EXCEPT ![s] = Append(@, n)]
               IN  \A i \in 1..Len(p[r]) : p[r][i] \in Events'
    <2>1. n \in Seqs
      BY DEF Events
    <2>2. CASE r = s
      BY <1>0, <1>2, <2>1, <2>2, Pushed
    <2>3. CASE r # s
      BY <1>0, <1>2, <2>3
    <2> QED BY <2>2, <2>3
  <1>3. ASSUME NEW q \in [Subs -> Seq(Seqs)], NEW s \in Subs, q[s] # <<>>,
               NEW r \in Subs, \A i \in 1..Len(q[r]) : q[r][i] \in Events
        PROVE  LET p == [q EXCEPT ![s] = Tail(@)]
               IN  /\ \A i \in 1..Len(p[r]) : p[r][i] \in Events'
                   /\ r = s => Head(q[s]) \in Events /\ Head(q[s]) \in Seqs
    <2>1. CASE r = s
      BY <1>0, <1>3, <2>1, Popped
    <2>2. CASE r # s
      BY <1>0, <1>3, <2>2
    <2> QED BY <2>1, <2>2
  <1>4. ASSUME NEW n \in Seqs, NEW s \in Subs, Deliver(n, s)
        PROVE  Appended'
    <2>1. n \in Events
      BY <1>4 DEF StreamInv, AppendOrder, Deliver, Events
    <2>2. UNCHANGED ch \/ ch' = [ch EXCEPT ![s] = Append(@, n)]
      BY <1>4 DEF Deliver
    <2>3. \A r \in Subs : \A i \in 1..Len(ch'[r]) : ch'[r][i] \in Events'
      BY <1>0, <1>2, <2>1, <2>2 DEF Appended, TypeOK
    <2> QED BY <1>0, <1>4, <2>3 DEF Deliver, Appended, forwarding
  <1>5. ASSUME NEW s \in Subs, Subscribe(s)
        PROVE  Appended'
    <2>1. \A r \in Subs : \A i \in 1..Len(replay'[r]) : replay'[r][i] \in Events
      <3>1. replay' = [replay EXCEPT ![s] = [k \in 1..(log - LastSeen) |-> LastSeen + k]]
        BY <1>5 DEF Subscribe, Snapshot
      <3>2. log - LastSeen \in Nat /\ \A k \in 1..(log - LastSeen) : LastSeen + k \in Events
        BY <1>0
      <3>3. /\ Len([k \in 1..(log - LastSeen) |-> LastSeen + k]) = log - LastSeen
            /\ \A r \in Subs : r # s => replay'[r] = replay[r]
            /\ replay'[s] = [k \in 1..(log - LastSeen) |-> LastSeen + k]
        BY <1>0, <3>1, <3>2 DEF TypeOK
      <3>4. \A i \in 1..Len(replay'[s]) : replay'[s][i] \in Events
        BY <1>0, <3>2, <3>3
      <3>5. \A r \in Subs : \A i \in 1..Len(replay[r]) : replay[r][i] \in Events
        BY <1>0 DEF Appended
      <3> QED BY <3>3, <3>4, <3>5
    <2>2. \A r \in Subs : fwd'[r] = "send" => fwd[r] = "send" /\ held'[r] = held[r]
      BY <1>0, <1>5 DEF Subscribe, TypeOK
    <2> QED BY <1>0, <1>5, <2>1, <2>2 DEF Subscribe, Appended
  <1>6. ASSUME NEW s \in Subs, Replay(s)
        PROVE  Appended'
    <2>1. CASE /\ replay[s] # <<>> /\ out' = [out EXCEPT ![s] = Append(@, Head(replay[s]))]
               /\ replay' = [replay EXCEPT ![s] = Tail(@)] /\ UNCHANGED fwd
      <3>1. Head(replay[s]) \in Events
        BY <1>0, <1>3, <2>1 DEF Appended, TypeOK
      <3>2. \A r \in Subs : /\ \A i \in 1..Len(out'[r]) : out'[r][i] \in Events'
                            /\ \A i \in 1..Len(replay'[r]) : replay'[r][i] \in Events'
        BY <1>0, <1>2, <1>3, <2>1, <3>1 DEF Appended, TypeOK
      <3> QED BY <1>0, <1>6, <2>1, <3>2 DEF Replay, Appended
    <2>2. CASE fwd' = [fwd EXCEPT ![s] = "live"] /\ UNCHANGED <<out, replay>>
      BY <1>0, <1>6, <2>2 DEF Replay, Appended, TypeOK
    <2> QED BY <1>6, <2>1, <2>2 DEF Replay
  <1>7. ASSUME NEW s \in Subs, Forward(s)
        PROVE  Appended'
    <2>1. ch[s] # <<>> /\ ch' = [ch EXCEPT ![s] = Tail(@)]
      BY <1>7 DEF Forward
    <2>2. \A r \in Subs : \A i \in 1..Len(ch'[r]) : ch'[r][i] \in Events'
      BY <1>0, <1>3, <2>1 DEF Appended, TypeOK
    <2>3. Head(ch[s]) \in Events
      BY <1>0, <1>3, <2>1 DEF Appended, TypeOK
    <2>4. \A r \in Subs : fwd'[r] = "send" => held'[r] \in Events
      <3>1. \/ UNCHANGED <<fwd, held>>
            \/ /\ fwd' = [fwd EXCEPT ![s] = "send"]
               /\ held' = [held EXCEPT ![s] = Head(ch[s])]
        BY <1>7 DEF Forward
      <3> QED BY <1>0, <2>3, <3>1 DEF Appended, TypeOK
    <2> QED BY <1>0, <1>7, <2>2, <2>4 DEF Forward, Appended
  <1>8. ASSUME NEW s \in Subs, SendOut(s)
        PROVE  Appended'
    <2>1. /\ held[s] \in Events /\ out' = [out EXCEPT ![s] = Append(@, held[s])]
          /\ held' = [held EXCEPT ![s] = 0] /\ fwd' = [fwd EXCEPT ![s] = "live"]
      BY <1>0, <1>8 DEF SendOut, Appended
    <2>2. \A r \in Subs : \A i \in 1..Len(out'[r]) : out'[r][i] \in Events'
      BY <1>0, <1>2, <2>1 DEF Appended, TypeOK
    <2>3. \A r \in Subs : fwd'[r] = "send" => fwd[r] = "send" /\ held'[r] = held[r]
      BY <1>0, <2>1 DEF TypeOK
    <2> QED BY <1>0, <1>8, <2>2, <2>3 DEF SendOut, Appended
  <1>9. ASSUME NEW s \in Subs, ForwardEnds(s)
        PROVE  Appended'
    BY <1>0, <1>9 DEF ForwardEnds, Appended, TypeOK
  <1>10. ASSUME NEW s \in Subs, WriteEvent(s)
         PROVE  Appended'
    <2>1. out[s] # <<>> /\ out' = [out EXCEPT ![s] = Tail(@)] /\ enqueue(s, Head(out[s]))
      BY <1>10 DEF WriteEvent
    <2>2. /\ Head(out[s]) \in Events
          /\ \A r \in Subs : \A i \in 1..Len(out'[r]) : out'[r][i] \in Events'
      BY <1>0, <1>3, <2>1 DEF Appended, TypeOK
    <2>3. \A r \in Subs : \A i \in 1..Len(send'[r]) : send'[r][i] \in Events'
      <3>1. CASE UNCHANGED send
        BY <1>0, <3>1 DEF Appended
      <3>2. CASE send' = [send EXCEPT ![s] = Append(@, Head(out[s]))]
        BY <1>0, <1>2, <2>2, <3>2 DEF Appended, TypeOK
      <3>3. CASE send' = [send EXCEPT ![s] = <<>>]
        <4>1. \A r \in Subs : send'[r] = send[r] \/ Len(send'[r]) = 0
          BY <1>0, <3>3 DEF TypeOK
        <4> QED BY <1>0, <4>1 DEF Appended
      <3> QED BY <2>1, <3>1, <3>2, <3>3 DEF enqueue, shutdown
    <2> QED BY <1>0, <1>10, <2>2, <2>3 DEF WriteEvent, Appended, forwarding
  <1>11. ASSUME NEW s \in Subs, Deregister(s) \/ CloseDone(s)
         PROVE  Appended'
    BY <1>0, <1>11 DEF Deregister, CloseDone, Appended, forwarding
  <1>12. ASSUME NEW s \in Subs, Finished(s)
         PROVE  Appended'
    <2>1. /\ \A r \in Subs : r # s => /\ out'[r] = out[r] /\ replay'[r] = replay[r]
                                      /\ held'[r] = held[r]
          /\ Len(out'[s]) = 0 /\ Len(replay'[s]) = 0 /\ fwd' = fwd /\ fwd[s] = "finished"
          /\ UNCHANGED <<ch, send, seen>>
      BY <1>0, <1>12 DEF Finished, TypeOK
    <2>2. \A r \in Subs : /\ out'[r] = out[r] \/ Len(out'[r]) = 0
                          /\ replay'[r] = replay[r] \/ Len(replay'[r]) = 0
                          /\ fwd'[r] = "send" => fwd[r] = "send" /\ held'[r] = held[r]
      BY <2>1
    <2>3. \A r \in Subs : /\ \A i \in 1..Len(out'[r]) : out'[r][i] \in Events'
                          /\ \A i \in 1..Len(replay'[r]) : replay'[r][i] \in Events'
      BY <1>0, <2>2 DEF Appended
    <2>4. \A r \in Subs : fwd'[r] = "send" => held'[r] \in Events'
      BY <1>0, <2>2 DEF Appended
    <2> QED BY <1>0, <2>1, <2>3, <2>4 DEF Appended
  <1>13. ASSUME NEW s \in Subs, WriteFrame(s)
         PROVE  Appended'
    <2>1. /\ Head(send[s]) \in Events
          /\ \A r \in Subs : \A i \in 1..Len(send'[r]) : send'[r][i] \in Events'
      BY <1>0, <1>3, <1>13 DEF WriteFrame, Appended, TypeOK
    <2> QED BY <1>0, <1>13, <2>1 DEF WriteFrame, Appended, forwarding
  <1>14. ASSUME NEW s \in Subs, Disconnect(s)
         PROVE  Appended'
    <2>1. \A r \in Subs : \A i \in 1..Len(send'[r]) : send'[r][i] \in Events'
      <3>1. \A r \in Subs : send'[r] = send[r] \/ Len(send'[r]) = 0
        BY <1>0, <1>14 DEF Disconnect, shutdown, TypeOK
      <3> QED BY <1>0, <3>1 DEF Appended
    <2> QED BY <1>0, <1>14, <2>1 DEF Disconnect, Appended, forwarding
  <1>15. CASE UNCHANGED vars
    BY <1>0, <1>15 DEF vars, Appended, forwarding
  <1> QED
    BY <1>1, <1>4, <1>5, <1>6, <1>7, <1>8, <1>9, <1>10, <1>11, <1>12, <1>13, <1>14, <1>15
    DEF Next, AppendStep, ForwardStep, ServerStep

--------------------------------------------------------------------------------
(* No duplicates.                                                              *)

(* What was handed to a subscription is not handed to it again.                *)
LEMMA HandedStays ==
    ASSUME StreamInv, [Next]_vars, NEW n \in Seqs, NEW s \in Subs, Live(s), Handed(n, s)
    PROVE  Handed(n, s)'
  <1>0. /\ TypeOK /\ AppendOrder /\ app[n] # "none" /\ n <= log /\ log \in Nat
    BY LogIs DEF StreamInv, Handed
  <1>1. ASSUME NEW m \in Seqs, AppendRemediationEvent(m)
        PROVE  Handed(n, s)'
    <2>1. m # n
      BY <1>0, <1>1 DEF AppendRemediationEvent
    <2> QED BY <1>0, <1>1, <2>1 DEF AppendRemediationEvent, Handed, TypeOK
  <1>2. ASSUME NEW m \in Seqs, fanout(m)
        PROVE  Handed(n, s)'
    <2>1. m # n
      BY <1>2 DEF fanout, Handed
    <2> QED BY <1>0, <1>2, <2>1 DEF fanout, Handed, TypeOK
  <1>3. ASSUME NEW m \in Seqs, NEW r \in Subs, Deliver(m, r)
        PROVE  Handed(n, s)'
    BY <1>0, <1>3 DEF Deliver, Handed, TypeOK
  <1>4. ASSUME NEW r \in Subs, OffTheLog(r)
        PROVE  UNCHANGED <<app, targets>>
    BY <1>4 DEF OffTheLog, ForwardStep, ServerStep, Subscribe, Replay, Forward, SendOut,
                ForwardEnds, WriteEvent, Deregister, CloseDone, Finished, WriteFrame,
                Disconnect, appending
  <1>5. CASE UNCHANGED vars
    BY <1>5 DEF vars, appending, Handed
  <1>6. CASE UNCHANGED <<app, targets>>
    BY <1>6 DEF Handed
  <1> QED BY <1>1, <1>2, <1>3, <1>4, <1>5, <1>6 DEF Next, AppendStep, OffTheLog

(* What a subscription consists of, but the writer's queue.                    *)
Same(s) == UNCHANGED <<wire[s], out[s], ch[s], held[s], high[s], after[s], fwd[s], replay[s]>>

(* A step of another subscription, or of the log, leaves this one alone.       *)
LEMMA OthersStay ==
    ASSUME StreamInv, [Next]_vars, NEW s \in Subs, Live(s)'
    PROVE  \/ \E n \in Seqs : Deliver(n, s)
           \/ OffTheLog(s)
           \/ Same(s) /\ UNCHANGED <<send[s], srv[s]>> /\ Live(s)
  <1>0. TypeOK
    BY DEF StreamInv
  <1>1. ASSUME NEW n \in Seqs, AppendRemediationEvent(n) \/ fanout(n)
        PROVE  Same(s) /\ UNCHANGED <<send[s], srv[s]>> /\ Live(s)
    BY <1>1 DEF AppendRemediationEvent, fanout, forwarding, Same, Live
  <1>2. ASSUME NEW n \in Seqs, NEW r \in Subs, Deliver(n, r), r # s
        PROVE  Same(s) /\ UNCHANGED <<send[s], srv[s]>> /\ Live(s)
    BY <1>0, <1>2 DEF Deliver, forwarding, Same, Live, TypeOK
  <1>3. ASSUME NEW r \in Subs, r # s, Subscribe(r) \/ ForwardStep(r)
        PROVE  Same(s) /\ UNCHANGED <<send[s], srv[s]>> /\ Live(s)
    <2>1. CASE Subscribe(r)
      BY <1>0, <1>3, <2>1 DEF Subscribe, Snapshot, Same, Live, TypeOK
    <2>2. CASE Replay(r)
      BY <1>0, <1>3, <2>2 DEF Replay, Same, Live, TypeOK
    <2>3. CASE Forward(r)
      <3>1. /\ ch'[s] = ch[s] /\ fwd'[s] = fwd[s] /\ held'[s] = held[s]
        BY <1>0, <1>3, <2>3 DEF Forward, TypeOK
      <3> QED BY <2>3, <3>1 DEF Forward, Same, Live
    <2>4. CASE SendOut(r) \/ ForwardEnds(r)
      BY <1>0, <1>3, <2>4 DEF SendOut, ForwardEnds, Same, Live, TypeOK
    <2> QED BY <1>3, <2>1, <2>2, <2>3, <2>4 DEF ForwardStep
  <1>4. ASSUME NEW r \in Subs, r # s, WriteEvent(r)
        PROVE  Same(s) /\ UNCHANGED <<send[s], srv[s]>> /\ Live(s)
    <2>1. enqueue(r, Head(out[r])) /\ \A m : enqueue(r, m) =>
             /\ send'[s] = send[s] /\ wire'[s] = wire[s] /\ after'[s] = after[s]
             /\ cancelled \subseteq cancelled'
      BY <1>0, <1>4 DEF WriteEvent, enqueue, shutdown, TypeOK
    <2> QED BY <1>0, <1>4, <2>1 DEF WriteEvent, forwarding, Same, Live, TypeOK
  <1>5. ASSUME NEW r \in Subs, r # s, Deregister(r) \/ CloseDone(r) \/ Finished(r)
        PROVE  Same(s) /\ UNCHANGED <<send[s], srv[s]>> /\ Live(s)
    BY <1>0, <1>5 DEF Deregister, CloseDone, Finished, forwarding, Same, Live, TypeOK
  <1>6. ASSUME NEW r \in Subs, r # s, WriteFrame(r) \/ Disconnect(r)
        PROVE  Same(s) /\ UNCHANGED <<send[s], srv[s]>> /\ Live(s)
    BY <1>0, <1>6 DEF WriteFrame, Disconnect, shutdown, forwarding, Same, Live, TypeOK
  <1>7. CASE UNCHANGED vars
    BY <1>7 DEF vars, forwarding, Same, Live
  <1> QED
    BY <1>1, <1>2, <1>3, <1>4, <1>5, <1>6, <1>7 DEF Next, AppendStep, ServerStep, OffTheLog

(* An event moves from one place of a subscription to the next.               *)
LEMMA StreamsNext ==
    ASSUME StreamInv, [Next]_vars, NEW s \in Subs, Live(s)'
    PROVE  OnePlace(s)'
  <1>0. /\ TypeOK /\ TypeOK' /\ OneConnection /\ OneConnection' /\ AppendOrder
        /\ Appended /\ Appended' /\ (Live(s) => OnePlace(s))
        /\ log \in Nat /\ log' \in Nat /\ log <= log' /\ LastSeen \in 0..log
        /\ \A n \in Seqs : Live(s) /\ Handed(n, s) => Handed(n, s)'
        /\ s \notin cancelled' /\ srv'[s] = "run"
        /\ MaxEvents \in Nat /\ \A n \in Seqs : n \in Nat \ {0}
    <2>1. AppendOrder' /\ log <= log'
      BY AppendOrderNext
    <2>2. log' \in Nat
      BY <2>1, LogNext
    <2> QED BY <2>1, <2>2, StreamTypes, OneConnectionNext, AppendedNext, LogIs, LastSeenIs, HandedStays, SMTT(30)
            DEF StreamInv, Live, Seqs, Appended
  <1>1. /\ held[s] \in 0..MaxEvents /\ high[s] \in Nat /\ after[s] \in Nat
        /\ wire[s] \in Seq(Seqs) /\ out[s] \in Seq(Seqs) /\ ch[s] \in Seq(Seqs)
        /\ replay[s] \in Seq(Seqs) /\ Len(replay[s]) \in Nat
        /\ \A n \in Passed(s) : n \in Nat \ {0}
    BY <1>0, SMTT(30) DEF TypeOK, Passed
  <1>2. CASE Same(s) /\ UNCHANGED <<send[s], srv[s]>> /\ Live(s)
    <2>1. Passed(s)' = Passed(s)
      BY <1>2 DEF Passed, Same
    <2>2. high'[s] <= log'
      BY <1>0, <1>1, <1>2 DEF OnePlace, Same
    <2> QED BY <1>0, <1>2, <2>1, <2>2 DEF OnePlace, Same, Passed
  <1>3. ASSUME NEW n \in Seqs, Deliver(n, s)
        PROVE  OnePlace(s)'
    <2>1. Live(s) /\ OnePlace(s)
      BY <1>0, <1>3 DEF Deliver, Live
    <2>2. s \notin done
      BY <1>0, <2>1 DEF OneConnection, Live
    <2>3. /\ ch' = [ch EXCEPT ![s] = Append(@, n)] /\ s \in targets[n]
          /\ UNCHANGED <<out, fwd, replay, held, high, after, wire>>
      BY <1>3, <2>2 DEF Deliver, forwarding
    <2>4. Handed(n, s)'
      <3>1. app[n] = "sending"
        BY <1>0, <2>3 DEF AppendOrder
      <3> QED BY <1>0, <1>3, <3>1 DEF Deliver, Handed, TypeOK
    <2>5. ~In(n, ch[s]) /\ \A m \in Passed(s) : m > high[s] => m # n
      BY <2>1, <2>3 DEF OnePlace, Handed, Passed
    <2>6. /\ Single(ch'[s]) /\ \A m : In(m, ch'[s]) <=> In(m, ch[s]) \/ m = n
      BY <1>0, <2>1, <2>3, <2>5, InPushed DEF OnePlace, TypeOK
    <2>7. Passed(s)' = Passed(s) /\ high'[s] <= log'
      BY <1>0, <1>1, <2>1, <2>3 DEF Passed, OnePlace
    <2>8. \A m \in Passed(s) : m \in Seqs
      BY DEF Passed
    <2> QED BY <1>0, <2>1, <2>3, <2>4, <2>5, <2>6, <2>7, <2>8 DEF OnePlace
  <1>4. CASE Subscribe(s)
    <2>1. /\ srv[s] = "none" /\ UNCHANGED <<ch, out, held, wire>>
          /\ high' = [high EXCEPT ![s] = log] /\ after' = [after EXCEPT ![s] = LastSeen]
          /\ fwd' = [fwd EXCEPT ![s] = "replay"] /\ UNCHANGED <<app, targets>>
          /\ replay' = [replay EXCEPT ![s] = [k \in 1..(log - LastSeen) |-> LastSeen + k]]
      BY <1>4 DEF Subscribe, Snapshot, appending
    <2>2. ch'[s] = <<>> /\ out'[s] = <<>> /\ held'[s] = 0 /\ wire'[s] = <<>>
      BY <1>0, <2>1 DEF OneConnection
    <2>3. Passed(s)' = {} /\ Single(<<>>) /\ \A n : ~In(n, <<>>)
      BY <1>0, <2>2 DEF Passed, In, Single
    <2>4. /\ high'[s] = log /\ after'[s] = LastSeen /\ fwd'[s] = "replay"
          /\ replay'[s] = [k \in 1..(log - LastSeen) |-> LastSeen + k] /\ log' = log
      BY <1>0, <2>1 DEF TypeOK, log, Events
    <2>5. /\ Len(replay'[s]) = log - LastSeen
          /\ \A i \in 1..(log - LastSeen) : replay'[s][i] = log - (log - LastSeen) + i
      <3>1. log - LastSeen \in Nat /\ log - (log - LastSeen) = LastSeen
        BY <1>0
      <3> QED BY <2>4, <3>1
    <2>6. LastSeen <= log /\ LastSeen <= log - (log - LastSeen)
      BY <1>0
    <2>7. /\ Single(wire'[s]) /\ Single(out'[s]) /\ Single(ch'[s])
          /\ \A n \in Seqs : ~In(n, wire'[s]) /\ ~In(n, out'[s]) /\ ~In(n, ch'[s])
      BY <2>2, <2>3
    <2>8. /\ after'[s] <= high'[s] /\ high'[s] <= log'
          /\ \A i \in 1..Len(replay'[s]) : replay'[s][i] = high'[s] - Len(replay'[s]) + i
          /\ after'[s] <= high'[s] - Len(replay'[s])
      BY <1>0, <2>4, <2>5, <2>6
    <2> QED BY <2>2, <2>3, <2>4, <2>7, <2>8 DEF OnePlace
  <1>5. CASE Replay(s)
    <2>1. /\ Live(s) /\ OnePlace(s) /\ UNCHANGED <<ch, held, high, after, wire, app, targets>>
          /\ fwd[s] = "replay" /\ held[s] = 0 /\ log' = log
      BY <1>0, <1>5 DEF Replay, Live, OnePlace, appending, log, Events
    <2>2. CASE fwd' = [fwd EXCEPT ![s] = "live"] /\ UNCHANGED <<out, replay>>
      <3>1. fwd'[s] = "live" /\ Passed(s)' = Passed(s)
        BY <1>0, <2>1, <2>2 DEF TypeOK, Passed
      <3> QED BY <1>0, <2>1, <2>2, <3>1 DEF OnePlace, Handed
    <2>3. CASE /\ replay[s] # <<>> /\ out' = [out EXCEPT ![s] = Append(@, Head(replay[s]))]
               /\ replay' = [replay EXCEPT ![s] = Tail(@)] /\ UNCHANGED fwd
      <3> DEFINE h == Head(replay[s])
      <3>1. /\ h \in Seqs /\ h = replay[s][1]
            /\ Len(replay[s]) \in Nat \ {0} /\ Len(replay'[s]) = Len(replay[s]) - 1
            /\ \A i \in 1..(Len(replay[s]) - 1) : replay'[s][i] = replay[s][i + 1]
        BY <1>0, <2>3, Popped DEF TypeOK
      <3>2. /\ \A i \in 1..Len(replay[s]) : replay[s][i] = high[s] - Len(replay[s]) + i
            /\ after[s] <= high[s] - Len(replay[s])
            /\ \A n \in Passed(s) : n <= high[s] - Len(replay[s])
        BY <2>1 DEF OnePlace
      <3> HIDE DEF h
      <3>3. h = high[s] - Len(replay[s]) + 1 /\ h > after[s] /\ h <= high[s]
        BY <1>1, <3>1, <3>2
      <3>4. h \notin Passed(s)
        BY <1>1, <3>1, <3>2, <3>3
      <3>5. ~In(h, out[s]) /\ ~In(h, wire[s])
        BY <3>1, <3>4 DEF Passed
      <3>6. Single(out'[s]) /\ \A m : In(m, out'[s]) <=> In(m, out[s]) \/ m = h
        BY <1>0, <2>1, <2>3, <3>1, <3>5, InPushed, ZenonT(30) DEF OnePlace, TypeOK, h
      <3>7. Passed(s)' = Passed(s) \cup {h}
        BY <2>1, <3>1, <3>6 DEF Passed
      <3>8. \A n \in Passed(s)' : n > after[s] /\ n <= high[s] - Len(replay'[s])
        BY <1>1, <2>1, <3>1, <3>2, <3>3, <3>7 DEF OnePlace
      <3>9. \A n \in Passed(s)' : ~(n > high[s])
        BY <1>1, <3>1, <3>2, <3>3, <3>7
      <3>10. \A i \in 1..Len(replay'[s]) : replay'[s][i] = high[s] - Len(replay'[s]) + i
        <4>1. ASSUME NEW i \in 1..Len(replay'[s])
              PROVE  replay'[s][i] = high[s] - Len(replay'[s]) + i
          <5>1. i + 1 \in 1..Len(replay[s]) /\ i \in 1..(Len(replay[s]) - 1)
            BY <3>1, <4>1
          <5>2. replay'[s][i] = high[s] - Len(replay[s]) + (i + 1)
            BY <3>1, <3>2, <5>1
          <5>3. i \in Nat /\ Len(replay[s]) \in Nat /\ high[s] \in Nat
            BY <1>1, <3>1, <5>1
          <5> QED BY <3>1, <5>2, <5>3, SMTT(30)
        <4> QED BY <4>1
      <3>11. after[s] <= high[s] - Len(replay'[s])
        BY <1>1, <3>1, <3>2
      <3>12. \A n \in Seqs : In(n, wire[s]) => n # h
        BY <3>5
      <3>13. \A n \in Seqs : held[s] # n
        BY <1>0, <2>1
      <3> QED
        BY <1>0, <2>1, <2>3, <3>6, <3>8, <3>9, <3>10, <3>11, <3>12, <3>13 DEF OnePlace, Handed
    <2> QED BY <1>5, <2>2, <2>3 DEF Replay
  <1>6. CASE Forward(s)
    <2> DEFINE h == Head(ch[s])
    <2>1. /\ Live(s) /\ OnePlace(s) /\ UNCHANGED <<out, replay, high, after, wire, app, targets>>
          /\ fwd[s] = "live" /\ held[s] = 0 /\ log' = log
          /\ ch[s] # <<>> /\ ch' = [ch EXCEPT ![s] = Tail(@)]
      BY <1>0, <1>6 DEF Forward, Live, OnePlace, appending, log, Events
    <2>2. /\ h \in Seqs /\ \A m : In(m, ch[s]) <=> In(m, ch'[s]) \/ m = h
          /\ Single(ch'[s]) /\ ~In(h, ch'[s])
      BY <1>0, <2>1, Popped, InPopped DEF OnePlace, TypeOK
    <2>3. CASE UNCHANGED <<fwd, held>>
      <3>1. Passed(s)' = Passed(s)
        BY <2>1, <2>3 DEF Passed
      <3> QED BY <1>0, <2>1, <2>2, <2>3, <3>1 DEF OnePlace, Handed
    <2>4. CASE ~(h <= high[s]) /\ fwd' = [fwd EXCEPT ![s] = "send"] /\ held' = [held EXCEPT ![s] = h]
      <3> HIDE DEF h
      <3>1. fwd'[s] = "send" /\ held'[s] = h /\ h > high[s] /\ h # 0
        BY <1>0, <1>1, <2>2, <2>4 DEF TypeOK
      <3>2. h \notin Passed(s) /\ h > after[s]
        BY <1>0, <1>1, <2>1, <2>2, <3>1 DEF OnePlace
      <3>3. ~In(h, wire[s]) /\ ~In(h, out[s])
        BY <2>2, <3>2 DEF Passed
      <3>4. Passed(s)' = Passed(s) \cup {h}
        BY <1>0, <2>1, <2>2, <3>1 DEF Passed
      <3>5. \A n \in Seqs : n = h => Handed(n, s)'
        BY <1>0, <2>1, <2>2 DEF OnePlace
      <3>6. \A n \in Passed(s)' : /\ n > after[s]
                                  /\ n > high[s] => Handed(n, s)' /\ ~In(n, ch'[s])
        <4>1. \A n \in Passed(s) : n \in Seqs
          BY DEF Passed
        <4> QED BY <1>0, <2>1, <2>2, <3>2, <3>4, <3>5, <4>1 DEF OnePlace
      <3>7. \A n \in Seqs : /\ In(n, wire[s]) => ~In(n, out[s]) /\ n # h
                            /\ In(n, out[s]) => n # h
                            /\ In(n, ch'[s]) => Handed(n, s)'
        BY <1>0, <2>1, <2>2, <3>3 DEF OnePlace
      <3> QED BY <2>1, <2>2, <3>1, <3>6, <3>7 DEF OnePlace
    <2> QED BY <1>6, <2>3, <2>4 DEF Forward
  <1>7. CASE SendOut(s)
    <2>1. /\ Live(s) /\ OnePlace(s) /\ UNCHANGED <<ch, replay, high, after, wire, app, targets>>
          /\ fwd[s] = "send" /\ held[s] \in Seqs /\ log' = log
          /\ out' = [out EXCEPT ![s] = Append(@, held[s])]
          /\ fwd'[s] = "live" /\ held'[s] = 0
      BY <1>0, <1>7 DEF SendOut, Live, OnePlace, appending, log, Events, Appended, TypeOK
    <2>2. ~In(held[s], out[s]) /\ ~In(held[s], wire[s])
      BY <2>1 DEF OnePlace
    <2>3. Single(out'[s]) /\ \A m : In(m, out'[s]) <=> In(m, out[s]) \/ m = held[s]
      <3> DEFINE h == held[s]
      <3>1. h \in Seqs /\ ~In(h, out[s]) /\ Single(out[s]) /\ out \in [Subs -> Seq(Seqs)]
        BY <1>0, <2>1, <2>2 DEF OnePlace, TypeOK
      <3>2. out' = [out EXCEPT ![s] = Append(@, h)]
        BY <2>1
      <3> HIDE DEF h
      <3>3. Single(out'[s]) /\ \A m : In(m, out'[s]) <=> In(m, out[s]) \/ m = h
        BY <3>1, <3>2, InPushed
      <3> QED BY <3>3 DEF h
    <2>4. Passed(s)' = Passed(s)
      BY <1>0, <2>1, <2>3 DEF Passed
    <2>5. \A n \in Seqs : held'[s] # n
      BY <1>0, <2>1
    <2> QED BY <1>0, <2>1, <2>2, <2>3, <2>4, <2>5 DEF OnePlace, Handed
  <1>8. CASE WriteEvent(s)
    <2> DEFINE h == Head(out[s])
    <2>1. /\ out[s] # <<>> /\ out' = [out EXCEPT ![s] = Tail(@)] /\ srv[s] = "run"
          /\ UNCHANGED <<ch, held, replay, high, fwd, app, targets>> /\ log' = log
      BY <1>8 DEF WriteEvent, appending, forwarding, log, Events
    <2>2. s \notin cancelled /\ wire' = [wire EXCEPT ![s] = Append(@, h)] /\ after' = after
      BY <1>0, <1>8 DEF WriteEvent, enqueue, shutdown
    <2>3. Live(s) /\ OnePlace(s)
      BY <1>0, <2>1, <2>2 DEF Live
    <2>4. /\ h \in Seqs /\ \A m : In(m, out[s]) <=> In(m, out'[s]) \/ m = h
          /\ Single(out'[s]) /\ ~In(h, out'[s])
      BY <1>0, <2>1, <2>3, Popped, InPopped, ZenonT(30) DEF OnePlace, TypeOK
    <2>5. ~In(h, wire[s])
      BY <2>3, <2>4 DEF OnePlace
    <2>6. Single(wire'[s]) /\ \A m : In(m, wire'[s]) <=> In(m, wire[s]) \/ m = h
      <3> HIDE DEF h
      <3> QED BY <1>0, <2>2, <2>3, <2>4, <2>5, InPushed DEF OnePlace, TypeOK
    <2> HIDE DEF h
    <2>7. Passed(s)' = Passed(s)
      BY <2>1, <2>4, <2>6 DEF Passed
    <2>8. \A n \in Seqs : /\ In(n, wire'[s]) => ~In(n, out'[s]) /\ held[s] # n
                          /\ In(n, out'[s]) => held[s] # n
      BY <2>3, <2>4, <2>6 DEF OnePlace
    <2> QED BY <1>0, <2>1, <2>2, <2>3, <2>4, <2>6, <2>7, <2>8 DEF OnePlace, Handed
  <1>9. CASE WriteFrame(s)
    <2>1. /\ Live(s) /\ OnePlace(s) /\ log' = log
          /\ UNCHANGED <<wire, out, ch, held, replay, high, after, fwd, app, targets>>
      BY <1>0, <1>9 DEF WriteFrame, appending, forwarding, Live, log, Events
    <2> QED BY <1>0, <2>1 DEF OnePlace, Handed, Passed
  <1>10. ~ForwardEnds(s)
    BY <1>0 DEF ForwardEnds, OneConnection, TypeOK
  <1>11. ~Deregister(s) /\ ~CloseDone(s) /\ ~Finished(s) /\ ~Disconnect(s)
    BY <1>0 DEF Deregister, CloseDone, Finished, Disconnect, shutdown, TypeOK
  <1> QED
    BY <1>0, <1>2, <1>3, <1>4, <1>5, <1>6, <1>7, <1>8, <1>9, <1>10, <1>11, OthersStay
    DEF OffTheLog, ForwardStep, ServerStep

--------------------------------------------------------------------------------
(* No gaps, as long as appends do not overlap.                                 *)

(* An overlap is remembered.                                                   *)
LEMMA OverlapStays ==
    ASSUME [Next]_vars, overlap
    PROVE  overlap'
  <1>1. ASSUME NEW n \in Seqs, AppendRemediationEvent(n) \/ AppendStep(n)
        PROVE  overlap'
    BY <1>1 DEF AppendRemediationEvent, AppendStep, fanout, Deliver
  <1>2. ASSUME NEW s \in Subs, OffTheLog(s)
        PROVE  overlap'
    BY <1>2 DEF OffTheLog, ForwardStep, ServerStep, Subscribe, Replay, Forward, SendOut,
                ForwardEnds, WriteEvent, Deregister, CloseDone, Finished, WriteFrame,
                Disconnect
  <1>3. CASE UNCHANGED vars
    BY <1>3 DEF vars
  <1> QED BY <1>1, <1>2, <1>3 DEF Next, OffTheLog

(* What was last handed to a subscription changes with Deliver only.           *)
LEMMA LastHandedStays ==
    ASSUME StreamInv, [Next]_vars, ~overlap', NEW s \in Subs, Live(s)
    PROVE  /\ (\A n \in Seqs : ~Deliver(n, s)) => LastHanded(s)' = LastHanded(s)
           /\ \A n \in Seqs : Deliver(n, s) =>
                  /\ n = log /\ LastHanded(s) = log - 1 /\ LastHanded(s)' = log
  <1>0. /\ TypeOK /\ AppendOrder /\ OneConnection /\ log \in Nat /\ Events = 1..log
        /\ ~overlap /\ \A n \in Appending : n = log
        /\ \A n \in Seqs : app[n] # "none" <=> n <= log
    BY LogIs, OverlapStays DEF StreamInv, AppendOrder
  <1>1. ASSUME NEW n \in Seqs, AppendRemediationEvent(n)
        PROVE  LastHanded(s)' = LastHanded(s)
    <2>1. /\ n = log + 1 /\ app' = [app EXCEPT ![n] = "persisted"] /\ Appending = {}
      BY <1>0, <1>1 DEF AppendRemediationEvent
    <2>2. ~Owed(s) /\ Owed(s)'
      <3>1. n \in Appending' /\ app'[n] = "persisted"
        BY <1>0, <2>1 DEF Appending, TypeOK
      <3> QED BY <2>1, <3>1 DEF Owed
    <2>3. log' = log + 1
      <3>1. Events' = 1..(log + 1)
        <4>1. Events' = Events \cup {n}
          BY <1>0, <2>1 DEF Events, TypeOK
        <4> QED BY <1>0, <2>1, <4>1
      <3>2. log + 1 \in Nat
        BY <1>0
      <3> DEFINE L == log + 1
      <3> HIDE DEF L
      <3>3. Cardinality(1..L) = L
        BY <3>2, FS_Interval DEF L
      <3> QED BY <3>1, <3>3 DEF log, L
    <2> QED BY <1>0, <2>2, <2>3 DEF LastHanded
  <1>2. ASSUME NEW n \in Seqs, fanout(n)
        PROVE  LastHanded(s)' = LastHanded(s)
    <2>1. s \in subs
      BY <1>0 DEF Live, OneConnection
    <2>2. /\ app[n] = "persisted" /\ app' = [app EXCEPT ![n] = "sending"]
          /\ targets' = [targets EXCEPT ![n] = subs]
      BY <1>2, <2>1 DEF fanout
    <2>3. Owed(s) /\ Owed(s)' /\ Events' = Events
      BY <1>0, <2>1, <2>2 DEF Owed, Appending, Events, TypeOK
    <2> QED BY <2>3 DEF LastHanded, log
  <1>3. ASSUME NEW n \in Seqs, NEW r \in Subs, Deliver(n, r)
        PROVE  /\ r # s => LastHanded(s)' = LastHanded(s)
               /\ r = s => /\ n = log /\ log' = log
                           /\ LastHanded(s) = log - 1 /\ LastHanded(s)' = log
    <2>1. /\ r \in targets[n] /\ app[n] = "sending"
          /\ targets' = [targets EXCEPT ![n] = @ \ {r}]
          /\ app' = [app EXCEPT ![n] = IF targets[n] = {r} THEN "done" ELSE @]
      BY <1>0, <1>3 DEF Deliver, AppendOrder
    <2>2. n \in Appending /\ n = log /\ \A m \in Appending : m = n
      BY <1>0, <2>1 DEF Appending
    <2>3. Events' = Events /\ log' = log
      <3>1. Events' = Events
        BY <1>0, <2>1 DEF Events, TypeOK
      <3> QED BY <3>1 DEF log
    <2>4. Owed(s) <=> s \in targets[n]
      BY <2>1, <2>2 DEF Owed
    <2>5. \A m \in Appending' : m = n
      BY <1>0, <2>1, <2>2 DEF Appending, TypeOK
    <2>6. Owed(s)' <=> s \in targets'[n]
      <3>1. app'[n] # "persisted"
        BY <1>0, <2>1 DEF TypeOK
      <3>2. s \in targets'[n] => app'[n] = "sending"
        BY <1>0, <2>1 DEF TypeOK
      <3> QED BY <2>5, <3>1, <3>2 DEF Owed, Appending
    <2>7. s \in targets'[n] <=> s \in targets[n] /\ s # r
      BY <1>0, <2>1 DEF TypeOK
    <2> QED BY <2>1, <2>2, <2>3, <2>4, <2>6, <2>7 DEF LastHanded
  <1>4. ASSUME UNCHANGED <<app, targets>>
        PROVE  LastHanded(s)' = LastHanded(s)
    BY <1>4 DEF LastHanded, Owed, log, Events, Appending
  <1>5. ASSUME NEW r \in Subs, OffTheLog(r)
        PROVE  UNCHANGED <<app, targets>>
    BY <1>5 DEF OffTheLog, ForwardStep, ServerStep, Subscribe, Replay, Forward, SendOut,
                ForwardEnds, WriteEvent, Deregister, CloseDone, Finished, WriteFrame,
                Disconnect, appending
  <1>6. ASSUME UNCHANGED vars
        PROVE  UNCHANGED <<app, targets>>
    BY <1>6 DEF vars, appending
  <1> QED BY <1>1, <1>2, <1>3, <1>4, <1>5, <1>6 DEF Next, AppendStep, OffTheLog

(* A frame reaches the phone over the connection that is up, and the events    *)
(* the phone has stay without a gap.                                           *)
LEMMA SeenNext ==
    ASSUME StreamInv, [Next]_vars, ~overlap'
    PROVE  /\ (\E k \in 0..MaxEvents : seen = 1..k)'
           /\ seen' = seen \/ \E s \in Subs : Live(s) /\ WriteFrame(s)
  <1>0. /\ TypeOK /\ OneConnection /\ ~overlap /\ MaxEvents \in Nat
        /\ \A s \in Subs : Live(s) => GapFree(s)
    BY OverlapStays, StreamAssumption DEF StreamInv
  <1>1. seen' = seen \/ \E s \in Subs : WriteFrame(s)
    <2>1. ASSUME NEW n \in Seqs, AppendRemediationEvent(n) \/ AppendStep(n)
          PROVE  seen' = seen
      BY <2>1 DEF AppendRemediationEvent, AppendStep, fanout, Deliver
    <2>2. ASSUME NEW s \in Subs, Subscribe(s) \/ ForwardStep(s) \/ ServerStep(s) \/ Disconnect(s)
          PROVE  seen' = seen
      BY <2>2 DEF ForwardStep, ServerStep, Subscribe, Replay, Forward, SendOut,
                  ForwardEnds, WriteEvent, Deregister, CloseDone, Finished, Disconnect
    <2>3. CASE UNCHANGED vars
      BY <2>3 DEF vars
    <2> QED BY <2>1, <2>2, <2>3 DEF Next
  <1>2. ASSUME NEW s \in Subs, WriteFrame(s)
        PROVE  Live(s) /\ \E k \in 0..MaxEvents : seen' = 1..k
    <2>1. send[s] # <<>> /\ seen' = seen \cup {Head(send[s])}
      BY <1>2 DEF WriteFrame
    <2>2. Live(s) /\ GapFree(s)
      BY <1>0, <2>1 DEF OneConnection, Live
    <2>3. /\ Head(send[s]) = send[s][1] /\ Len(send[s]) \in Nat \ {0}
          /\ Head(send[s]) \in Seqs
      BY <1>0, <2>1, Popped DEF TypeOK
    <2>4. after[s] \in Nat /\ Len(wire[s]) \in Nat
      <3>1. wire[s] \in Seq(Seqs) /\ after[s] \in 0..MaxEvents
        BY <1>0 DEF TypeOK
      <3> QED BY <1>0, <3>1
    <2> DEFINE k == after[s] + Len(wire[s]) - Len(send[s])
    <2>5. seen = 1..k /\ Head(send[s]) = k + 1 /\ k \in Nat
      <3>1. /\ seen = 1..k /\ Len(send[s]) <= Len(wire[s])
            /\ \A i \in 1..Len(send[s]) : send[s][i] = k + i
        BY <2>2 DEF GapFree, Sending
      <3>2. k \in Nat
        <4>1. Len(send[s]) <= Len(wire[s])
          BY <3>1
        <4>2. Len(send[s]) \in Nat
          BY <2>3
        <4>3. \A a, b, c \in Nat : c <= b => a + b - c \in Nat
          OBVIOUS
        <4> QED BY <2>4, <4>1, <4>2, <4>3
      <3> HIDE DEF k
      <3>3. 1 \in 1..Len(send[s])
        BY <2>3
      <3> QED BY <2>3, <3>1, <3>2, <3>3
    <2> HIDE DEF k
    <2>6. k + 1 \in 0..MaxEvents /\ seen' = 1..(k + 1)
      BY <1>0, <2>1, <2>3, <2>5 DEF Seqs
    <2> QED BY <2>2, <2>6
  <1>3. CASE seen' = seen
    BY <1>0, <1>3 DEF StreamInv
  <1> QED BY <1>1, <1>2, <1>3

(* Whatever steps, the connection that is up is served without a gap.          *)
LEMMA GapNext ==
    ASSUME StreamInv, [Next]_vars, ~overlap', NEW s \in Subs, Live(s)'
    PROVE  GapFree(s)'
  <1> DEFINE W == Len(wire[s])
             O == Len(out[s])
             C == Len(ch[s])
             Q == Len(send[s])
             R == Len(replay[s])
             A == after[s]
             H == high[s]
             L == LastHanded(s)
  <1>0. /\ TypeOK /\ TypeOK' /\ OneConnection /\ OneConnection' /\ AppendOrder /\ Appended
        /\ (Live(s) => GapFree(s) /\ OnePlace(s))
        /\ log \in Nat /\ log' \in Nat /\ LastSeen \in 0..log
        /\ (\E k \in Nat : seen = 1..k /\ LastSeen = k)
        /\ s \notin cancelled' /\ srv'[s] = "run"
    <2>1. AppendOrder'
      BY AppendOrderNext
    <2>2. log' \in Nat
      BY <2>1, LogNext
    <2>3. ~overlap /\ MaxEvents \in Nat
      BY OverlapStays, StreamAssumption
    <2>4. PICK k \in 0..MaxEvents : seen = 1..k
      BY <2>3 DEF StreamInv
    <2>5. k \in Nat /\ LastSeen = k
      BY <2>3, <2>4, LastSeenIs DEF StreamInv, Appended
    <2>6. TypeOK' /\ OneConnection'
      BY StreamTypes, OneConnectionNext
    <2>7. log \in Nat /\ LastSeen \in 0..log
      BY LogIs, LastSeenIs DEF StreamInv, Appended
    <2> QED BY <2>2, <2>3, <2>4, <2>5, <2>6, <2>7 DEF StreamInv, Live
  <1>1. W \in Nat /\ O \in Nat /\ C \in Nat /\ Q \in Nat /\ R \in Nat /\ A \in Nat /\ H \in Nat
    <2>1. /\ wire[s] \in Seq(Seqs) /\ out[s] \in Seq(Seqs) /\ ch[s] \in Seq(Seqs)
          /\ send[s] \in Seq(Seqs) /\ replay[s] \in Seq(Seqs)
          /\ after[s] \in 0..MaxEvents /\ high[s] \in 0..MaxEvents
      BY <1>0 DEF TypeOK
    <2> QED BY <2>1, SMTT(30)
  <1>2. L \in Int
    BY <1>0 DEF LastHanded
  <1>3. ASSUME Live(s), Same(s), send'[s] = send[s], seen' = seen, LastHanded(s)' = LastHanded(s)
        PROVE  GapFree(s)'
    BY <1>0, <1>3 DEF GapFree, Sending, Reading, Same, Sent, Position
  <1>4. ASSUME NEW r \in Subs, Live(r), WriteFrame(r), Live(s)
        PROVE  r = s
    BY <1>0, <1>4 DEF OneConnection, Live, Subs
  <1>5. ASSUME NEW n \in Seqs, Deliver(n, s)
        PROVE  GapFree(s)'
    <2>1. Live(s) /\ GapFree(s)
      BY <1>0, <1>5 DEF Deliver, Live
    <2>2. /\ ch' = [ch EXCEPT ![s] = Append(@, n)] /\ s \in targets[n]
          /\ UNCHANGED <<out, fwd, replay, held, high, after, wire, send, seen>>
      BY <1>0, <1>5, <2>1 DEF Deliver, forwarding, OneConnection, Live
    <2>3. /\ n = log /\ LastHanded(s) = log - 1 /\ LastHanded(s)' = log
      BY <1>5, <2>1, LastHandedStays
    <2>4. /\ Len(ch'[s]) = C + 1 /\ \A i \in 1..C : ch'[s][i] = ch[s][i]
          /\ ch'[s][C + 1] = n
      BY <1>0, <2>2, Pushed DEF TypeOK
    <2> DEFINE M == log
    <2>5. M \in Nat /\ C \in Nat
      BY <1>0, <1>1
    <2>6. \A i \in 1..C : ch[s][i] = M - 1 - C + i
      BY <2>1, <2>3 DEF GapFree, Reading
    <2>7. \A i \in 1..(C + 1) : ch'[s][i] = M - (C + 1) + i
      <3>1. n = M
        BY <2>3
      <3> HIDE DEF C, M
      <3>2. \A i \in 1..(C + 1) : i \in 1..C \/ i = C + 1
        BY <2>5
      <3>3. \A i \in 1..C : M - 1 - C + i = M - (C + 1) + i
        BY <2>5
      <3>4. M = M - (C + 1) + (C + 1)
        BY <2>5
      <3> QED BY <2>4, <2>6, <3>1, <3>2, <3>3, <3>4
    <2>8. M - (C + 1) = M - 1 - C
      BY <2>5
    <2>9. Sent(s)' = Sent(s) /\ Position(s)' = Position(s)
      BY <2>2 DEF Sent, Position
    <2>10. Sending(s)'
      BY <2>1, <2>2 DEF GapFree, Sending
    <2>11. Reading(s)'
      <3>1. LastHanded(s)' - Len(ch'[s]) = LastHanded(s) - Len(ch[s])
        BY <2>3, <2>4, <2>8
      <3>2. \A i \in 1..Len(ch'[s]) : ch'[s][i] = LastHanded(s)' - Len(ch'[s]) + i
        BY <2>3, <2>4, <2>7
      <3> QED BY <2>1, <2>2, <2>9, <3>1, <3>2 DEF GapFree, Reading
    <2> QED BY <2>10, <2>11 DEF GapFree
  <1>6. CASE Subscribe(s)
    <2>1. /\ srv[s] = "none" /\ UNCHANGED <<ch, out, wire, send, seen, app, targets>>
          /\ high' = [high EXCEPT ![s] = log] /\ after' = [after EXCEPT ![s] = LastSeen]
          /\ fwd' = [fwd EXCEPT ![s] = "replay"]
          /\ replay' = [replay EXCEPT ![s] = [k \in 1..(log - LastSeen) |-> LastSeen + k]]
      BY <1>6 DEF Subscribe, Snapshot, appending
    <2>2. ch'[s] = <<>> /\ out'[s] = <<>> /\ send'[s] = <<>> /\ wire'[s] = <<>>
      BY <1>0, <2>1 DEF OneConnection
    <2>3. Len(ch'[s]) = 0 /\ Len(out'[s]) = 0 /\ Len(send'[s]) = 0 /\ Len(wire'[s]) = 0
      BY <2>2
    <2>4. /\ high'[s] = log /\ after'[s] = LastSeen /\ fwd'[s] = "replay" /\ seen' = 1..LastSeen
          /\ replay'[s] = [k \in 1..(log - LastSeen) |-> LastSeen + k] /\ log' = log
      BY <1>0, <2>1 DEF TypeOK, log, Events
    <2>5. Len(replay'[s]) = log - LastSeen
      <3>1. log - LastSeen \in Nat
        BY <1>0
      <3> QED BY <2>4, <3>1
    <2>6. Sent(s)' = LastSeen /\ Position(s)' = log
      BY <1>0, <2>3, <2>4 DEF Sent, Position
    <2>7. LastHanded(s)' \in Int /\ LastHanded(s)' <= log
      BY <1>0, <2>4 DEF LastHanded
    <2>8. Sending(s)'
      <3>1. LastSeen + 0 - 0 = LastSeen
        BY <1>0
      <3> QED BY <2>3, <2>4, <3>1 DEF Sending
    <2>9. Reading(s)'
      <3>1. LastSeen = log - (log - LastSeen) /\ LastHanded(s)' - 0 <= log
        BY <1>0, <2>7
      <3>2. Sent(s)' = high'[s] - Len(replay'[s])
        BY <2>4, <2>5, <2>6, <3>1
      <3>3. Position(s)' = high'[s] /\ LastHanded(s)' - Len(ch'[s]) <= high'[s]
        BY <2>3, <2>4, <2>6, <3>1
      <3>4. \A i \in 1..Len(ch'[s]) : FALSE
        BY <2>3
      <3>5. fwd'[s] # "send"
        BY <2>4
      <3> QED BY <3>2, <3>3, <3>4, <3>5 DEF Reading
    <2> QED BY <2>8, <2>9 DEF GapFree
  <1>7. ASSUME Live(s), Sending(s)', Reading(s)'
        PROVE  GapFree(s)'
    BY <1>7 DEF GapFree
  <1>8. CASE Replay(s)
    <2>1. /\ Live(s) /\ GapFree(s) /\ fwd[s] = "replay"
          /\ UNCHANGED <<ch, held, high, after, wire, send, seen, app, targets>>
      BY <1>0, <1>8 DEF Replay, Live, appending
    <2>2. LastHanded(s)' = LastHanded(s)
      BY <2>1 DEF LastHanded, Owed, Appending, log, Events
    <2>3. Sent(s) = H - R /\ L - C <= H
      BY <1>1, <1>2, <2>1 DEF GapFree, Reading, Position
    <2>4. CASE replay[s] = <<>> /\ fwd' = [fwd EXCEPT ![s] = "live"] /\ UNCHANGED <<out, replay>>
      <3>1. fwd'[s] = "live" /\ R = 0
        BY <1>0, <2>4 DEF TypeOK
      <3>2. Sent(s)' = H /\ Position(s)' = H
        BY <1>1, <2>1, <2>3, <2>4, <3>1 DEF Sent, Position
      <3>3. Sending(s)'
        BY <2>1, <2>4 DEF GapFree, Sending
      <3>4. Reading(s)'
        BY <2>1, <2>2, <2>3, <3>1, <3>2 DEF GapFree, Reading
      <3> QED BY <1>7, <2>1, <3>3, <3>4
    <2>5. CASE /\ replay[s] # <<>> /\ out' = [out EXCEPT ![s] = Append(@, Head(replay[s]))]
               /\ replay' = [replay EXCEPT ![s] = Tail(@)] /\ UNCHANGED fwd
      <3> DEFINE h == Head(replay[s])
      <3>1. h \in Seqs /\ h = replay[s][1] /\ R \in Nat \ {0} /\ Len(replay'[s]) = R - 1
        BY <1>0, <2>5, Popped DEF TypeOK
      <3>2. h = H - R + 1
        <4>1. replay[s][1] = high[s] - Len(replay[s]) + 1
          BY <1>0, <2>1, <3>1 DEF OnePlace
        <4> QED BY <3>1, <4>1
      <3> HIDE DEF h
      <3>3. /\ Len(out'[s]) = O + 1 /\ \A i \in 1..O : out'[s][i] = out[s][i]
            /\ out'[s][O + 1] = h
        BY <1>0, <2>5, <3>1, Pushed DEF TypeOK, h
      <3>4. Sent(s)' = A + W + (O + 1)
        BY <2>1, <3>3 DEF Sent
      <3>5. h = A + W + (O + 1) /\ A + W + (O + 1) = H - (R - 1)
        <4>1. A + W + O = H - R
          BY <2>3 DEF Sent
        <4> HIDE DEF A, W, O, H, R
        <4> QED BY <1>1, <3>2, <4>1
      <3>6. \A i \in 1..Len(out'[s]) : out'[s][i] = A + W + i
        <4>1. \A i \in 1..O : out[s][i] = A + W + i
          BY <2>1 DEF GapFree, Sending
        <4>2. \A i \in 1..(O + 1) : i \in 1..O \/ i = O + 1
          BY <1>1
        <4> QED BY <3>3, <3>5, <4>1, <4>2
      <3>7. Sending(s)'
        BY <2>1, <3>6 DEF GapFree, Sending
      <3>8. Reading(s)'
        <4>1. Position(s)' = H
          BY <2>1, <2>5 DEF Position
        <4>2. Sent(s)' = H - Len(replay'[s])
          BY <3>1, <3>4, <3>5
        <4> QED BY <2>1, <2>2, <2>3, <2>5, <4>1, <4>2 DEF GapFree, Reading
      <3> QED BY <1>7, <2>1, <3>7, <3>8
    <2> QED BY <1>8, <2>4, <2>5 DEF Replay
  <1>9. CASE Forward(s)
    <2> DEFINE h == Head(ch[s])
    <2>1. /\ Live(s) /\ GapFree(s) /\ fwd[s] = "live"
          /\ ch[s] # <<>> /\ ch' = [ch EXCEPT ![s] = Tail(@)]
          /\ UNCHANGED <<out, replay, high, after, wire, send, seen, app, targets>>
      BY <1>0, <1>9 DEF Forward, Live, appending
    <2>2. LastHanded(s)' = LastHanded(s)
      BY <2>1 DEF LastHanded, Owed, Appending, log, Events
    <2>3. /\ h \in Seqs /\ h = ch[s][1] /\ C \in Nat \ {0} /\ Len(ch'[s]) = C - 1
          /\ \A i \in 1..(C - 1) : ch'[s][i] = ch[s][i + 1]
      BY <1>0, <2>1, Popped DEF TypeOK
    <2>4. \A i \in 1..C : ch[s][i] = L - C + i
      BY <2>1 DEF GapFree, Reading
    <2>5. /\ Position(s) = Sent(s)
          /\ \/ Sent(s) = H /\ L - C <= H
             \/ Sent(s) > H /\ L - C = Sent(s)
      BY <2>1 DEF GapFree, Reading, Position
    <2>6. Sent(s) \in Nat
      BY <1>1 DEF Sent
    <2>7. Sending(s)' /\ Sent(s)' = Sent(s)
      BY <2>1 DEF GapFree, Sending, Sent
    <2> HIDE DEF h
    <2>8. h = L - C + 1 /\ \A i \in 1..(C - 1) : ch'[s][i] = L - (C - 1) + i
      <3> HIDE DEF L, C
      <3>1. 1 \in 1..C
        BY <2>3
      <3>2. h = L - C + 1
        BY <2>3, <2>4, <3>1
      <3>3. ASSUME NEW i \in 1..(C - 1)
            PROVE  ch'[s][i] = L - (C - 1) + i
        <4>1. i + 1 \in 1..C /\ L - C + (i + 1) = L - (C - 1) + i
          BY <1>2, <2>3
        <4> QED BY <2>3, <2>4, <4>1
      <3> QED BY <3>2, <3>3
    <2>9. \A i \in 1..Len(ch'[s]) : ch'[s][i] = LastHanded(s)' - Len(ch'[s]) + i
      BY <2>2, <2>3, <2>8
    <2>10. LastHanded(s)' - Len(ch'[s]) = h
      <3>1. L - (C - 1) = L - C + 1
        BY <1>1, <1>2
      <3> QED BY <2>2, <2>3, <2>8, <3>1
    <2>11. CASE h <= high[s] /\ UNCHANGED <<fwd, held>>
      <3>1. Position(s)' = Sent(s)
        BY <2>1, <2>7, <2>11 DEF Position
      <3>2. Sent(s) = H
        <4> DEFINE S == Sent(s)
        <4>1. S \in Nat /\ h = L - C + 1 /\ h <= H /\ ((S > H /\ L - C = S) \/ S = H)
          BY <2>5, <2>6, <2>8, <2>11
        <4> HIDE DEF S, L, C, H
        <4>2. S = H
          BY <1>1, <1>2, <4>1
        <4> QED BY <4>2 DEF S
      <3>3. Reading(s)'
        BY <2>1, <2>9, <2>10, <2>11, <3>1, <3>2 DEF Reading
      <3> QED BY <1>7, <2>1, <2>7, <3>3
    <2>12. CASE ~(h <= high[s]) /\ fwd' = [fwd EXCEPT ![s] = "send"] /\ held' = [held EXCEPT ![s] = h]
      <3>1. fwd'[s] = "send" /\ held'[s] = h
        BY <1>0, <2>12 DEF TypeOK
      <3>2. Position(s)' = Sent(s) + 1
        BY <2>7, <3>1 DEF Position
      <3>3. h = Sent(s) + 1 /\ Sent(s) + 1 > H
        <4> DEFINE S == Sent(s)
        <4>1. /\ S \in Nat /\ h = L - C + 1 /\ ~(h <= H) /\ h \in Int
              /\ (S = H /\ L - C <= H) \/ (S > H /\ L - C = S)
          <5>1. h \in Int
            BY <2>3 DEF Seqs
          <5>2. S \in Nat /\ h = L - C + 1
            BY <2>6, <2>8
          <5>3. (S = H /\ L - C <= H) \/ (S > H /\ L - C = S)
            BY <2>5
          <5>4. ~(h <= H)
            BY <2>12
          <5> QED BY <5>1, <5>2, <5>3, <5>4
        <4> HIDE DEF S, L, C, H
        <4>2. h = S + 1 /\ S + 1 > H
          BY <1>1, <1>2, <4>1
        <4> QED BY <4>2 DEF S
      <3>4. Reading(s)'
        BY <2>1, <2>7, <2>9, <2>10, <3>1, <3>2, <3>3 DEF Reading
      <3> QED BY <1>7, <2>1, <2>7, <3>4
    <2> QED BY <1>9, <2>11, <2>12 DEF Forward, h
  <1>10. CASE SendOut(s)
    <2>1. /\ Live(s) /\ GapFree(s) /\ fwd[s] = "send" /\ held[s] \in Seqs
          /\ UNCHANGED <<ch, replay, high, after, wire, send, seen, app, targets>>
          /\ out' = [out EXCEPT ![s] = Append(@, held[s])] /\ fwd'[s] = "live"
      BY <1>0, <1>10 DEF SendOut, Live, appending, Appended, Events, TypeOK
    <2>2. LastHanded(s)' = LastHanded(s)
      BY <2>1 DEF LastHanded, Owed, Appending, log, Events
    <2>3. /\ Len(out'[s]) = O + 1 /\ \A i \in 1..O : out'[s][i] = out[s][i]
          /\ out'[s][O + 1] = held[s]
      <3> DEFINE h == held[s]
      <3>1. h \in Seqs /\ out' = [out EXCEPT ![s] = Append(@, h)]
        BY <2>1
      <3> HIDE DEF h
      <3>2. /\ Len(out'[s]) = O + 1 /\ \A i \in 1..O : out'[s][i] = out[s][i]
            /\ out'[s][O + 1] = h
        BY <1>0, <3>1, Pushed DEF TypeOK
      <3> QED BY <3>2 DEF h
    <2>4. held[s] = A + W + O + 1 /\ Position(s) = Sent(s) + 1
      BY <2>1 DEF GapFree, Reading, Sent, Position
    <2>5. A + W + O + 1 = A + W + (O + 1)
      <3> HIDE DEF A, W, O
      <3> QED BY <1>1
    <2>6. Sent(s)' = A + W + (O + 1) /\ Sent(s) = A + W + O
      BY <2>1, <2>3 DEF Sent
    <2>7. Position(s)' = Position(s)
      BY <2>1, <2>4, <2>5, <2>6 DEF Position
    <2>8. \A i \in 1..Len(out'[s]) : out'[s][i] = A + W + i
      <3>1. \A i \in 1..O : out[s][i] = A + W + i
        BY <2>1 DEF GapFree, Sending
      <3>2. \A i \in 1..(O + 1) : i \in 1..O \/ i = O + 1
        BY <1>1
      <3> QED BY <2>3, <2>4, <2>5, <3>1, <3>2
    <2>9. Sending(s)'
      BY <2>1, <2>8 DEF GapFree, Sending
    <2>10. Reading(s)'
      BY <2>1, <2>2, <2>7 DEF GapFree, Reading
    <2> QED BY <1>7, <2>1, <2>9, <2>10
  <1>11. CASE WriteEvent(s)
    <2> DEFINE h == Head(out[s])
    <2>1. /\ out[s] # <<>> /\ out' = [out EXCEPT ![s] = Tail(@)] /\ srv[s] = "run"
          /\ UNCHANGED <<ch, held, replay, high, fwd, seen, app, targets>>
      BY <1>11 DEF WriteEvent, appending, forwarding
    <2>2. /\ s \notin cancelled /\ wire' = [wire EXCEPT ![s] = Append(@, h)]
          /\ send' = [send EXCEPT ![s] = Append(@, h)] /\ after' = after
      BY <1>0, <1>11 DEF WriteEvent, enqueue, shutdown
    <2>3. Live(s) /\ GapFree(s)
      BY <1>0, <2>1, <2>2 DEF Live
    <2>4. LastHanded(s)' = LastHanded(s)
      BY <2>1 DEF LastHanded, Owed, Appending, log, Events
    <2>5. /\ h \in Seqs /\ h = out[s][1] /\ O \in Nat \ {0} /\ Len(out'[s]) = O - 1
          /\ \A i \in 1..(O - 1) : out'[s][i] = out[s][i + 1]
      BY <1>0, <2>1, Popped DEF TypeOK
    <2> HIDE DEF h
    <2>6. /\ Len(wire'[s]) = W + 1 /\ \A i \in 1..W : wire'[s][i] = wire[s][i]
          /\ wire'[s][W + 1] = h
      BY <1>0, <2>2, <2>5, Pushed DEF TypeOK
    <2>7. /\ Len(send'[s]) = Q + 1 /\ \A i \in 1..Q : send'[s][i] = send[s][i]
          /\ send'[s][Q + 1] = h
      BY <1>0, <2>2, <2>5, Pushed DEF TypeOK
    <2>8. /\ \A i \in 1..W : wire[s][i] = A + i
          /\ \A i \in 1..O : out[s][i] = A + W + i
          /\ Q <= W /\ \A i \in 1..Q : send[s][i] = A + W - Q + i
          /\ seen = 1..(A + W - Q)
      BY <2>3 DEF GapFree, Sending
    <2>9. Sending(s)'
      <3> HIDE DEF A, W, O, Q
      <3>1. h = A + (W + 1)
        <4>1. 1 \in 1..O /\ A + W + 1 = A + (W + 1)
          BY <1>1, <2>5
        <4> QED BY <2>5, <2>8, <4>1
      <3>2. \A i \in 1..(W + 1) : wire'[s][i] = A + i
        <4>1. \A i \in 1..(W + 1) : i \in 1..W \/ i = W + 1
          BY <1>1
        <4> QED BY <2>6, <2>8, <3>1, <4>1
      <3>3. ASSUME NEW i \in 1..(O - 1)
            PROVE  out'[s][i] = A + (W + 1) + i
        <4>1. i + 1 \in 1..O /\ A + W + (i + 1) = A + (W + 1) + i
          BY <1>1, <2>5
        <4> QED BY <2>5, <2>8, <4>1
      <3>4. A + (W + 1) - (Q + 1) = A + W - Q /\ Q + 1 <= W + 1
        BY <1>1, <2>8
      <3>5. \A i \in 1..(Q + 1) : send'[s][i] = A + (W + 1) - (Q + 1) + i
        <4>1. \A i \in 1..(Q + 1) : i \in 1..Q \/ i = Q + 1
          BY <1>1
        <4>2. A + (W + 1) = A + W - Q + (Q + 1)
          BY <1>1
        <4> QED BY <2>7, <2>8, <3>1, <3>4, <4>1, <4>2
      <3>6. after'[s] = A /\ Len(wire'[s]) = W + 1 /\ Len(send'[s]) = Q + 1 /\ Len(out'[s]) = O - 1
        BY <2>2, <2>5, <2>6, <2>7 DEF A
      <3>7. seen' = 1..(A + (W + 1) - (Q + 1))
        BY <2>1, <2>8, <3>4
      <3> QED BY <3>2, <3>3, <3>4, <3>5, <3>6, <3>7 DEF Sending
    <2>10. Sent(s)' = Sent(s)
      <3>1. A + (W + 1) + (O - 1) = A + W + O
        <4> HIDE DEF A, W, O
        <4> QED BY <1>1, <2>5
      <3> QED BY <2>2, <2>5, <2>6, <3>1 DEF Sent
    <2>11. Position(s)' = Position(s)
      BY <2>1, <2>10 DEF Position
    <2>12. Reading(s)'
      BY <2>1, <2>3, <2>4, <2>10, <2>11 DEF GapFree, Reading
    <2> QED BY <1>7, <2>3, <2>9, <2>12
  <1>12. CASE WriteFrame(s)
    <2> DEFINE h == Head(send[s])
    <2>1. /\ Live(s) /\ GapFree(s) /\ send[s] # <<>> /\ send' = [send EXCEPT ![s] = Tail(@)]
          /\ seen' = seen \cup {h}
          /\ UNCHANGED <<wire, out, ch, held, replay, high, after, fwd, app, targets>>
      BY <1>0, <1>12 DEF WriteFrame, Live, appending, forwarding
    <2>2. LastHanded(s)' = LastHanded(s)
      BY <2>1 DEF LastHanded, Owed, Appending, log, Events
    <2>3. /\ h = send[s][1] /\ Q \in Nat \ {0} /\ Len(send'[s]) = Q - 1
          /\ \A i \in 1..(Q - 1) : send'[s][i] = send[s][i + 1]
      BY <1>0, <2>1, Popped DEF TypeOK
    <2>4. /\ Q <= W /\ \A i \in 1..Q : send[s][i] = A + W - Q + i
          /\ seen = 1..(A + W - Q)
      BY <2>1 DEF GapFree, Sending
    <2>5. Sending(s)'
      <3> HIDE DEF A, W, Q, h
      <3>1. h = A + W - Q + 1 /\ A + W - Q + 1 = A + W - (Q - 1) /\ A + W - Q \in Nat
        <4>1. 1 \in 1..Q /\ A + W - Q \in Nat /\ A + W - Q + 1 = A + W - (Q - 1)
          BY <1>1, <2>3, <2>4, SMTT(30)
        <4> QED BY <2>3, <2>4, <4>1
      <3>2. seen' = 1..(A + W - (Q - 1))
        <4>1. \A k \in Nat : 1..k \cup {k + 1} = 1..(k + 1)
          OBVIOUS
        <4> QED BY <2>1, <2>4, <3>1, <4>1
      <3>3. ASSUME NEW i \in 1..(Q - 1)
            PROVE  send'[s][i] = A + W - (Q - 1) + i
        <4>1. i + 1 \in 1..Q /\ A + W - Q + (i + 1) = A + W - (Q - 1) + i
          BY <1>1, <2>3
        <4> QED BY <2>3, <2>4, <4>1
      <3>4. Q - 1 <= W
        BY <1>1, <2>4
      <3>5. after'[s] = A /\ Len(wire'[s]) = W /\ Len(send'[s]) = Q - 1
        BY <2>1, <2>3 DEF A, W
      <3>6. Len(send'[s]) <= Len(wire'[s])
        BY <3>4, <3>5
      <3>7. seen' = 1..(after'[s] + Len(wire'[s]) - Len(send'[s]))
        BY <3>2, <3>5
      <3>8. \A i \in 1..Len(send'[s]) :
              send'[s][i] = after'[s] + Len(wire'[s]) - Len(send'[s]) + i
        BY <3>3, <3>5
      <3> QED BY <2>1, <3>6, <3>7, <3>8 DEF GapFree, Sending
    <2>6. Sent(s)' = Sent(s) /\ Position(s)' = Position(s)
      BY <2>1 DEF Sent, Position
    <2>7. Reading(s)'
      BY <2>1, <2>2, <2>6 DEF GapFree, Reading
    <2> QED BY <1>7, <2>1, <2>5, <2>7
  <1>13. ~ForwardEnds(s)
    BY <1>0 DEF ForwardEnds, OneConnection, TypeOK
  <1>14. ~Deregister(s) /\ ~CloseDone(s) /\ ~Finished(s) /\ ~Disconnect(s)
    BY <1>0 DEF Deregister, CloseDone, Finished, Disconnect, shutdown, TypeOK
  <1>15. CASE /\ ~OffTheLog(s) /\ \A n \in Seqs : ~Deliver(n, s)
              /\ Same(s) /\ UNCHANGED <<send[s], srv[s]>> /\ Live(s)
    <2>1. LastHanded(s)' = LastHanded(s)
      BY <1>15, LastHandedStays
    <2>2. seen' = seen
      BY <1>4, <1>15, SeenNext DEF OffTheLog
    <2> QED BY <1>3, <1>15, <2>1, <2>2
  <1> QED
    BY <1>5, <1>6, <1>8, <1>9, <1>10, <1>11, <1>12, <1>13, <1>14, <1>15, OthersStay
    DEF OffTheLog, ForwardStep, ServerStep

--------------------------------------------------------------------------------
(* The theorems.                                                               *)

(* Nothing appended, nobody connected.                                        *)
LEMMA InitStream ==
    ASSUME Init
    PROVE  StreamInv
  <1>0. /\ MaxEvents \in Nat /\ MaxConns \in Nat /\ ChanCap \in Nat \ {0} /\ SendCap \in Nat \ {0}
        /\ <<>> \in Seq(Seqs) /\ Len(<<>>) = 0 /\ Events = {}
    BY StreamAssumption DEF Init, Events
  <1>1. \A s \in Subs : /\ Len(ch[s]) = 0 /\ Len(out[s]) = 0 /\ Len(send[s]) = 0
                        /\ Len(replay[s]) = 0 /\ Len(wire[s]) = 0
    BY <1>0 DEF Init
  <1>2. TypeOK
    <2>1. \A n \in 0..MaxEvents : n >= 0
      OBVIOUS
    <2>2. 0 \in 0..MaxEvents /\ 0 <= ChanCap /\ 0 <= SendCap
      BY <1>0
    <2> QED BY <1>0, <1>1, <2>2 DEF Init, TypeOK
  <1>3. OneConnection
    BY DEF Init, OneConnection
  <1>4. AppendOrder
    <2>1. Events = 1..0 /\ 0 \in 0..MaxEvents
      BY <1>0
    <2>2. Appending = {}
      BY DEF Init, Appending
    <2> QED BY <2>1, <2>2 DEF Init, AppendOrder
  <1>5. Appended
    BY <1>1 DEF Init, Appended
  <1>6. \A s \in Subs : ~Live(s)
    BY DEF Init, Live
  <1>7. \E k \in 0..MaxEvents : seen = 1..k
    <2>1. seen = 1..0 /\ 0 \in 0..MaxEvents
      BY <1>0 DEF Init
    <2> QED BY <2>1
  <1> QED BY <1>2, <1>3, <1>4, <1>5, <1>6, <1>7 DEF StreamInv

(* Every step keeps the invariant.                                            *)
LEMMA StreamNext ==
    ASSUME StreamInv, [Next]_vars
    PROVE  StreamInv'
  <1>1. TypeOK' /\ OneConnection' /\ AppendOrder' /\ Appended'
    BY StreamTypes, OneConnectionNext, AppendOrderNext, AppendedNext
  <1>2. \A s \in Subs : Live(s)' => OnePlace(s)'
    BY StreamsNext
  <1>3. ASSUME ~overlap'
        PROVE  (\E k \in 0..MaxEvents : seen = 1..k)' /\ \A s \in Subs : Live(s)' => GapFree(s)'
    BY <1>3, SeenNext, GapNext
  <1> QED BY <1>1, <1>2, <1>3 DEF StreamInv

(* The invariant of the stream holds in every state of every behaviour.        *)
THEOREM StreamInductive == Spec => []StreamInv
  <1>1. Init => StreamInv
    BY InitStream
  <1>2. StreamInv /\ [Next]_vars => StreamInv'
    BY StreamNext
  <1> QED BY <1>1, <1>2, PTL DEF Spec

(* What was queued for a connection that is not up is gone.                    *)
LEMMA NothingOnADeadWire ==
    ASSUME StreamInv, NEW s \in Subs, ~Live(s)
    PROVE  Len(wire[s]) = 0
  <1>1. wire[s] = <<>>
    BY DEF StreamInv, OneConnection, Live
  <1> QED BY <1>1

(* One subscription never sends an event a second time, nor one the phone had  *)
(* asked past: appendEvent and fanout, Subscribe's snapshot with its           *)
(* maxReplayed, and handleRemediationSubscribe's goroutine, in any order.      *)
THEOREM SendsOnce == Spec => []NoDuplicates
  <1>1. ASSUME StreamInv, NEW s \in Subs
        PROVE  /\ \A i, j \in 1..Len(wire[s]) : wire[s][i] = wire[s][j] => i = j
               /\ \A i \in 1..Len(wire[s]) : wire[s][i] > after[s]
    <2>1. CASE ~Live(s)
      BY <1>1, <2>1, NothingOnADeadWire
    <2>2. CASE Live(s)
      <3>1. OnePlace(s) /\ wire[s] \in Seq(Seqs)
        BY <1>1, <2>2 DEF StreamInv, TypeOK
      <3>2. \A i \in 1..Len(wire[s]) : wire[s][i] \in Passed(s)
        BY <3>1 DEF Passed, In
      <3> QED BY <3>1, <3>2 DEF OnePlace, Single
    <2> QED BY <2>1, <2>2
  <1>2. StreamInv => NoDuplicates
    BY <1>1 DEF NoDuplicates
  <1> QED BY <1>2, StreamInductive, PTL

(* While one goroutine at a time appends to an execution, every subscription   *)
(* sends its events in order and without a gap, and a phone that reconnects    *)
(* with the last seq it has seen has all of them up to that one, wherever a    *)
(* connection broke or its writer's queue overflowed.                          *)
THEOREM MissesNothing == Spec => []NothingMissed
  <1>1. ASSUME StreamInv, ~overlap
        PROVE  /\ \A s \in Subs : \A i \in 1..Len(wire[s]) : wire[s][i] = after[s] + i
               /\ seen = 1..Cardinality(seen)
    <2>1. PICK k \in 0..MaxEvents : seen = 1..k
      BY <1>1 DEF StreamInv
    <2>2. k \in Nat
      BY <2>1, StreamAssumption
    <2>3. Cardinality(1..k) = k
      BY <2>2, FS_Interval
    <2>4. ASSUME NEW s \in Subs
          PROVE  \A i \in 1..Len(wire[s]) : wire[s][i] = after[s] + i
      <3>1. CASE ~Live(s)
        BY <1>1, <3>1, NothingOnADeadWire
      <3>2. CASE Live(s)
        BY <1>1, <3>2 DEF StreamInv, GapFree, Sending
      <3> QED BY <3>1, <3>2
    <2> QED BY <2>1, <2>3, <2>4
  <1>2. StreamInv => NothingMissed
    BY <1>1 DEF NothingMissed
  <1> QED BY <1>2, StreamInductive, PTL

--------------------------------------------------------------------------------
(* No goroutine is left waiting: the invariant.                                *)

(* The event is still to be put into the channel of the subscription.          *)
Due(n, s) == app[n] = "persisted" \/ s \in targets[n]

(* What the phone asked for is on its way to it: up to the high-water mark out *)
(* of the snapshot, above it through the channel.                              *)
Complete(s) ==
    /\ fwd[s] # "replay" => replay[s] = <<>>
    /\ \A n \in Seqs : n > after[s] /\ n <= high[s] =>
          In(n, wire[s]) \/ In(n, out[s]) \/ In(n, replay[s])
    /\ \A n \in Seqs : n > high[s] /\ n <= log =>
          In(n, wire[s]) \/ In(n, out[s]) \/ held[s] = n \/ In(n, ch[s]) \/ Due(n, s)

(* A fanout has somebody left to send to, and a subscription that is no longer *)
(* served is deregistered first and lets the fanouts go.                       *)
CleanedUp ==
    /\ \A n \in Seqs : app[n] = "sending" => targets[n] # {}
    /\ \A s \in Subs : /\ srv[s] \in {"wait", "finished"} => s \in done
                       /\ s \in subs => srv[s] = "run"
                       /\ srv[s] # "none" => fwd[s] # "none"

WaitInv ==
    /\ StreamInv
    /\ CleanedUp
    /\ \A s \in Subs : Live(s) => Complete(s)

(* The conditions under which each goroutine takes its next step: appendEvent, *)
(* the forwarding goroutine and the server's (ENABLED, spelled out).           *)
CanAppend(n) ==
    \/ app[n] = "persisted"
    \/ \E s \in targets[n] : Len(ch[s]) < ChanCap \/ s \in done

CanForward(s) ==
    \/ fwd[s] = "replay" /\ (replay[s] = <<>> \/ Len(out[s]) < ChanCap)
    \/ fwd[s] = "live" /\ ch[s] # <<>>
    \/ fwd[s] = "send" /\ (Len(out[s]) < ChanCap \/ s \in done)
    \/ fwd[s] \in {"replay", "live", "send"} /\ (s \in cancelled \/ srv[s] \in {"unregistered", "wait"})

CanServe(s) ==
    \/ srv[s] = "run" /\ (out[s] # <<>> \/ s \in cancelled \/ fwd[s] = "finished")
    \/ srv[s] = "unregistered"
    \/ srv[s] = "wait" /\ fwd[s] = "finished"

(* NothingStuck, of these conditions.                                          *)
NobodyWaits ==
    \/ \E n \in Seqs : CanAppend(n)
    \/ \E s \in Subs : CanForward(s) \/ CanServe(s)
    \/ /\ Appending = {}
       /\ \A s \in cancelled : srv[s] = "finished" /\ s \notin subs
       /\ \A s \in Subs \ cancelled :
              srv[s] = "run" => {wire[s][i] : i \in 1..Len(wire[s])} = (after[s] + 1)..log

--------------------------------------------------------------------------------
(* No goroutine is left waiting: the proof.                                    *)

(* An event that is due to a subscription stays so until it is delivered, and  *)
(* a new one is due.                                                           *)
LEMMA DueStays ==
    ASSUME StreamInv, [Next]_vars, NEW s \in Subs, Live(s), NEW n \in Seqs,
           Due(n, s) \/ n > log, n <= log', ~Deliver(n, s)
    PROVE  Due(n, s)'
  <1>0. /\ TypeOK /\ s \in subs /\ log \in Nat
        /\ \A m \in Seqs : targets[m] # {} => app[m] = "sending"
        /\ \A m \in Seqs : app[m] # "none" <=> m <= log
    BY LogIs DEF StreamInv, OneConnection, AppendOrder, Live
  <1>1. n <= log => Due(n, s)
    BY <1>0 DEF Seqs
  <1>2. ASSUME NEW m \in Seqs, AppendRemediationEvent(m)
        PROVE  Due(n, s)'
    <2>1. m = log + 1 /\ app' = [app EXCEPT ![m] = "persisted"] /\ UNCHANGED targets
      BY <1>2 DEF AppendRemediationEvent
    <2>2. AppendOrder'
      BY AppendOrderNext
    <2>3. app'[n] # "none"
      BY <2>2, LogNext
    <2>4. CASE n = m
      BY <1>0, <2>1, <2>4 DEF Due, TypeOK
    <2>5. CASE n # m
      <3>1. app'[n] = app[n]
        BY <1>0, <2>1, <2>5 DEF TypeOK
      <3>2. n <= log
        BY <1>0, <2>3, <3>1
      <3> QED BY <1>1, <2>1, <3>1, <3>2 DEF Due
    <2> QED BY <2>4, <2>5
  <1>3. ASSUME UNCHANGED app
        PROVE  n <= log
    <2>1. log' = log
      BY <1>3 DEF log, Events
    <2> QED BY <2>1
  <1>4. ASSUME NEW m \in Seqs, fanout(m)
        PROVE  Due(n, s)'
    <2>1. /\ app[m] = "persisted" /\ targets' = [targets EXCEPT ![m] = subs]
          /\ app' = [app EXCEPT ![m] = IF subs = {} THEN "done" ELSE "sending"]
      BY <1>4 DEF fanout
    <2>2. AppendOrder'
      BY AppendOrderNext
    <2>3. app'[n] # "none"
      BY <2>2, LogNext
    <2>4. CASE n = m
      BY <1>0, <2>1, <2>4 DEF Due, TypeOK
    <2>5. CASE n # m
      <3>1. app'[n] = app[n] /\ targets'[n] = targets[n]
        BY <1>0, <2>1, <2>5 DEF TypeOK
      <3> QED BY <1>0, <1>1, <2>3, <3>1 DEF Due
    <2> QED BY <2>4, <2>5
  <1>5. ASSUME NEW m \in Seqs, NEW r \in Subs, Deliver(m, r)
        PROVE  Due(n, s)'
    <2>1. /\ r \in targets[m] /\ targets' = [targets EXCEPT ![m] = @ \ {r}]
          /\ app' = [app EXCEPT ![m] = IF targets[m] = {r} THEN "done" ELSE @]
      BY <1>5 DEF Deliver
    <2>2. AppendOrder'
      BY AppendOrderNext
    <2>3. app'[n] # "none"
      BY <2>2, LogNext
    <2>4. CASE n = m
      <3>1. r # s /\ app[m] = "sending"
        BY <1>0, <1>5, <2>1, <2>4
      <3>2. s \in targets[n]
        BY <1>0, <1>1, <2>4, <3>1 DEF Due
      <3> QED BY <1>0, <2>1, <2>4, <3>1, <3>2 DEF Due, TypeOK
    <2>5. CASE n # m
      <3>1. app'[n] = app[n] /\ targets'[n] = targets[n]
        BY <1>0, <2>1, <2>5 DEF TypeOK
      <3> QED BY <1>0, <1>1, <2>3, <3>1 DEF Due
    <2> QED BY <2>4, <2>5
  <1>6. ASSUME NEW r \in Subs, OffTheLog(r)
        PROVE  UNCHANGED <<app, targets>>
    BY <1>6 DEF OffTheLog, ForwardStep, ServerStep, Subscribe, Replay, Forward, SendOut,
                ForwardEnds, WriteEvent, Deregister, CloseDone, Finished, WriteFrame,
                Disconnect, appending
  <1>7. CASE UNCHANGED <<app, targets>>
    BY <1>1, <1>3, <1>7 DEF Due
  <1>8. CASE UNCHANGED vars
    BY <1>7, <1>8 DEF vars, appending
  <1> QED BY <1>2, <1>4, <1>5, <1>6, <1>7, <1>8 DEF Next, AppendStep, OffTheLog

(* An event moves from one place of a subscription to the next, and stays on   *)
(* its way.                                                                    *)
LEMMA CompleteNext ==
    ASSUME WaitInv, [Next]_vars, NEW s \in Subs, Live(s)'
    PROVE  Complete(s)'
  <1>0. /\ StreamInv /\ TypeOK /\ TypeOK' /\ OneConnection /\ OneConnection'
        /\ (Live(s) => OnePlace(s) /\ Complete(s))
        /\ log \in Nat /\ log' \in Nat /\ LastSeen \in 0..log
        /\ s \notin cancelled' /\ srv'[s] = "run"
        /\ \A n \in Seqs : n \in Nat \ {0}
    <2>1. AppendOrder'
      BY AppendOrderNext DEF WaitInv
    <2>2. log' \in Nat
      BY <2>1, LogNext
    <2> QED BY <2>2, StreamTypes, OneConnectionNext, LogIs, LastSeenIs
            DEF WaitInv, StreamInv, Live, Seqs, Appended
  <1>1. high[s] \in Nat /\ after[s] \in Nat
    BY <1>0 DEF TypeOK
  <1>2. \A n \in Seqs : Live(s) /\ ~Deliver(n, s) /\ n <= log' /\ (Due(n, s) \/ n > log) =>
           Due(n, s)'
    BY <1>0, DueStays
  <1>3. CASE Same(s) /\ Live(s) /\ \A n \in Seqs : ~Deliver(n, s)
    <2>1. \A n \in Seqs : n > high[s] /\ n <= log' =>
             \/ n > log
             \/ In(n, wire[s]) \/ In(n, out[s]) \/ held[s] = n \/ In(n, ch[s]) \/ Due(n, s)
      BY <1>0, <1>3 DEF Complete
    <2>2. \A n \in Seqs : n > high[s] /\ n <= log' =>
             In(n, wire[s]) \/ In(n, out[s]) \/ held[s] = n \/ In(n, ch[s]) \/ Due(n, s)'
      BY <1>2, <1>3, <2>1
    <2> QED BY <1>0, <1>3, <2>2 DEF Complete, Same
  <1>4. ASSUME NEW n \in Seqs, Deliver(n, s)
        PROVE  Complete(s)'
    <2>1. Live(s) /\ Complete(s) /\ s \notin done
      BY <1>0, <1>4 DEF Deliver, OneConnection, Live
    <2>2. /\ ch' = [ch EXCEPT ![s] = Append(@, n)] /\ s \in targets[n]
          /\ UNCHANGED <<out, fwd, replay, held, high, after, wire>>
          /\ targets' = [targets EXCEPT ![n] = @ \ {s}]
          /\ app' = [app EXCEPT ![n] = IF targets[n] = {s} THEN "done" ELSE @]
      BY <1>4, <2>1 DEF Deliver, forwarding
    <2>3. \A m : In(m, ch'[s]) <=> In(m, ch[s]) \/ m = n
      BY <1>0, <2>2, InPushed DEF TypeOK
    <2>4. \A m \in Seqs : m # n => app'[m] = app[m] /\ targets'[m] = targets[m]
      BY <1>0, <2>2 DEF TypeOK
    <2>5. app[n] = "sending" /\ app'[n] # "none"
      BY <1>0, <2>2 DEF StreamInv, AppendOrder, TypeOK
    <2>6. \A m \in Seqs : m <= log' => m <= log
      <3>1. /\ \A m \in Seqs : app[m] # "none" <=> m <= log
            /\ \A m \in Seqs : app'[m] # "none" <=> m <= log'
        BY <1>0, LogIs, LogNext, AppendOrderNext DEF StreamInv
      <3> QED BY <2>4, <2>5, <3>1
    <2>7. \A m \in Seqs : m # n /\ Due(m, s) => Due(m, s)'
      BY <2>4 DEF Due
    <2> QED BY <2>1, <2>2, <2>3, <2>6, <2>7 DEF Complete
  <1>5. CASE Subscribe(s)
    <2>1. /\ srv[s] = "none" /\ UNCHANGED <<out, wire>> /\ UNCHANGED <<app, targets>>
          /\ high' = [high EXCEPT ![s] = log] /\ after' = [after EXCEPT ![s] = LastSeen]
          /\ fwd' = [fwd EXCEPT ![s] = "replay"]
          /\ replay' = [replay EXCEPT ![s] = [k \in 1..(log - LastSeen) |-> LastSeen + k]]
      BY <1>5 DEF Subscribe, Snapshot, appending
    <2>2. /\ high'[s] = log /\ after'[s] = LastSeen /\ fwd'[s] = "replay" /\ log' = log
          /\ replay'[s] = [k \in 1..(log - LastSeen) |-> LastSeen + k]
      BY <1>0, <2>1 DEF TypeOK, log, Events
    <2>3. \A n \in Seqs : n > LastSeen /\ n <= log => In(n, replay'[s])
      <3>1. Len(replay'[s]) = log - LastSeen
        BY <1>0, <2>2
      <3>2. ASSUME NEW n \in Seqs, n > LastSeen, n <= log
            PROVE  n - LastSeen \in 1..(log - LastSeen) /\ replay'[s][n - LastSeen] = n
        <4>1. n \in Nat /\ LastSeen \in Nat /\ n - LastSeen \in 1..(log - LastSeen)
          BY <1>0, <3>2
        <4>2. replay'[s][n - LastSeen] = LastSeen + (n - LastSeen)
          BY <2>2, <4>1
        <4> QED BY <4>1, <4>2
      <3> QED BY <3>1, <3>2 DEF In
    <2>4. \A n \in Seqs : ~(n > log /\ n <= log)
      BY <1>0
    <2> QED BY <2>2, <2>3, <2>4 DEF Complete
  <1>6. ASSUME Live(s), UNCHANGED <<app, targets, high, after>>,
               fwd'[s] # "replay" => replay'[s] = <<>>,
               \A n \in Seqs : In(n, wire[s]) \/ In(n, out[s]) \/ In(n, replay[s]) =>
                                  In(n, wire'[s]) \/ In(n, out'[s]) \/ In(n, replay'[s]),
               \A n \in Seqs :
                  n > high[s] /\ (In(n, wire[s]) \/ In(n, out[s]) \/ held[s] = n \/ In(n, ch[s])) =>
                     In(n, wire'[s]) \/ In(n, out'[s]) \/ held'[s] = n \/ In(n, ch'[s])
        PROVE  Complete(s)'
    <2>1. log' = log /\ Complete(s) /\ \A n \in Seqs : Due(n, s)' <=> Due(n, s)
      BY <1>0, <1>6 DEF log, Events, Due
    <2> QED BY <1>6, <2>1 DEF Complete
  <1>7. CASE Replay(s)
    <2>1. /\ Live(s) /\ UNCHANGED <<ch, held, high, after, wire, app, targets>>
          /\ fwd[s] = "replay"
      BY <1>0, <1>7 DEF Replay, Live, appending
    <2>2. CASE replay[s] = <<>> /\ fwd' = [fwd EXCEPT ![s] = "live"] /\ UNCHANGED <<out, replay>>
      BY <1>6, <2>1, <2>2
    <2>3. CASE /\ replay[s] # <<>> /\ out' = [out EXCEPT ![s] = Append(@, Head(replay[s]))]
               /\ replay' = [replay EXCEPT ![s] = Tail(@)] /\ UNCHANGED fwd
      <3> DEFINE h == Head(replay[s])
      <3>1. h \in Seqs /\ \A m : In(m, replay[s]) <=> In(m, replay'[s]) \/ m = h
        BY <1>0, <2>3, Popped, InPopped DEF TypeOK
      <3>2. out' = [out EXCEPT ![s] = Append(@, h)]
        BY <2>3
      <3> HIDE DEF h
      <3>3. \A m : In(m, out'[s]) <=> In(m, out[s]) \/ m = h
        BY <1>0, <3>1, <3>2, InPushed DEF TypeOK
      <3> QED BY <1>6, <2>1, <2>3, <3>1, <3>3
    <2> QED BY <1>7, <2>2, <2>3 DEF Replay
  <1>8. CASE Forward(s)
    <2> DEFINE h == Head(ch[s])
    <2>1. /\ Live(s) /\ OnePlace(s) /\ Complete(s)
          /\ UNCHANGED <<out, replay, high, after, wire, app, targets>>
          /\ fwd[s] = "live" /\ held[s] = 0 /\ ch[s] # <<>> /\ ch' = [ch EXCEPT ![s] = Tail(@)]
      BY <1>0, <1>8 DEF Forward, Live, OnePlace, appending
    <2>2. h \in Seqs /\ \A m : In(m, ch[s]) <=> In(m, ch'[s]) \/ m = h
      BY <1>0, <2>1, Popped, InPopped DEF TypeOK
    <2>3. replay[s] = <<>> /\ \A n \in Seqs : held[s] # n
      BY <1>0, <2>1 DEF Complete
    <2>4. CASE h <= high[s] /\ UNCHANGED <<fwd, held>>
      <3> HIDE DEF h
      <3>1. ~(h > high[s])
        BY <1>0, <1>1, <2>2, <2>4
      <3> QED BY <1>6, <2>1, <2>2, <2>3, <2>4, <3>1
    <2>5. CASE ~(h <= high[s]) /\ fwd' = [fwd EXCEPT ![s] = "send"] /\ held' = [held EXCEPT ![s] = h]
      <3>1. held'[s] = h
        BY <1>0, <2>5 DEF TypeOK
      <3> HIDE DEF h
      <3> QED BY <1>6, <2>1, <2>2, <2>3, <3>1
    <2> QED BY <1>8, <2>4, <2>5 DEF Forward
  <1>9. CASE SendOut(s)
    <2>1. /\ Live(s) /\ Complete(s) /\ UNCHANGED <<ch, replay, high, after, wire, app, targets>>
          /\ fwd[s] = "send" /\ held[s] \in Seqs
          /\ out' = [out EXCEPT ![s] = Append(@, held[s])]
      BY <1>0, <1>9 DEF SendOut, Live, appending, StreamInv, Appended, Events
    <2> DEFINE h == held[s]
    <2>2. h \in Seqs /\ out' = [out EXCEPT ![s] = Append(@, h)]
      BY <2>1
    <2> HIDE DEF h
    <2>3. \A m : In(m, out'[s]) <=> In(m, out[s]) \/ m = h
      BY <1>0, <2>2, InPushed DEF TypeOK
    <2>4. replay'[s] = <<>>
      BY <2>1 DEF Complete
    <2> QED BY <1>6, <2>1, <2>3, <2>4 DEF h
  <1>10. CASE WriteEvent(s)
    <2> DEFINE h == Head(out[s])
    <2>1. /\ out[s] # <<>> /\ out' = [out EXCEPT ![s] = Tail(@)] /\ srv[s] = "run"
          /\ UNCHANGED <<ch, held, replay, high, fwd, app, targets>>
      BY <1>10 DEF WriteEvent, appending, forwarding
    <2>2. s \notin cancelled /\ wire' = [wire EXCEPT ![s] = Append(@, h)] /\ after' = after
      BY <1>0, <1>10 DEF WriteEvent, enqueue, shutdown
    <2>3. Live(s) /\ Complete(s)
      BY <1>0, <2>1, <2>2 DEF Live
    <2>4. h \in Seqs /\ \A m : In(m, out[s]) <=> In(m, out'[s]) \/ m = h
      BY <1>0, <2>1, Popped, InPopped DEF TypeOK
    <2> HIDE DEF h
    <2>5. \A m : In(m, wire'[s]) <=> In(m, wire[s]) \/ m = h
      BY <1>0, <2>2, <2>4, InPushed DEF TypeOK
    <2>6. fwd'[s] # "replay" => replay'[s] = <<>>
      BY <2>1, <2>3 DEF Complete
    <2> QED BY <1>6, <2>1, <2>2, <2>3, <2>4, <2>5, <2>6
  <1>11. CASE WriteFrame(s)
    <2>1. Live(s) /\ UNCHANGED <<wire, out, ch, held, replay, high, after, fwd, app, targets>>
      BY <1>0, <1>11 DEF WriteFrame, appending, forwarding, Live
    <2> QED BY <1>0, <1>6, <2>1 DEF Complete
  <1>12. ~ForwardEnds(s)
    BY <1>0 DEF ForwardEnds, OneConnection, TypeOK
  <1>13. ~Deregister(s) /\ ~CloseDone(s) /\ ~Finished(s) /\ ~Disconnect(s)
    BY <1>0 DEF Deregister, CloseDone, Finished, Disconnect, shutdown, TypeOK
  <1> QED
    BY <1>0, <1>3, <1>4, <1>5, <1>7, <1>8, <1>9, <1>10, <1>11, <1>12, <1>13, OthersStay
    DEF OffTheLog, ForwardStep, ServerStep

(* Fanouts end with their last subscriber, and subscriptions are cleaned up in *)
(* order.                                                                      *)
LEMMA CleanedUpNext ==
    ASSUME WaitInv, [Next]_vars
    PROVE  CleanedUp'
  <1>0. TypeOK /\ CleanedUp /\ \A n \in Seqs : targets[n] # {} => app[n] = "sending"
    BY DEF WaitInv, StreamInv, AppendOrder
  <1> USE DEF CleanedUp
  <1>1. ASSUME NEW n \in Seqs, AppendRemediationEvent(n)
        PROVE  CleanedUp'
    BY <1>0, <1>1 DEF AppendRemediationEvent, TypeOK, forwarding
  <1>2. ASSUME NEW n \in Seqs, fanout(n)
        PROVE  CleanedUp'
    BY <1>0, <1>2 DEF fanout, TypeOK, forwarding
  <1>3. ASSUME NEW n \in Seqs, NEW s \in Subs, Deliver(n, s)
        PROVE  CleanedUp'
    <2>1. /\ targets' = [targets EXCEPT ![n] = @ \ {s}] /\ s \in targets[n]
          /\ app' = [app EXCEPT ![n] = IF targets[n] = {s} THEN "done" ELSE @]
          /\ UNCHANGED <<srv, done, subs, fwd>>
      BY <1>3 DEF Deliver, forwarding
    <2>2. \A m \in Seqs : app'[m] = "sending" => targets'[m] # {}
      BY <1>0, <2>1 DEF TypeOK
    <2> QED BY <1>0, <2>1, <2>2
  <1>4. ASSUME NEW s \in Subs, Subscribe(s)
        PROVE  CleanedUp'
    BY <1>0, <1>4 DEF Subscribe, appending, TypeOK
  <1>5. ASSUME NEW s \in Subs, ForwardStep(s)
        PROVE  CleanedUp'
    <2>1. UNCHANGED <<app, targets, srv, done, subs>>
      BY <1>5 DEF ForwardStep, Replay, Forward, SendOut, ForwardEnds, appending
    <2>2. \A r \in Subs : fwd[r] # "none" => fwd'[r] # "none"
      BY <1>0, <1>5 DEF ForwardStep, Replay, Forward, SendOut, ForwardEnds, TypeOK
    <2> QED BY <1>0, <2>1, <2>2
  <1>6. ASSUME NEW s \in Subs, WriteEvent(s) \/ WriteFrame(s) \/ Disconnect(s)
        PROVE  CleanedUp'
    BY <1>0, <1>6 DEF WriteEvent, WriteFrame, Disconnect, appending, forwarding
  <1>7. ASSUME NEW s \in Subs, Deregister(s)
        PROVE  CleanedUp'
    BY <1>0, <1>7 DEF Deregister, appending, forwarding, TypeOK
  <1>8. ASSUME NEW s \in Subs, CloseDone(s) \/ Finished(s)
        PROVE  CleanedUp'
    <2>1. CASE CloseDone(s)
      BY <1>0, <2>1, SMTT(30) DEF CloseDone, appending, TypeOK, forwarding
    <2>2. CASE Finished(s)
      BY <1>0, <2>2, SMTT(30) DEF Finished, appending, TypeOK
    <2> QED BY <1>8, <2>1, <2>2
  <1>9. CASE UNCHANGED vars
    BY <1>0, <1>9 DEF vars, appending, forwarding
  <1> QED BY <1>1, <1>2, <1>3, <1>4, <1>5, <1>6, <1>7, <1>8, <1>9 DEF Next, AppendStep, ServerStep

(* What is on its way arrives unless it waits: the invariant, for any number   *)
(* of goroutines, connections and events.                                      *)
THEOREM WaitInductive == Spec => []WaitInv
  <1>1. Init => WaitInv
    BY InitStream DEF Init, WaitInv, CleanedUp, Live
  <1>2. WaitInv /\ [Next]_vars => WaitInv'
    <2> SUFFICES ASSUME WaitInv, [Next]_vars PROVE WaitInv'
      OBVIOUS
    <2>1. StreamInv'
      BY StreamNext DEF WaitInv
    <2>2. \A s \in Subs : Live(s)' => Complete(s)'
      BY CompleteNext
    <2> QED BY <2>1, <2>2, CleanedUpNext DEF WaitInv
  <1> QED BY <1>1, <1>2, PTL DEF Spec

(* A goroutine of the stream never waits for another for good, nor for the     *)
(* phone to read: when the conditions of none of their steps hold, every       *)
(* fanout has ended, a subscription whose connection is gone is cleaned up,    *)
(* and one whose connection is up has been sent all it asked for (fanout's     *)
(* select on sub.done, Subscribe's cancel, connWriter.enqueue).                *)
THEOREM NobodyWaitsForGood == Spec => []NobodyWaits
  <1> SUFFICES WaitInv => NobodyWaits
    BY WaitInductive, PTL
  <1> SUFFICES ASSUME WaitInv, \A n \in Seqs : ~CanAppend(n),
                      \A s \in Subs : ~CanForward(s) /\ ~CanServe(s)
               PROVE  /\ Appending = {}
                      /\ \A s \in cancelled : srv[s] = "finished" /\ s \notin subs
                      /\ \A s \in Subs \ cancelled : srv[s] = "run" =>
                            {wire[s][i] : i \in 1..Len(wire[s])} = (after[s] + 1)..log
    BY DEF NobodyWaits
  <1>0. /\ TypeOK /\ OneConnection /\ CleanedUp /\ StreamInv
        /\ log \in Nat /\ \A n \in Seqs : app[n] # "none" <=> n <= log
        /\ ChanCap \in Nat \ {0} /\ MaxEvents \in Nat /\ log <= MaxEvents
    BY StreamAssumption, LogIs DEF WaitInv, StreamInv
  <1>1. ASSUME NEW s \in Subs, srv[s] \notin {"none", "finished"}
        PROVE  /\ srv[s] = "run" /\ s \notin cancelled /\ fwd[s] = "live"
               /\ ch[s] = <<>> /\ out[s] = <<>>
    <2>1. srv[s] \in {"run", "unregistered", "wait"}
      BY <1>0, <1>1 DEF TypeOK
    <2>2. fwd[s] \in {"replay", "live", "send", "finished"}
      BY <1>0, <1>1 DEF TypeOK, CleanedUp
    <2>3. srv[s] = "run"
      BY <2>1, <2>2 DEF CanServe, CanForward
    <2>4. out[s] = <<>> /\ s \notin cancelled /\ fwd[s] # "finished"
      BY <2>3 DEF CanServe
    <2>5. Len(out[s]) < ChanCap
      BY <1>0, <2>4
    <2>6. fwd[s] = "live" /\ ch[s] = <<>>
      BY <2>2, <2>4, <2>5 DEF CanForward
    <2> QED BY <2>3, <2>4, <2>6
  <1>2. Appending = {}
    <2> SUFFICES ASSUME NEW n \in Appending PROVE FALSE
      OBVIOUS
    <2>1. n \in Seqs /\ app[n] = "sending"
      BY DEF Appending, CanAppend
    <2>2. PICK s \in Subs : s \in targets[n]
      BY <1>0, <2>1 DEF CleanedUp, TypeOK
    <2>3. ~(Len(ch[s]) < ChanCap) /\ s \notin done
      BY <2>1, <2>2 DEF CanAppend
    <2>4. srv[s] # "none"
      BY <1>0, <2>1, <2>2 DEF OneConnection
    <2>5. srv[s] # "finished"
      BY <1>0, <2>3 DEF CleanedUp
    <2>6. ch[s] = <<>>
      BY <1>1, <2>4, <2>5
    <2> QED BY <1>0, <2>3, <2>6
  <1>3. ASSUME NEW s \in cancelled
        PROVE  srv[s] = "finished" /\ s \notin subs
    <2>1. s \in Subs /\ srv[s] # "none"
      BY <1>0 DEF TypeOK, OneConnection
    <2>2. srv[s] = "finished"
      BY <1>1, <2>1
    <2> QED BY <1>0, <2>1, <2>2 DEF CleanedUp
  <1>4. ASSUME NEW s \in Subs \ cancelled, srv[s] = "run"
        PROVE  {wire[s][i] : i \in 1..Len(wire[s])} = (after[s] + 1)..log
    <2>1. /\ fwd[s] = "live" /\ ch[s] = <<>> /\ out[s] = <<>> /\ Live(s) /\ OnePlace(s) /\ Complete(s)
          /\ wire[s] \in Seq(Seqs) /\ after[s] \in Nat /\ high[s] \in Nat
      <3>1. fwd[s] = "live" /\ ch[s] = <<>> /\ out[s] = <<>>
        BY <1>1, <1>4
      <3>2. Live(s) /\ OnePlace(s) /\ Complete(s)
        BY <1>4 DEF Live, WaitInv, StreamInv
      <3>3. wire[s] \in Seq(Seqs) /\ after[s] \in Nat /\ high[s] \in Nat
        BY <1>0 DEF TypeOK
      <3> QED BY <3>1, <3>2, <3>3
    <2>2. replay[s] = <<>> /\ held[s] = 0 /\ \A n : ~In(n, <<>>)
      BY <2>1 DEF Complete, OnePlace, In
    <2>3. ASSUME NEW n \in (after[s] + 1)..log
          PROVE  In(n, wire[s])
      <3>1. n \in Seqs /\ n \in Nat /\ n # 0 /\ n > after[s] /\ n <= log
        BY <1>0, <2>1 DEF Seqs
      <3>2. ~Due(n, s)
        <4>1. s \in targets[n] => app[n] = "sending"
          BY <1>0, <3>1 DEF StreamInv, AppendOrder
        <4> QED BY <1>2, <3>1, <4>1 DEF Due, Appending
      <3>3. n > high[s] \/ n <= high[s]
        BY <2>1, <3>1
      <3> QED BY <2>1, <2>2, <3>1, <3>2, <3>3 DEF Complete
    <2>4. ASSUME NEW n \in Seqs, In(n, wire[s])
          PROVE  n \in (after[s] + 1)..log
      <3>1. n \in Passed(s) /\ n \in Nat
        BY <2>4 DEF Passed, Seqs
      <3>2. n > after[s] /\ (n > high[s] => app[n] # "none") /\ high[s] <= log
        BY <2>1, <3>1 DEF OnePlace, Handed
      <3>3. n <= log
        BY <1>0, <2>1, <2>4, <3>1, <3>2
      <3> QED BY <1>0, <2>1, <3>1, <3>2, <3>3
    <2>5. \A i \in 1..Len(wire[s]) : wire[s][i] \in Seqs
      BY <2>1
    <2> QED BY <2>3, <2>4, <2>5 DEF In
  <1> QED BY <1>2, <1>3, <1>4

================================================================================
