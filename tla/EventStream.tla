------------------------------ MODULE EventStream ------------------------------
(* The live event stream of one execution: Manager.appendEvent, fanout and     *)
(* Subscribe of internal/remediation, the server's subscription goroutine      *)
(* (handleRemediationSubscribe) and the bounded writer of its connection       *)
(* (connWriter), and a phone that reconnects with the last seq it has seen.    *)
(*                                                                             *)
(* A subscription s stands for one connection with one subscribe request on    *)
(* it: a channel sub.ch that fanout sends to, a forwarding goroutine that      *)
(* replays and then forwards to the channel out, and a server goroutine that   *)
(* moves events from out to the writer's queue.                                *)
EXTENDS Integers, Sequences, FiniteSets

CONSTANTS
    Appenders,    \* number of goroutines that append events to the execution
    MaxConns,     \* bound: connections the phone makes, one after the other
    ChanCap,      \* capacity of sub.ch and of out (256)
    SendCap,      \* capacity of connWriter.send (1024)
    MaxEvents     \* bound: events appended

ASSUME StreamAssumption ==
    /\ Appenders \in Nat /\ MaxConns \in Nat /\ MaxEvents \in Nat
    /\ ChanCap \in Nat \ {0} /\ SendCap \in Nat \ {0}

VARIABLES
    app,          \* per event: the appendEvent that writes it
    targets,      \* the subscribers it is still to be sent to
    subs,         \* m.subs: the registered subscriptions
    done,         \* subscriptions whose sub.done is closed
    ch, out,      \* per subscription: the contents of its two channels
    fwd,          \* per subscription: the forwarding goroutine
    replay, held, \* its snapshot still to replay, the event it is sending
    high,         \* its maxReplayed
    srv,          \* per subscription: the server's goroutine
    cancelled,    \* subscriptions whose context is cancelled
    send,         \* per subscription: connWriter.send of its connection
    after, wire,  \* history of a live connection: the seq asked for, what was queued
    seen,         \* the events the phone has got
    overlap       \* history: an event was appended during another's fanout

appending == <<app, targets>>
forwarding == <<fwd, replay, held, high>>
vars == <<appending, subs, done, ch, out, forwarding, srv, cancelled, send,
          after, wire, seen, overlap>>

Seqs == 1..MaxEvents
Subs == 1..MaxConns

(* The rows of remediation_events; the seq of the last one.                    *)
Events == {n \in Seqs : app[n] # "none"}
log == Cardinality(Events)
Appending == {n \in Seqs : app[n] \in {"persisted", "sending"}}

TypeOK ==
    /\ app \in [Seqs -> {"none", "persisted", "sending", "done"}]
    /\ targets \in [Seqs -> SUBSET Subs]
    /\ subs \subseteq Subs /\ done \subseteq Subs
    /\ ch \in [Subs -> Seq(Seqs)] /\ out \in [Subs -> Seq(Seqs)]
    /\ \A s \in Subs : Len(ch[s]) <= ChanCap /\ Len(out[s]) <= ChanCap
    /\ fwd \in [Subs -> {"none", "replay", "live", "send", "finished"}]
    /\ replay \in [Subs -> Seq(Seqs)]
    /\ held \in [Subs -> 0..MaxEvents] /\ high \in [Subs -> 0..MaxEvents]
    /\ srv \in [Subs -> {"none", "run", "unregistered", "wait", "finished"}]
    /\ cancelled \subseteq Subs
    /\ send \in [Subs -> Seq(Seqs)]
    /\ \A s \in Subs : Len(send[s]) <= SendCap
    /\ after \in [Subs -> 0..MaxEvents] /\ wire \in [Subs -> Seq(Seqs)]
    /\ seen \subseteq Seqs
    /\ overlap \in BOOLEAN

Init ==
    /\ app = [n \in Seqs |-> "none"]
    /\ targets = [n \in Seqs |-> {}]
    /\ subs = {} /\ done = {}
    /\ ch = [s \in Subs |-> <<>>] /\ out = [s \in Subs |-> <<>>]
    /\ fwd = [s \in Subs |-> "none"]
    /\ replay = [s \in Subs |-> <<>>]
    /\ held = [s \in Subs |-> 0] /\ high = [s \in Subs |-> 0]
    /\ srv = [s \in Subs |-> "none"]
    /\ cancelled = {}
    /\ send = [s \in Subs |-> <<>>]
    /\ after = [s \in Subs |-> 0] /\ wire = [s \in Subs |-> <<>>]
    /\ seen = {}
    /\ overlap = FALSE

--------------------------------------------------------------------------------
(* appendEvent: the row first, then the fanout.                                *)

AppendRemediationEvent(n) ==
    /\ n = log + 1
    /\ Cardinality(Appending) < Appenders
    /\ app' = [app EXCEPT ![n] = "persisted"]
    /\ overlap' = (overlap \/ Appending # {})
    /\ UNCHANGED <<targets, subs, done, ch, out, forwarding, srv, cancelled, send, after, wire,
                   seen>>

(* fanout: the registered subscribers, as they are under m.mu...               *)
fanout(n) ==
    /\ app[n] = "persisted"
    /\ targets' = [targets EXCEPT ![n] = subs]
    /\ app' = [app EXCEPT ![n] = IF subs = {} THEN "done" ELSE "sending"]
    /\ UNCHANGED <<subs, done, ch, out, forwarding, srv, cancelled, send, after, wire, seen,
                   overlap>>

(* ...then, one after the other, a send that blocks until there is room or the *)
(* subscriber is done.  Projecting to the relay afterwards is best-effort and  *)
(* changes nothing here.                                                       *)
Deliver(n, s) ==
    /\ s \in targets[n]
    /\ \/ Len(ch[s]) < ChanCap /\ ch' = [ch EXCEPT ![s] = Append(@, n)]
       \/ s \in done /\ UNCHANGED ch
    /\ targets' = [targets EXCEPT ![n] = @ \ {s}]
    /\ app' = [app EXCEPT ![n] = IF targets[n] = {s} THEN "done" ELSE @]
    /\ UNCHANGED <<subs, done, out, forwarding, srv, cancelled, send, after, wire, seen, overlap>>

--------------------------------------------------------------------------------
(* Subscribe.                                                                  *)

LastSeen == IF seen = {} THEN 0 ELSE CHOOSE n \in seen : \A m \in seen : m <= n

(* Mutant: the high-water mark stays at the seq asked for.                     *)
SnapshotUnmarked(s) ==
    /\ replay' = [replay EXCEPT ![s] = [k \in 1..(log - LastSeen) |-> LastSeen + k]]
    /\ high' = [high EXCEPT ![s] = LastSeen]

(* Mutant: the snapshot is not in ascending order.                             *)
SnapshotDescending(s) ==
    /\ replay' = [replay EXCEPT ![s] = [k \in 1..(log - LastSeen) |-> log + 1 - k]]
    /\ high' = [high EXCEPT ![s] = log]

(* RemediationEventsAfter; maxReplayed ends at the last event of the snapshot, *)
(* and is only read once that has been replayed.                               *)
Snapshot(s) ==
    /\ replay' = [replay EXCEPT ![s] = [k \in 1..(log - LastSeen) |-> LastSeen + k]]
    /\ high' = [high EXCEPT ![s] = log]

(* The phone connects once the connection it had is gone, and asks for what    *)
(* follows the last event it has seen.  Registering and the snapshot are one   *)
(* step against fanout (m.mu); an event persisted between the two is in the    *)
(* snapshot, as if it had come before.  When the read fails, the registration  *)
(* is undone under the same lock: no step at all.                              *)
Subscribe(s) ==
    /\ srv[s] = "none"
    /\ \A r \in 1..(s - 1) : r \in cancelled
    /\ subs' = subs \cup {s}
    /\ Snapshot(s)
    /\ fwd' = [fwd EXCEPT ![s] = "replay"]
    /\ srv' = [srv EXCEPT ![s] = "run"]
    /\ after' = [after EXCEPT ![s] = LastSeen]
    /\ UNCHANGED <<appending, done, ch, out, held, cancelled, send, wire, seen, overlap>>

(* The forwarding goroutine: the snapshot.                                     *)
Replay(s) ==
    /\ fwd[s] = "replay"
    /\ \/ /\ replay[s] # <<>>
          /\ Len(out[s]) < ChanCap
          /\ out' = [out EXCEPT ![s] = Append(@, Head(replay[s]))]
          /\ replay' = [replay EXCEPT ![s] = Tail(@)]
          /\ UNCHANGED fwd
       \/ /\ replay[s] = <<>>
          /\ fwd' = [fwd EXCEPT ![s] = "live"]
          /\ UNCHANGED <<out, replay>>
    /\ UNCHANGED <<appending, subs, done, ch, held, high, srv, cancelled, send, after,
                   wire, seen, overlap>>

(* A live event that the snapshot already had is skipped.                      *)
Forward(s) ==
    /\ fwd[s] = "live"
    /\ ch[s] # <<>>
    /\ ch' = [ch EXCEPT ![s] = Tail(@)]
    /\ IF Head(ch[s]) <= high[s]
       THEN UNCHANGED <<fwd, held>>
       ELSE /\ fwd' = [fwd EXCEPT ![s] = "send"]
            /\ held' = [held EXCEPT ![s] = Head(ch[s])]
    /\ UNCHANGED <<appending, subs, done, out, replay, high, srv, cancelled, send, after,
                   wire, seen, overlap>>

SendOut(s) ==
    /\ fwd[s] = "send"
    /\ Len(out[s]) < ChanCap
    /\ out' = [out EXCEPT ![s] = Append(@, held[s])]
    /\ held' = [held EXCEPT ![s] = 0]
    /\ fwd' = [fwd EXCEPT ![s] = "live"]
    /\ UNCHANGED <<appending, subs, done, ch, replay, high, srv, cancelled, send,
                   after, wire, seen, overlap>>

(* subCtx is done with the connection's context or by cancelSub; a goroutine   *)
(* that is sending also leaves once sub.done is closed.  The channel out is    *)
(* closed on the way.                                                          *)
ForwardEnds(s) ==
    /\ fwd[s] \in {"replay", "live", "send"}
    /\ \/ s \in cancelled \/ srv[s] \in {"unregistered", "wait"}
       \/ fwd[s] = "send" /\ s \in done
    /\ fwd' = [fwd EXCEPT ![s] = "finished"]
    /\ UNCHANGED <<appending, subs, done, ch, out, replay, held, high, srv, cancelled,
                   send, after, wire, seen, overlap>>

--------------------------------------------------------------------------------
(* The server's goroutine and the writer.                                      *)

(* connWriter.shutdown, a failed write or the end of the read loop: the        *)
(* context is cancelled.  What is queued is never written any more.            *)
shutdown(s) ==
    /\ cancelled' = cancelled \cup {s}
    /\ send' = [send EXCEPT ![s] = <<>>]
    /\ wire' = [wire EXCEPT ![s] = <<>>]
    /\ after' = [after EXCEPT ![s] = 0]

(* connWriter.enqueue never blocks: it queues the frame, or, when the queue is *)
(* full, shuts the connection down.  A frame for a connection that is down     *)
(* goes nowhere.                                                               *)
enqueue(s, n) ==
    \/ s \in cancelled /\ UNCHANGED <<send, wire, cancelled, after>>
    \/ /\ s \notin cancelled /\ Len(send[s]) < SendCap
       /\ send' = [send EXCEPT ![s] = Append(@, n)]
       /\ wire' = [wire EXCEPT ![s] = Append(@, n)]
       /\ UNCHANGED <<cancelled, after>>
    \/ /\ s \notin cancelled /\ Len(send[s]) = SendCap
       /\ shutdown(s)

(* The goroutine prefers neither the next event nor the end of its context.    *)
WriteEvent(s) ==
    /\ srv[s] = "run"
    /\ out[s] # <<>>
    /\ out' = [out EXCEPT ![s] = Tail(@)]
    /\ enqueue(s, Head(out[s]))
    /\ UNCHANGED <<appending, subs, done, ch, forwarding, srv, seen, overlap>>

(* The context is done, or out is closed and drained: the deferred cleanup     *)
(* runs.  It is Subscribe's cancel: deregister under m.mu, ...                 *)
Deregister(s) ==
    /\ srv[s] = "run"
    /\ s \in cancelled \/ (fwd[s] = "finished" /\ out[s] = <<>>)
    /\ subs' = subs \ {s}
    /\ srv' = [srv EXCEPT ![s] = "unregistered"]
    /\ UNCHANGED <<appending, done, ch, out, forwarding, cancelled, send, after, wire, seen,
                   overlap>>

(* Mutant: sub.done stays open.                                                *)
CloseNothing(s) ==
    /\ srv[s] = "unregistered"
    /\ srv' = [srv EXCEPT ![s] = "wait"]
    /\ UNCHANGED <<appending, subs, done, ch, out, forwarding, cancelled, send, after,
                   wire, seen, overlap>>

(* ... close sub.done, which lets go a fanout that is blocked on sub.ch, ...   *)
CloseDone(s) ==
    /\ srv[s] = "unregistered"
    /\ done' = done \cup {s}
    /\ srv' = [srv EXCEPT ![s] = "wait"]
    /\ UNCHANGED <<appending, subs, ch, out, forwarding, cancelled, send, after, wire,
                   seen, overlap>>

(* ... and wait for the forwarding goroutine.  What it leaves is garbage, but  *)
(* a late fanout may still find the channel sub.ch.                            *)
Finished(s) ==
    /\ srv[s] = "wait"
    /\ fwd[s] = "finished"
    /\ srv' = [srv EXCEPT ![s] = "finished"]
    /\ out' = [out EXCEPT ![s] = <<>>]
    /\ replay' = [replay EXCEPT ![s] = <<>>]
    /\ held' = [held EXCEPT ![s] = 0]
    /\ high' = [high EXCEPT ![s] = 0]
    /\ UNCHANGED <<appending, subs, done, ch, fwd, cancelled, send, after, wire, seen, overlap>>

(* writerLoop: the next frame reaches the phone, while the connection is up.   *)
WriteFrame(s) ==
    /\ send[s] # <<>>
    /\ send' = [send EXCEPT ![s] = Tail(@)]
    /\ seen' = seen \cup {Head(send[s])}
    /\ UNCHANGED <<appending, subs, done, ch, out, forwarding, srv, cancelled, after, wire,
                   overlap>>

(* The tunnel drops.                                                           *)
Disconnect(s) ==
    /\ srv[s] # "none"
    /\ s \notin cancelled
    /\ shutdown(s)
    /\ UNCHANGED <<appending, subs, done, ch, out, forwarding, srv, seen, overlap>>

--------------------------------------------------------------------------------
AppendStep(n) == fanout(n) \/ (\E s \in Subs : Deliver(n, s))

ForwardStep(s) == Replay(s) \/ Forward(s) \/ SendOut(s) \/ ForwardEnds(s)

ServerStep(s) ==
    WriteEvent(s) \/ Deregister(s) \/ CloseDone(s) \/ Finished(s)

Next ==
    \/ \E n \in Seqs : AppendRemediationEvent(n) \/ AppendStep(n)
    \/ \E s \in Subs : Subscribe(s) \/ ForwardStep(s) \/ ServerStep(s) \/ WriteFrame(s)
                       \/ Disconnect(s)

Spec == Init /\ [][Next]_vars

--------------------------------------------------------------------------------
(* Properties.                                                                 *)

(* No event crosses the replay/live boundary twice: one subscription never     *)
(* sends an event a second time, nor one the phone had already asked past,     *)
(* however appends, fanouts and the subscription interleave.                   *)
NoDuplicates ==
    \A s \in Subs :
        /\ \A i, j \in 1..Len(wire[s]) : wire[s][i] = wire[s][j] => i = j
        /\ \A i \in 1..Len(wire[s]) : wire[s][i] > after[s]

(* As long as one goroutine at a time appends to an execution, a subscription  *)
(* sends its events in order and without a gap, and so a phone that keeps      *)
(* reconnecting with the last seq it has seen never misses one, wherever its   *)
(* connections broke or overflowed.                                            *)
NothingMissed ==
    ~overlap =>
        /\ \A s \in Subs : \A i \in 1..Len(wire[s]) : wire[s][i] = after[s] + i
        /\ seen = 1..Cardinality(seen)

(* The goroutines never wait for each other for good, nor for the phone to     *)
(* read: when none of them can take a step, every fanout has ended (it runs    *)
(* inside Execute, between two steps on the host), every subscription whose    *)
(* connection is gone has been cleaned up, and one that is up has been sent    *)
(* all there is.                                                               *)
NothingStuck ==
    \/ \E n \in Seqs : ENABLED AppendStep(n)
    \/ \E s \in Subs : ENABLED ForwardStep(s) \/ ENABLED ServerStep(s)
    \/ /\ Appending = {}
       /\ \A s \in cancelled : srv[s] = "finished" /\ s \notin subs
       /\ \A s \in Subs \ cancelled :
              srv[s] = "run" =>
                  {wire[s][i] : i \in 1..Len(wire[s])} = (after[s] + 1)..log
================================================================================
