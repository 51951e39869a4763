----------------------------- MODULE MonitorQueue ------------------------------
(* The offline queue of monitor events: EnqueueMonitorEvent and FlushQueue of  *)
(* internal/watchtower/monitor_events.go, the two goroutines that call them    *)
(* (the monitor engine after a transition, the heartbeat loop after every      *)
(* heartbeat the relay answered), the queue file and the relay.                *)
(*                                                                             *)
(* queueMu makes each section that loads and saves the file one step.  It is   *)
(* released while a batch is on its way, so a flush is three steps and the two *)
(* goroutines' flushes may overlap.                                            *)
EXTENDS Integers, Sequences, FiniteSets

CONSTANTS
    Monitors,     \* monitorEventKey values (kind:target)
    Torn,         \* the queue file when it does not parse
    MaxEvents,    \* bound: events the engine enqueues
    MaxCrashes,   \* bound: crashes of the agent
    MaxFaults     \* bound: writes of the queue file that fail half-way

ASSUME QueueAssumption ==
    MaxEvents \in Nat /\ MaxCrashes \in Nat /\ MaxFaults \in Nat

Flushers == {"engine", "heartbeat"}

(* n names an event for the properties, the program only has its EventID; id   *)
(* is 0 for an event queued by a version that had no EventIDs.                 *)
Events == [n : Nat, id : Nat, key : Monitors, to : {"firing", "resolved"}]

ASSUME TornAssumption == Torn \notin Seq(Events)

VARIABLES
    file,         \* watchtower.queue: a sequence of events, or Torn
    minted,       \* EventIDs minted so far; they are never minted twice
    relay,        \* events the relay has accepted
    pc,           \* per flusher: idle, flush, send, answered
    batch,        \* per flusher: the condensed batch it sends
    taken,        \* per flusher: n, the length of the queue it read
    enqueued,     \* history: monitor and new state of event 1, 2, ...
    stale,        \* history, per flusher: the file shrank since it was read
    trampled,     \* history: events a stale flush removed
    torn,         \* history: events in the file when a write of it failed
    crashes, faults

record == <<enqueued, stale, trampled, torn>>
vars == <<file, minted, relay, pc, batch, taken, record, crashes, faults>>

(* A batch on its way is never empty: FlushQueue returns on an empty queue, and *)
(* condensing a queue that is not empty leaves something.                      *)
TypeOK ==
    /\ file \in Seq(Events) \cup {Torn}
    /\ minted \in Nat
    /\ relay \in SUBSET Events
    /\ pc \in [Flushers -> {"idle", "flush", "send", "answered"}]
    /\ batch \in [Flushers -> SUBSET Events]
    /\ taken \in [Flushers -> Nat]
    /\ enqueued \in Seq([key : Monitors, to : {"firing", "resolved"}])
    /\ stale \in [Flushers -> BOOLEAN]
    /\ trampled \subseteq Events
    /\ torn \subseteq Events
    /\ crashes \in Nat
    /\ faults \in Nat
    /\ \A f \in Flushers : pc[f] \in {"send", "answered"} => batch[f] # {} /\ taken[f] > 0

(* An upgraded agent may find one firing event without an EventID.             *)
Init ==
    /\ \/ /\ file = <<>>
          /\ enqueued = <<>>
       \/ \E k \in Monitors :
             /\ file = <<[n |-> 1, id |-> 0, key |-> k, to |-> "firing"]>>
             /\ enqueued = <<[key |-> k, to |-> "firing"]>>
    /\ minted = 0
    /\ relay = {}
    /\ pc = [f \in Flushers |-> "idle"]
    /\ batch = [f \in Flushers |-> {}]
    /\ taken = [f \in Flushers |-> 0]
    /\ stale = [f \in Flushers |-> FALSE]
    /\ trampled = {}
    /\ torn = {}
    /\ crashes = 0
    /\ faults = 0

--------------------------------------------------------------------------------
(* Mutant: only the net transition of each monitor is kept.                    *)
keepNetTransition(q) ==
    {i \in 1..Len(q) : \A j \in 1..Len(q) : q[j].key = q[i].key => j <= i}

(* The positions condenseMonitorEvents keeps: of each monitor the last firing  *)
(* event, and the last resolved event unless a firing one follows it.  (What   *)
(* it does to FirstFailureAt is in CondenseLoop, where its loop is shown to    *)
(* select exactly these.)                                                      *)
condensePositions(q) ==
    {i \in 1..Len(q) : \A j \in (i + 1)..Len(q) :
        q[j].key = q[i].key => q[j].to # "firing" /\ q[j].to # q[i].to}

condenseMonitorEvents(q) == {q[i] : i \in condensePositions(q)}

Missing(q) == {i \in 1..Len(q) : q[i].id = 0}

(* Every event without an EventID gets the next one.                           *)
ensureMonitorEventIDs(q, m) ==
    [i \in 1..Len(q) |->
        IF q[i].id # 0 THEN q[i]
        ELSE [q[i] EXCEPT !.id = m + Cardinality({j \in Missing(q) : j <= i})]]

InFile == IF file = Torn THEN {} ELSE {file[i] : i \in 1..Len(file)}

InFlight(f) == pc[f] \in {"send", "answered"}

Done(f) ==
    /\ pc' = [pc EXCEPT ![f] = "idle"]
    /\ batch' = [batch EXCEPT ![f] = {}]
    /\ taken' = [taken EXCEPT ![f] = 0]

(* os.WriteFile truncates before it writes: when it fails (a full disk), the   *)
(* file is left empty or cut short, and the caller returns the error.  A crash *)
(* in the middle of the write leaves the same (this step, then Crash).         *)
saveFails ==
    /\ faults < MaxFaults
    /\ faults' = faults + 1
    /\ file' \in {<<>>, Torn}
    /\ torn' = torn \cup InFile
    /\ stale' = [f \in Flushers |-> stale[f] \/ InFlight(f)]

--------------------------------------------------------------------------------
(* The engine's process() hands over a transition and flushes.  Silences, a    *)
(* muted episode and a crash before the engine has saved its state all make    *)
(* transitions of a monitor repeat or go missing, so any may follow any.  On a *)
(* file that does not parse the call returns the error and nothing changes.    *)
EnqueueMonitorEvent(k, to) ==
    /\ pc["engine"] = "idle"
    /\ file # Torn
    /\ Len(enqueued) < MaxEvents
    /\ LET q == Append(file, [n |-> Len(enqueued) + 1, id |-> minted + 1, key |-> k, to |-> to])
       IN  /\ file' = ensureMonitorEventIDs(q, minted + 1)
           /\ minted' = minted + 1 + Cardinality(Missing(q))
    /\ enqueued' = Append(enqueued, [key |-> k, to |-> to])
    /\ pc' = [pc EXCEPT !["engine"] = "flush"]
    /\ UNCHANGED <<relay, batch, taken, stale, trampled, torn, crashes, faults>>

(* process() returns without having recorded the transition.                   *)
EnqueueFails ==
    /\ pc["engine"] = "idle"
    /\ file # Torn
    /\ Len(enqueued) < MaxEvents
    /\ saveFails
    /\ UNCHANGED <<minted, relay, pc, batch, taken, enqueued, trampled, crashes>>

(* Run: a tick whose heartbeat the relay answered flushes the queue.           *)
Heartbeat ==
    /\ pc["heartbeat"] = "idle"
    /\ pc' = [pc EXCEPT !["heartbeat"] = "flush"]
    /\ UNCHANGED <<file, minted, relay, batch, taken, record, crashes, faults>>

(* Mutant: EventIDs are made up for the batch and not saved.                   *)
FlushReadUnsaved(f) ==
    /\ pc[f] = "flush"
    /\ file \notin {Torn, <<>>}
    /\ batch' = [batch EXCEPT ![f] = condenseMonitorEvents(ensureMonitorEventIDs(file, minted))]
    /\ taken' = [taken EXCEPT ![f] = Len(file)]
    /\ minted' = minted + Cardinality(Missing(file))
    /\ pc' = [pc EXCEPT ![f] = "send"]
    /\ stale' = [stale EXCEPT ![f] = FALSE]
    /\ UNCHANGED <<file, relay, enqueued, trampled, torn, crashes, faults>>

(* FlushQueue up to the unlock: read, give missing EventIDs and save them      *)
(* before sending, condense.                                                   *)
FlushRead(f) ==
    /\ pc[f] = "flush"
    /\ file \notin {Torn, <<>>}
    /\ file' = ensureMonitorEventIDs(file, minted)
    /\ minted' = minted + Cardinality(Missing(file))
    /\ batch' = [batch EXCEPT ![f] = condenseMonitorEvents(file')]
    /\ taken' = [taken EXCEPT ![f] = Len(file)]
    /\ pc' = [pc EXCEPT ![f] = "send"]
    /\ stale' = [stale EXCEPT ![f] = FALSE]
    /\ UNCHANGED <<relay, enqueued, trampled, torn, crashes, faults>>

(* Nothing queued, or a file that does not parse.                              *)
FlushNothing(f) ==
    /\ pc[f] = "flush"
    /\ file \in {Torn, <<>>}
    /\ Done(f)
    /\ UNCHANGED <<file, minted, relay, record, crashes, faults>>

FlushReadFails(f) ==
    /\ pc[f] = "flush"
    /\ file \notin {Torn, <<>>}
    /\ Missing(file) # {}
    /\ saveFails
    /\ Done(f)
    /\ UNCHANGED <<minted, relay, enqueued, trampled, crashes>>

(* SendMonitorEvents: the relay takes the batch; it knows an event it has seen *)
(* by its EventID.                                                             *)
SendMonitorEvents(f) ==
    /\ pc[f] = "send"
    /\ relay' = relay \cup {e \in batch[f] : \A r \in relay : r.id # e.id}
    /\ pc' = [pc EXCEPT ![f] = "answered"]
    /\ UNCHANGED <<file, minted, batch, taken, record, crashes, faults>>

(* The request is lost or refused, or the answer is lost: the flush returns    *)
(* the error and leaves the file alone.                                        *)
SendFails(f) ==
    /\ InFlight(f)
    /\ Done(f)
    /\ UNCHANGED <<file, minted, relay, record, crashes, faults>>

(* Mutant: everything is cleared, whatever came in since the read.             *)
RemainingNone(n) == <<>>

(* remaining[n:], or nothing when the file is not longer than n.               *)
Remaining(n) == IF Len(file) <= n THEN <<>> ELSE SubSeq(file, n + 1, Len(file))

(* FlushQueue after the relay's 200.                                           *)
FlushClear(f) ==
    /\ pc[f] = "answered"
    /\ file # Torn
    /\ file' = Remaining(taken[f])
    /\ Done(f)
    /\ stale' = [g \in Flushers |-> stale[g] \/ (g # f /\ InFlight(g))]
    /\ trampled' = IF stale[f] THEN trampled \cup (InFile \ {file'[i] : i \in 1..Len(file')})
                                ELSE trampled
    /\ UNCHANGED <<minted, relay, enqueued, torn, crashes, faults>>

FlushClearFails(f) ==
    /\ pc[f] = "answered"
    /\ \/ file = Torn /\ UNCHANGED <<file, stale, torn, faults>>
       \/ file # Torn /\ saveFails
    /\ Done(f)
    /\ UNCHANGED <<minted, relay, enqueued, trampled, crashes>>

(* The agent stops and starts again: both goroutines begin afresh.             *)
Crash ==
    /\ crashes < MaxCrashes
    /\ crashes' = crashes + 1
    /\ pc' = [f \in Flushers |-> "idle"]
    /\ batch' = [f \in Flushers |-> {}]
    /\ taken' = [f \in Flushers |-> 0]
    /\ stale' = [f \in Flushers |-> FALSE]
    /\ UNCHANGED <<file, minted, relay, enqueued, trampled, torn, faults>>

FlushStep(f) ==
    FlushRead(f) \/ FlushNothing(f) \/ SendFails(f) \/ FlushClear(f) \/ FlushClearFails(f)

Next ==
    \/ \E k \in Monitors, to \in {"firing", "resolved"} : EnqueueMonitorEvent(k, to)
    \/ EnqueueFails
    \/ Heartbeat
    \/ \E f \in Flushers :
          FlushStep(f) \/ SendMonitorEvents(f) \/ FlushReadFails(f)
    \/ Crash

Spec == Init /\ [][Next]_vars

(* The heartbeat loop ticks, goroutines are scheduled, a request is answered or *)
(* times out, and the relay, however often it fails, takes a batch again and   *)
(* again.                                                                      *)
FairSpec ==
    /\ Spec
    /\ WF_vars(Heartbeat)
    /\ \A f \in Flushers : WF_vars(FlushStep(f)) /\ SF_vars(SendMonitorEvents(f))

--------------------------------------------------------------------------------
(* Properties.                                                                 *)

(* The relay knows event n.                                                    *)
Reported(n) == \E e \in relay : e.n = n

(* ... or a later event of the monitor that takes its place: a new firing, or  *)
(* the recovery reported again.                                                *)
Accounted(n) ==
    \/ Reported(n)
    \/ \E e \in relay : /\ e.n > n
                         /\ e.key = enqueued[n].key
                         /\ e.to \in {"firing", enqueued[n].to}

Queued(n) == \E e \in InFile : e.n = n

Excused(n) == \E e \in trampled \cup torn : e.n = n

(* A crash, a lost request, a lost answer or an event that comes in while a    *)
(* batch is on its way never loses an event: it is in the file until the relay *)
(* has it.  Only a failed write of the file, or a flush that clears the file   *)
(* after another flush already has, takes an event away.                       *)
LossNeedsOverlapOrTornFile ==
    \A n \in 1..Len(enqueued) : Queued(n) \/ Accounted(n) \/ Excused(n)

(* Retries, crashes and the migration of events without an EventID never show  *)
(* the relay one event under two EventIDs, or two events under one, so it      *)
(* never opens an incident twice.                                              *)
OneIdPerEvent == \A d, e \in relay : d.n = e.n <=> d.id = e.id

(* Condensing keeps incidents whole: the relay never learns of a recovery      *)
(* without the last firing event queued before it.                             *)
RecoveryHasItsFiring ==
    \A e \in relay : e.to = "resolved" =>
        \A n \in 1..(e.n - 1) :
            enqueued[n] = [key |-> e.key, to |-> "firing"] =>
                \/ \E d \in relay : d.key = e.key /\ d.to = "firing" /\ d.n \in n..(e.n - 1)
                \/ Excused(n)

(* With a relay that keeps coming back, every event reaches it or is replaced. *)
EventsReachRelay ==
    \A n \in 1..MaxEvents : n <= Len(enqueued) ~> Accounted(n) \/ Excused(n)

(* EnqueueMonitorEvent's and FlushQueue's comments: no event is lost.          *)
NothingIsLost == \A n \in 1..Len(enqueued) : Queued(n) \/ Accounted(n)
================================================================================
