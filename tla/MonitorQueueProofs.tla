--------------------------- MODULE MonitorQueueProofs ---------------------------
(* The offline queue's promises, for any number of monitors, events, crashes,  *)
(* lost requests and failed writes of the queue file: no event is lost but by  *)
(* an overlap of two flushes or a failed write, no event has two EventIDs, and *)
(* no recovery reaches the relay without its firing.                           *)
EXTENDS MonitorQueue, FiniteSetTheorems, WellFoundedInduction, TLAPS

--------------------------------------------------------------------------------
(* The inductive invariant.                                                    *)

Seen == InFile \cup relay \cup batch["engine"] \cup batch["heartbeat"]

(* The file holds the last events that were enqueued, all of them from some    *)
(* point on, and only an event of an older version is without an EventID.      *)
FileIsSuffix ==
    file # Torn =>
        /\ Len(file) <= Len(enqueued)
        /\ \A i \in 1..Len(file) :
              /\ file[i].n = Len(enqueued) - Len(file) + i
              /\ file[i].id = 0 => file[i].n = 1

(* An event anywhere is one that was enqueued, with an EventID minted before,  *)
(* and whatever has left the file has one.                                     *)
EventsAreKnown ==
    /\ \A e \in Seen : /\ e.n \in 1..Len(enqueued)
                       /\ enqueued[e.n] = [key |-> e.key, to |-> e.to]
                       /\ e.id <= minted
    /\ \A e \in relay \cup batch["engine"] \cup batch["heartbeat"] : e.id # 0
    /\ \A d, e \in Seen : d.n = e.n <=> d.id = e.id

(* e reports event n, or takes its place.                                      *)
Replaces(e, n) ==
    \/ e.n = n
    \/ e.n > n /\ e.key = enqueued[n].key /\ e.to \in {"firing", enqueued[n].to}

(* The firing events before a recovery e: the batch or the relay has each of   *)
(* them, or a later one.                                                       *)
FiringGoesWith(f, e) ==
    \A n \in 1..(e.n - 1) :
        enqueued[n] = [key |-> e.key, to |-> "firing"] =>
            \/ \E d \in batch[f] \cup relay :
                  d.key = e.key /\ d.to = "firing" /\ d.n \in n..(e.n - 1)
            \/ Excused(n)

(* A batch on its way stands for all that was read, which is still the head of *)
(* the file unless the file shrank meanwhile.                                  *)
BatchIsWhole(f) ==
    InFlight(f) =>
        /\ ~stale[f] => /\ file # Torn
                        /\ taken[f] <= Len(file)
                        /\ \A i \in 1..taken[f] : \E e \in batch[f] : Replaces(e, file[i].n)
        /\ \A e \in batch[f] : e.to = "resolved" => FiringGoesWith(f, e)
        /\ pc[f] = "answered" => \A e \in batch[f] : Reported(e.n)

QueueInv ==
    /\ TypeOK
    /\ FileIsSuffix
    /\ EventsAreKnown
    /\ \A f \in Flushers : BatchIsWhole(f)
    /\ LossNeedsOverlapOrTornFile
    /\ RecoveryHasItsFiring

--------------------------------------------------------------------------------
(* Condensing and giving EventIDs.                                             *)

(* A set of positions that is not empty has a greatest element.                *)
LEMMA GreatestPosition ==
    ASSUME NEW n \in Nat, NEW S \in SUBSET (1..n), S # {}
    PROVE  \E x \in S : \A y \in S : y <= x
  <1> DEFINE R == OpToRel(<, Nat)
             D == {n - x : x \in S}
  <1>1. D \in SUBSET Nat /\ D # {}
    <2>1. \A x \in S : n - x \in Nat
      OBVIOUS
    <2> QED BY <2>1
  <1>2. PICK d \in D : \A y \in D : ~(<<y, d>> \in R)
    <2>1. IsWellFoundedOn(R, Nat)
      BY NatLessThanWellFounded
    <2> HIDE DEF R, D
    <2> QED BY <1>1, <2>1, WFMin
  <1>3. \A y \in D : ~(y < d)
    BY <1>1, <1>2 DEF OpToRel
  <1>4. PICK x \in S : d = n - x
    BY <1>2
  <1>5. ASSUME NEW y \in S
        PROVE  y <= x
    <2>1. n - y \in D /\ ~(n - y < d)
      BY <1>3
    <2> QED BY <1>4, <2>1
  <1> QED BY <1>5

(* Each event of a queue is kept, or a later one that takes its place.         *)
LEMMA CondensingKeeps ==
    ASSUME NEW q \in Seq(Events), NEW i \in 1..Len(q)
    PROVE  \E p \in condensePositions(q) :
              p = i \/ (p > i /\ q[p].key = q[i].key /\ q[p].to \in {"firing", q[i].to})
  <1> DEFINE S == {j \in 1..Len(q) : /\ j >= i
                                     /\ q[j].key = q[i].key /\ q[j].to \in {"firing", q[i].to}}
  <1>1. S \in SUBSET (1..Len(q)) /\ i \in S /\ Len(q) \in Nat
    OBVIOUS
  <1>2. PICK p \in S : \A y \in S : y <= p
    BY <1>1, GreatestPosition
  <1>3. p \in condensePositions(q)
    <2> SUFFICES ASSUME NEW j \in (p + 1)..Len(q), q[j].key = q[p].key
                 PROVE  q[j].to # "firing" /\ q[j].to # q[p].to
      BY DEF condensePositions
    <2>1. j \in 1..Len(q) /\ j >= i /\ j \notin S
      BY <1>1, <1>2
    <2> QED BY <1>2, <2>1
  <1> QED BY <1>2, <1>3

(* A recovery that is kept goes with the last firing before it.                *)
LEMMA CondensingKeepsFiring ==
    ASSUME NEW q \in Seq(Events), NEW p \in condensePositions(q), q[p].to = "resolved",
           NEW i \in 1..Len(q), i < p, q[i].key = q[p].key, q[i].to = "firing"
    PROVE  \E m \in condensePositions(q) :
              m \in i..(p - 1) /\ q[m].key = q[p].key /\ q[m].to = "firing"
  <1> DEFINE S == {j \in 1..Len(q) : j < p /\ q[j].key = q[p].key /\ q[j].to = "firing"}
  <1>1. S \in SUBSET (1..Len(q)) /\ i \in S /\ Len(q) \in Nat /\ p \in 1..Len(q)
    BY DEF condensePositions
  <1>2. PICK m \in S : \A y \in S : y <= m
    BY <1>1, GreatestPosition
  <1>3. m \in condensePositions(q)
    <2> SUFFICES ASSUME NEW j \in (m + 1)..Len(q), q[j].key = q[m].key
                 PROVE  q[j].to # "firing"
      BY <1>2 DEF condensePositions
    <2>1. j \in 1..Len(q) /\ j \notin S /\ q[j].key = q[p].key
      BY <1>1, <1>2
    <2>2. CASE j < p
      BY <2>1, <2>2
    <2>3. CASE j = p
      BY <2>3
    <2>4. CASE j > p
      BY <1>1, <2>1, <2>4 DEF condensePositions
    <2> QED BY <1>1, <2>1, <2>2, <2>3, <2>4
  <1>4. m \in i..(p - 1)
    BY <1>1, <1>2
  <1> QED BY <1>2, <1>3, <1>4

(* Giving EventIDs to a queue with at most one event that has none.            *)
LEMMA IdsAreGiven ==
    ASSUME NEW q \in Seq(Events), NEW m \in Nat, Missing(q) \subseteq {1}
    PROVE  /\ ensureMonitorEventIDs(q, m) \in Seq(Events)
           /\ Len(ensureMonitorEventIDs(q, m)) = Len(q)
           /\ \A i \in 1..Len(q) :
                 ensureMonitorEventIDs(q, m)[i] =
                     IF q[i].id # 0 THEN q[i] ELSE [q[i] EXCEPT !.id = m + 1]
           /\ Cardinality(Missing(q)) = IF Missing(q) = {} THEN 0 ELSE 1
  <1>1. Len(q) \in Nat /\ \A i \in 1..Len(q) : q[i] \in Events
    OBVIOUS
  <1>2. Cardinality(Missing(q)) = IF Missing(q) = {} THEN 0 ELSE 1
    <2>1. Missing(q) = {} \/ Missing(q) = {1}
      OBVIOUS
    <2> QED BY <2>1, FS_EmptySet, FS_Singleton
  <1>3. ASSUME NEW i \in 1..Len(q), q[i].id = 0
        PROVE  Cardinality({j \in Missing(q) : j <= i}) = 1
    <2>1. i \in Missing(q) /\ i = 1
      BY <1>3 DEF Missing
    <2>2. {j \in Missing(q) : j <= i} = {1}
      BY <2>1
    <2> QED BY <2>2, FS_Singleton
  <1>4. ensureMonitorEventIDs(q, m) =
           [i \in 1..Len(q) |-> IF q[i].id # 0 THEN q[i] ELSE [q[i] EXCEPT !.id = m + 1]]
    BY <1>3 DEF ensureMonitorEventIDs
  <1>5. \A i \in 1..Len(q) :
           (IF q[i].id # 0 THEN q[i] ELSE [q[i] EXCEPT !.id = m + 1]) \in Events
    <2> SUFFICES ASSUME NEW i \in 1..Len(q)
                 PROVE  q[i] \in Events /\ [q[i] EXCEPT !.id = m + 1] \in Events
      OBVIOUS
    <2>1. q[i] \in Events /\ m + 1 \in Nat
      BY <1>1
    <2> QED BY <2>1 DEF Events
  <1> QED BY <1>1, <1>2, <1>4, <1>5

--------------------------------------------------------------------------------
(* The steps.                                                                  *)

(* Only the first event of the file may be without an EventID, and only while  *)
(* every event is still in the file.                                           *)
LEMMA FirstIsMissing ==
    ASSUME TypeOK, FileIsSuffix, file # Torn
    PROVE  /\ file \in Seq(Events) /\ Len(file) \in Nat /\ Len(enqueued) \in Nat
           /\ Missing(file) \subseteq {1}
           /\ Missing(file) # {} => Len(file) = Len(enqueued)
  <1>1. file \in Seq(Events) /\ Len(file) \in Nat /\ Len(enqueued) \in Nat
    BY DEF TypeOK
  <1>2. ASSUME NEW i \in Missing(file)
        PROVE  i = 1 /\ Len(file) = Len(enqueued)
    <2>1. i \in 1..Len(file) /\ 1 = Len(enqueued) - Len(file) + i /\ Len(file) <= Len(enqueued)
      BY DEF FileIsSuffix, Missing
    <2> QED BY <1>1, <2>1
  <1> QED BY <1>1, <1>2

(* The queue after an event is appended: EventIDs are minted for it and for an *)
(* event that had none.                                                        *)
LEMMA EnqueuedIs ==
    ASSUME TypeOK, FileIsSuffix, NEW k \in Monitors, NEW to \in {"firing", "resolved"},
           EnqueueMonitorEvent(k, to)
    PROVE  /\ file' \in Seq(Events) /\ Len(file') = Len(file) + 1
           /\ minted' \in Nat /\ minted' > minted
           /\ \A i \in 1..Len(file) :
                 file'[i] = IF file[i].id # 0 THEN file[i] ELSE [file[i] EXCEPT !.id = minted + 2]
           /\ file'[Len(file) + 1] =
                 [n |-> Len(enqueued) + 1, id |-> minted + 1, key |-> k, to |-> to]
           /\ Missing(file) # {} => minted' >= minted + 2
  <1> DEFINE x == [n |-> Len(enqueued) + 1, id |-> minted + 1, key |-> k, to |-> to]
             q == Append(file, x)
  <1>1. /\ file # Torn /\ file \in Seq(Events) /\ Len(file) \in Nat /\ Missing(file) \subseteq {1}
        /\ minted \in Nat
    BY FirstIsMissing DEF EnqueueMonitorEvent, TypeOK
  <1>2. x \in Events /\ x.id # 0
    BY <1>1, FirstIsMissing DEF Events
  <1>3. /\ q \in Seq(Events) /\ Len(q) = Len(file) + 1 /\ q[Len(file) + 1] = x
        /\ \A i \in 1..Len(file) : q[i] = file[i]
    BY <1>1, <1>2
  <1> HIDE DEF q
  <1>4. Missing(q) = Missing(file)
    <2>1. \A i \in 1..Len(q) : i \in 1..Len(file) \/ i = Len(file) + 1
      BY <1>1, <1>3
    <2> HIDE DEF x
    <2> QED BY <1>1, <1>2, <1>3, <2>1 DEF Missing
  <1>5. /\ file' = ensureMonitorEventIDs(q, minted + 1)
        /\ minted' = minted + 1 + Cardinality(Missing(q))
    BY DEF EnqueueMonitorEvent, q
  <1>6. /\ minted + 1 \in Nat /\ Missing(q) \subseteq {1}
        /\ Cardinality(Missing(q)) = IF Missing(file) = {} THEN 0 ELSE 1
    <2>1. minted + 1 \in Nat /\ Missing(q) \subseteq {1}
      BY <1>1, <1>4
    <2> QED BY <1>3, <1>4, <2>1, IdsAreGiven
  <1>7. /\ file' \in Seq(Events) /\ Len(file') = Len(q)
        /\ \A i \in 1..Len(q) :
              file'[i] = IF q[i].id # 0 THEN q[i] ELSE [q[i] EXCEPT !.id = (minted + 1) + 1]
    <2>1. \A m \in Nat :
             /\ ensureMonitorEventIDs(q, m) \in Seq(Events)
             /\ Len(ensureMonitorEventIDs(q, m)) = Len(q)
             /\ \A i \in 1..Len(q) :
                   ensureMonitorEventIDs(q, m)[i] =
                       IF q[i].id # 0 THEN q[i] ELSE [q[i] EXCEPT !.id = m + 1]
      BY <1>3, <1>6, IdsAreGiven
    <2> QED BY <1>5, <1>6, <2>1
  <1> HIDE DEF x
  <1>8. (minted + 1) + 1 = minted + 2 /\ Len(file) + 1 \in 1..Len(q)
        /\ \A i \in 1..Len(file) : i \in 1..Len(q)
    BY <1>1, <1>3
  <1>9. file'[Len(file) + 1] = x
    BY <1>2, <1>3, <1>7, <1>8
  <1>10. \A i \in 1..Len(file) :
            file'[i] = IF file[i].id # 0 THEN file[i] ELSE [file[i] EXCEPT !.id = minted + 2]
    BY <1>3, <1>7, <1>8
  <1>11. /\ minted' \in Nat /\ minted' > minted
         /\ Missing(file) # {} => minted' >= minted + 2
    BY <1>1, <1>5, <1>6
  <1> QED BY <1>3, <1>7, <1>9, <1>10, <1>11 DEF x

(* The queue after a flush has read it: every event has an EventID.            *)
LEMMA ReadIs ==
    ASSUME TypeOK, FileIsSuffix, NEW f \in Flushers, FlushRead(f)
    PROVE  /\ file \in Seq(Events) /\ file' \in Seq(Events) /\ Len(file') = Len(file)
           /\ Len(file) \in Nat \ {0} /\ file' # Torn
           /\ minted' \in Nat /\ minted' >= minted
           /\ \A i \in 1..Len(file) :
                 file'[i] = IF file[i].id # 0 THEN file[i] ELSE [file[i] EXCEPT !.id = minted + 1]
           /\ Missing(file) # {} => minted' = minted + 1
           /\ condenseMonitorEvents(file') \subseteq InFile'
           /\ condenseMonitorEvents(file') # {}
  <1>1. /\ file # Torn /\ file # <<>> /\ file \in Seq(Events) /\ Missing(file) \subseteq {1}
        /\ minted \in Nat /\ Len(file) \in Nat \ {0}
    BY FirstIsMissing DEF FlushRead, TypeOK
  <1>2. /\ file' \in Seq(Events) /\ Len(file') = Len(file)
        /\ \A i \in 1..Len(file) :
              file'[i] = IF file[i].id # 0 THEN file[i] ELSE [file[i] EXCEPT !.id = minted + 1]
        /\ minted' = minted + (IF Missing(file) = {} THEN 0 ELSE 1)
    BY <1>1, IdsAreGiven DEF FlushRead
  <1>3. file' # Torn
    BY <1>2, TornAssumption
  <1>4. condenseMonitorEvents(file') \subseteq InFile'
    BY <1>3 DEF condenseMonitorEvents, condensePositions, InFile
  <1>5. condenseMonitorEvents(file') # {}
    <2>1. PICK p \in condensePositions(file') : TRUE
      BY <1>1, <1>2, CondensingKeeps
    <2> QED BY <2>1 DEF condenseMonitorEvents
  <1> QED BY <1>1, <1>2, <1>3, <1>4, <1>5

(* Types, step by step.                                                       *)
LEMMA QueueType ==
    ASSUME QueueInv, [Next]_vars
    PROVE  TypeOK'
  <1> USE DEF QueueInv, TypeOK, record
  <1>0. /\ "engine" \in Flushers /\ "heartbeat" \in Flushers
        /\ \A f \in Flushers : Done(f) =>
              /\ pc' \in [Flushers -> {"idle", "flush", "send", "answered"}]
              /\ batch' \in [Flushers -> SUBSET Events] /\ taken' \in [Flushers -> Nat]
              /\ \A g \in Flushers :
                    pc'[g] \in {"send", "answered"} => batch'[g] # {} /\ taken'[g] > 0
    BY DEF Flushers, Done
  <1>1. saveFails => /\ file' \in Seq(Events) \cup {Torn} /\ faults' \in Nat
                     /\ torn' \subseteq Events /\ stale' \in [Flushers -> BOOLEAN]
    <2>1. InFile \subseteq Events
      BY DEF InFile
    <2>2. saveFails => torn' \subseteq Events /\ stale' \in [Flushers -> BOOLEAN]
      BY <2>1 DEF saveFails, InFlight
    <2>3. saveFails => file' \in Seq(Events) \cup {Torn} /\ faults' \in Nat
      <3>1. <<>> \in Seq(Events)
        OBVIOUS
      <3>2. saveFails => file' = <<>> \/ file' = Torn
        BY DEF saveFails
      <3>3. saveFails => faults' \in Nat
        BY DEF saveFails
      <3> QED BY <3>1, <3>2, <3>3
    <2> QED BY <2>2, <2>3
  <1>2. ASSUME NEW k \in Monitors, NEW to \in {"firing", "resolved"}, EnqueueMonitorEvent(k, to)
        PROVE  TypeOK'
    <2>1. file' \in Seq(Events) /\ minted' \in Nat
      BY <1>2, EnqueuedIs
    <2> QED BY <1>0, <1>2, <2>1 DEF EnqueueMonitorEvent
  <1>3. CASE EnqueueFails
    BY <1>1, <1>3 DEF EnqueueFails
  <1>4. CASE Heartbeat
    BY <1>0, <1>4 DEF Heartbeat
  <1>5. ASSUME NEW f \in Flushers, FlushRead(f)
        PROVE  TypeOK'
    <2>1. /\ file \in Seq(Events) /\ file' \in Seq(Events) /\ Len(file) \in Nat \ {0}
          /\ minted' \in Nat /\ file' # Torn
          /\ condenseMonitorEvents(file') \subseteq InFile' /\ condenseMonitorEvents(file') # {}
      BY <1>5, ReadIs
    <2>2. condenseMonitorEvents(file') \subseteq Events
      BY <2>1 DEF InFile
    <2> QED BY <1>5, <2>1, <2>2 DEF FlushRead
  <1>6. ASSUME NEW f \in Flushers, FlushNothing(f) \/ SendFails(f)
        PROVE  TypeOK'
    BY <1>0, <1>6 DEF FlushNothing, SendFails
  <1>7. ASSUME NEW f \in Flushers, FlushReadFails(f) \/ FlushClearFails(f)
        PROVE  TypeOK'
    BY <1>0, <1>1, <1>7 DEF FlushReadFails, FlushClearFails
  <1>8. ASSUME NEW f \in Flushers, SendMonitorEvents(f)
        PROVE  TypeOK'
    BY <1>8 DEF SendMonitorEvents
  <1>9. ASSUME NEW f \in Flushers, FlushClear(f)
        PROVE  TypeOK'
    <2>1. file \in Seq(Events) /\ taken[f] \in Nat
      BY <1>9 DEF FlushClear
    <2>2. file' \in Seq(Events)
      BY <1>9, <2>1 DEF FlushClear, Remaining
    <2>3. InFile \subseteq Events
      BY DEF InFile
    <2>4. trampled' \subseteq Events /\ stale' \in [Flushers -> BOOLEAN]
      BY <1>9, <2>3 DEF FlushClear, InFlight
    <2> QED BY <1>0, <1>9, <2>2, <2>4 DEF FlushClear
  <1>10. CASE Crash
    BY <1>10 DEF Crash
  <1>11. CASE UNCHANGED vars
    BY <1>11 DEF vars
  <1> QED
    BY <1>2, <1>3, <1>4, <1>5, <1>6, <1>7, <1>8, <1>9, <1>10, <1>11 DEF Next, FlushStep

(* What was said of an event stays true while its enqueueing stays on record   *)
(* and the relay, the trampled and the torn events only grow.                  *)
LEMMA Grows ==
    ASSUME TypeOK, Len(enqueued) <= Len(enqueued'), TypeOK',
           \A n \in 1..Len(enqueued) : enqueued'[n] = enqueued[n],
           relay \subseteq relay', trampled \subseteq trampled', torn \subseteq torn'
    PROVE  /\ \A n \in 1..Len(enqueued) :
                 /\ Accounted(n) => Accounted(n)'
                 /\ Excused(n) => Excused(n)'
                 /\ Reported(n) => Reported(n)'
                 /\ \A e : Replaces(e, n) => Replaces(e, n)'
           /\ \A e \in Events, f \in Flushers :
                 FiringGoesWith(f, e) /\ e.n \in 1..Len(enqueued) /\ batch'[f] = batch[f]
                 => FiringGoesWith(f, e)'
  <1>1. \A n \in 1..Len(enqueued) :
           /\ Accounted(n) => Accounted(n)'
           /\ Excused(n) => Excused(n)'
           /\ Reported(n) => Reported(n)'
           /\ \A e : Replaces(e, n) => Replaces(e, n)'
    BY DEF Accounted, Excused, Reported, Replaces
  <1>2. ASSUME NEW e \in Events, NEW f \in Flushers,
               FiringGoesWith(f, e), e.n \in 1..Len(enqueued), batch'[f] = batch[f]
        PROVE  FiringGoesWith(f, e)'
    <2>1. Len(enqueued) \in Nat
      BY DEF TypeOK
    <2>2. \A n \in 1..(e.n - 1) : n \in 1..Len(enqueued)
      BY <1>2, <2>1
    <2> QED BY <1>1, <1>2, <2>2 DEF FiringGoesWith
  <1> QED BY <1>1, <1>2

(* Steps that only give batches up leave the rest as it is.                    *)
LEMMA QuietNext ==
    ASSUME QueueInv, TypeOK', UNCHANGED <<file, minted, relay, enqueued, trampled, torn>>,
           \A f \in Flushers :
              \/ ~InFlight(f)' /\ batch'[f] \subseteq batch[f]
              \/ /\ InFlight(f) /\ UNCHANGED <<pc[f], batch[f], taken[f]>>
                 /\ stale[f] => stale'[f]
    PROVE  QueueInv'
  <1>1. Seen' \subseteq Seen
    BY DEF Seen, InFile, Flushers
  <1>2. FileIsSuffix' /\ LossNeedsOverlapOrTornFile'
    BY DEF QueueInv, FileIsSuffix, LossNeedsOverlapOrTornFile, Queued, Accounted, Excused,
           Reported, InFile
  <1>5. RecoveryHasItsFiring'
    BY DEF QueueInv, RecoveryHasItsFiring, Excused
  <1>3. EventsAreKnown'
    BY <1>1 DEF QueueInv, EventsAreKnown, Flushers
  <1>4. ASSUME NEW f \in Flushers
        PROVE  BatchIsWhole(f)'
    <2>1. CASE ~InFlight(f)'
      BY <2>1 DEF BatchIsWhole
    <2>2. CASE /\ InFlight(f) /\ UNCHANGED <<pc[f], batch[f], taken[f]>>
               /\ stale[f] => stale'[f]
      BY <2>2
      DEF QueueInv, BatchIsWhole, InFlight, Replaces, FiringGoesWith, Reported, Excused
    <2> QED BY <2>1, <2>2
  <1> QED BY <1>2, <1>3, <1>4, <1>5 DEF QueueInv

(* What the relay has of recoveries and their firings is not undone.           *)
LEMMA RecoveryStays ==
    ASSUME QueueInv, TypeOK', Len(enqueued) <= Len(enqueued'),
           \A n \in 1..Len(enqueued) : enqueued'[n] = enqueued[n],
           relay' = relay, trampled \subseteq trampled', torn \subseteq torn'
    PROVE  RecoveryHasItsFiring'
  <1> SUFFICES ASSUME NEW e \in relay, e.to = "resolved", NEW n \in 1..(e.n - 1),
                      enqueued'[n] = [key |-> e.key, to |-> "firing"]
               PROVE  \/ \E d \in relay :
                            d.key = e.key /\ d.to = "firing" /\ d.n \in n..(e.n - 1)
                      \/ Excused(n)'
    BY DEF RecoveryHasItsFiring
  <1>1. e.n \in 1..Len(enqueued) /\ Len(enqueued) \in Nat
    <2>1. e \in Seen
      BY DEF Seen
    <2>2. Len(enqueued) \in Nat
      BY DEF QueueInv, TypeOK
    <2> QED BY <2>1, <2>2 DEF QueueInv, EventsAreKnown
  <1>2. n \in 1..Len(enqueued)
    BY <1>1
  <1>3. enqueued[n] = [key |-> e.key, to |-> "firing"]
    BY <1>2
  <1>4. \/ \E d \in relay : d.key = e.key /\ d.to = "firing" /\ d.n \in n..(e.n - 1)
        \/ Excused(n)
    BY <1>3 DEF QueueInv, RecoveryHasItsFiring
  <1>5. Excused(n) => Excused(n)'
    BY DEF Excused
  <1> QED BY <1>4, <1>5

(* A batch on its way stays whole while what it stands for stays at the head   *)
(* of the file, or the file is known to have shrunk.                           *)
LEMMA BatchStays ==
    ASSUME QueueInv, TypeOK', Len(enqueued) <= Len(enqueued'),
           \A n \in 1..Len(enqueued) : enqueued'[n] = enqueued[n],
           relay \subseteq relay', trampled \subseteq trampled', torn \subseteq torn',
           NEW f \in Flushers,
           InFlight(f)' => InFlight(f) /\ batch'[f] = batch[f] /\ taken'[f] = taken[f],
           pc'[f] = "answered" => pc[f] = "answered" \/ \A e \in batch[f] : Reported(e.n)',
           InFlight(f) /\ ~stale'[f] =>
              /\ ~stale[f]
              /\ file # Torn =>
                    /\ file' # Torn /\ Len(file) <= Len(file')
                    /\ \A i \in 1..Len(file) : file'[i].n = file[i].n
    PROVE  BatchIsWhole(f)'
  <1> SUFFICES ASSUME InFlight(f)'
               PROVE  BatchIsWhole(f)'
    BY DEF BatchIsWhole
  <1>1. /\ InFlight(f) /\ BatchIsWhole(f) /\ batch'[f] = batch[f] /\ taken'[f] = taken[f]
        /\ TypeOK /\ Len(enqueued) \in Nat /\ taken[f] \in Nat /\ batch[f] \subseteq Events
    BY DEF QueueInv, TypeOK
  <1>2. \A e \in batch[f] : e \in Seen /\ e.n \in 1..Len(enqueued)
    BY DEF QueueInv, EventsAreKnown, Seen, Flushers
  <1>3. ASSUME ~stale'[f]
        PROVE  /\ file' # Torn /\ taken'[f] <= Len(file')
               /\ \A i \in 1..taken'[f] : \E e \in batch'[f] : Replaces(e, file[i].n)'
    <2>1. /\ file # Torn /\ taken[f] <= Len(file)
          /\ \A i \in 1..taken[f] : \E e \in batch[f] : Replaces(e, file[i].n)
      BY <1>1, <1>3 DEF BatchIsWhole
    <2>2. /\ file' # Torn /\ Len(file) <= Len(file')
          /\ \A i \in 1..Len(file) : file'[i].n = file[i].n
      BY <1>1, <1>3, <2>1
    <2>3. file \in Seq(Events) /\ Len(file) \in Nat /\ file' \in Seq(Events) /\ Len(file') \in Nat
      BY <2>1, <2>2 DEF QueueInv, TypeOK
    <2>4. ASSUME NEW i \in 1..taken[f]
          PROVE  \E e \in batch[f] : Replaces(e, file[i].n)'
      <3>1. i \in 1..Len(file)
        BY <1>1, <2>1, <2>3
      <3>2. PICK e \in batch[f] : Replaces(e, file[i].n)
        BY <2>1
      <3>3. PICK n \in 1..Len(enqueued) : n = file[i].n
        <4>1. file[i] \in Seen
          BY <2>1, <3>1 DEF Seen, InFile
        <4> QED BY <4>1 DEF QueueInv, EventsAreKnown
      <3>4. Replaces(e, n)'
        BY <1>1, <3>2, <3>3, Grows
      <3> QED BY <2>2, <3>1, <3>3, <3>4 DEF Replaces
    <2> QED BY <1>1, <2>1, <2>2, <2>3, <2>4
  <1>4. ASSUME NEW e \in batch[f], e.to = "resolved"
        PROVE  FiringGoesWith(f, e)'
    BY <1>1, <1>2, <1>4, Grows DEF BatchIsWhole
  <1>5. ASSUME pc'[f] = "answered", NEW e \in batch[f]
        PROVE  Reported(e.n)'
    BY <1>1, <1>5 DEF BatchIsWhole, Reported
  <1>6. \A e \in batch[f]' : e.to = "resolved" => FiringGoesWith(f, e)'
    BY <1>1, <1>4
  <1>7. pc[f]' = "answered" => \A e \in batch[f]' : Reported(e.n)'
    BY <1>1, <1>5
  <1> QED BY <1>3, <1>6, <1>7 DEF BatchIsWhole

(* A transition of a monitor is queued under a fresh id.                      *)
LEMMA EnqueueNext ==
    ASSUME QueueInv, TypeOK', NEW k \in Monitors, NEW to \in {"firing", "resolved"},
           EnqueueMonitorEvent(k, to)
    PROVE  QueueInv'
  <1> DEFINE L == Len(enqueued)
             F == Len(file)
             x == [n |-> L + 1, id |-> minted + 1, key |-> k, to |-> to]
             y == [key |-> k, to |-> to]
             Old(e) == e \in Seen /\ e.id # 0
             Filled(e) == \E d \in InFile : d.id = 0 /\ e = [d EXCEPT !.id = minted + 2]
  <1>1. /\ TypeOK /\ FileIsSuffix /\ EventsAreKnown /\ LossNeedsOverlapOrTornFile
        /\ file # Torn /\ L \in Nat /\ F \in Nat /\ minted \in Nat /\ F <= L
        /\ file \in Seq(Events)
    BY DEF QueueInv, TypeOK, EnqueueMonitorEvent, FileIsSuffix
  <1>2. /\ file' \in Seq(Events) /\ Len(file') = F + 1
        /\ minted' \in Nat /\ minted' > minted
        /\ \A i \in 1..F :
              file'[i] = IF file[i].id # 0 THEN file[i] ELSE [file[i] EXCEPT !.id = minted + 2]
        /\ file'[F + 1] = x
        /\ Missing(file) # {} => minted' >= minted + 2
    BY <1>1, EnqueuedIs
  <1>3. /\ relay' = relay /\ batch' = batch /\ trampled' = trampled /\ torn' = torn
        /\ taken' = taken /\ stale' = stale
        /\ pc' = [pc EXCEPT !["engine"] = "flush"]
    BY DEF EnqueueMonitorEvent
  <1>4. /\ Len(enqueued') = L + 1 /\ enqueued'[L + 1] = y
        /\ \A n \in 1..L : enqueued'[n] = enqueued[n]
    BY <1>1 DEF EnqueueMonitorEvent, TypeOK
  <1>5. file' # Torn
    BY <1>2, TornAssumption
  <1>6. \A i \in 1..F : file[i] \in Events /\ file[i] \in InFile /\ file'[i].n = file[i].n
    <2>1. \A e \in Events : [e EXCEPT !.id = minted + 2].n = e.n
      BY DEF Events
    <2>2. \A i \in 1..F : file[i] \in Events /\ file[i] \in InFile
      BY <1>1 DEF InFile
    <2> QED BY <1>2, <2>1, <2>2
  <1> HIDE DEF x, y, L, F
  <1>7. x.n = L + 1 /\ x.id = minted + 1 /\ x.key = k /\ x.to = to
    BY DEF x
  <1>8. FileIsSuffix'
    <2>1. ASSUME NEW i \in 1..F
          PROVE  file'[i].n = (L + 1) - (F + 1) + i /\ file'[i].id # 0
      <3>1. file[i].n = L - F + i
        BY <1>1 DEF FileIsSuffix, F, L
      <3>2. file'[i].id # 0
        <4>1. \A e \in Events : [e EXCEPT !.id = minted + 2].id = minted + 2
          BY DEF Events
        <4>2. CASE file[i].id = 0
          <5>1. minted + 2 # 0
            BY <1>1
          <5>2. file'[i] = [file[i] EXCEPT !.id = minted + 2]
            BY <1>2, <4>2
          <5> QED BY <1>6, <4>1, <5>1, <5>2
        <4>3. CASE file[i].id # 0
          BY <1>2, <4>3
        <4> QED BY <4>2, <4>3
      <3> QED BY <1>1, <1>6, <3>1, <3>2
    <2>2. file'[F + 1].n = (L + 1) - (F + 1) + (F + 1) /\ file'[F + 1].id # 0
      BY <1>1, <1>2, <1>7
    <2>3. \A i \in 1..(F + 1) : i \in 1..F \/ i = F + 1
      BY <1>1
    <2>4. \A i \in 1..Len(file') :
             file'[i].n = Len(enqueued') - Len(file') + i /\ file'[i].id # 0
      BY <1>2, <1>4, <2>1, <2>2, <2>3
    <2>5. Len(file') <= Len(enqueued')
      BY <1>1, <1>2, <1>4
    <2> QED BY <2>4, <2>5 DEF FileIsSuffix
  <1>9. \A e \in InFile' : (e \in InFile /\ Old(e)) \/ Filled(e) \/ e = x
    <2>1. ASSUME NEW i \in 1..(F + 1)
          PROVE  (file'[i] \in InFile /\ Old(file'[i])) \/ Filled(file'[i]) \/ file'[i] = x
      <3>1. CASE i = F + 1
        BY <1>2, <3>1
      <3>2. CASE i \in 1..F
        BY <1>2, <1>6, <3>2 DEF Seen
      <3> QED BY <1>1, <3>1, <3>2, SMTT(30)
    <2> QED BY <1>2, <1>5, <2>1 DEF InFile
  <1>10. \A e \in Seen' : Old(e) \/ Filled(e) \/ e = x
    BY <1>1, <1>3, <1>9 DEF Seen, EventsAreKnown
  <1>11. \A e : Old(e) =>
            /\ e.n \in 1..L /\ e.n # L + 1 /\ e.id <= minted /\ e.id # minted + 1
            /\ e.id # minted + 2 /\ enqueued[e.n] = [key |-> e.key, to |-> e.to]
            /\ e \in Events /\ e.id \in Nat
    <2>1. ASSUME NEW e \in Seen
          PROVE  e \in Events /\ e.id \in Nat
      <3>1. InFile \subseteq Events
        BY <1>1, <1>6 DEF InFile, F
      <3>2. relay \subseteq Events /\ \A f \in Flushers : batch[f] \subseteq Events
        BY <1>1 DEF TypeOK
      <3>3. e \in Events
        BY <3>1, <3>2 DEF Seen, Flushers
      <3> QED BY <3>3 DEF Events
    <2> QED BY <1>1, <2>1 DEF EventsAreKnown, L
  <1>12. \A e : Filled(e) =>
            /\ e.n = 1 /\ 1 \in 1..L /\ 1 # L + 1 /\ e.id = minted + 2 /\ minted + 2 <= minted'
            /\ enqueued[e.n] = [key |-> e.key, to |-> e.to]
            /\ \A d : Old(d) => d.n # e.n
    <2> SUFFICES ASSUME NEW e, NEW d \in InFile, d.id = 0, e = [d EXCEPT !.id = minted + 2]
                 PROVE  /\ e.n = 1 /\ 1 \in 1..L /\ 1 # L + 1 /\ e.id = minted + 2
                        /\ minted + 2 <= minted'
                        /\ enqueued[e.n] = [key |-> e.key, to |-> e.to]
                        /\ \A o : Old(o) => o.n # e.n
      OBVIOUS
    <2>1. d \in Seen /\ d \in Events
      BY <1>1, <1>6 DEF Seen, InFile, F
    <2>2. e.n = d.n /\ e.id = minted + 2 /\ e.key = d.key /\ e.to = d.to
      BY <2>1 DEF Events
    <2>3. PICK i \in 1..F : d = file[i]
      BY <1>1 DEF InFile, F
    <2>4. d.n = 1 /\ i \in Missing(file)
      BY <1>1, <2>3 DEF FileIsSuffix, Missing, F
    <2>5. d.n \in 1..L /\ enqueued[d.n] = [key |-> d.key, to |-> d.to]
      BY <1>1, <2>1 DEF EventsAreKnown, L
    <2>6. \A o : Old(o) => o.n # d.n
      BY <1>1, <2>1 DEF EventsAreKnown
    <2> QED BY <1>1, <1>2, <2>2, <2>4, <2>5, <2>6
  <1> HIDE DEF Old, Filled
  <1>13. EventsAreKnown'
    <2>1. ASSUME NEW e \in Seen'
          PROVE  /\ e.n \in 1..(L + 1) /\ enqueued'[e.n] = [key |-> e.key, to |-> e.to]
                 /\ e.id <= minted'
      <3>1. CASE Old(e)
        BY <1>1, <1>2, <1>4, <1>11, <3>1, SMTT(30)
      <3>2. CASE Filled(e)
        BY <1>1, <1>4, <1>12, <3>2
      <3>3. CASE e = x
        BY <1>1, <1>2, <1>4, <1>7, <3>3 DEF y
      <3> QED BY <1>10, <3>1, <3>2, <3>3
    <2>2. \A e \in relay' \cup batch'["engine"] \cup batch'["heartbeat"] : e.id # 0
      BY <1>1, <1>3 DEF EventsAreKnown
    <2>3. ASSUME NEW d \in Seen', NEW e \in Seen'
          PROVE  d.n = e.n <=> d.id = e.id
      <3>1. CASE Old(d) /\ Old(e)
        BY <1>1, <3>1 DEF EventsAreKnown, Old
      <3>2. CASE Filled(d) /\ Filled(e)
        BY <1>12, <3>2
      <3>3. CASE (Old(d) /\ Filled(e)) \/ (Old(e) /\ Filled(d))
        BY <1>11, <1>12, <3>3, ZenonT(30)
      <3>4. CASE (Old(d) /\ e = x) \/ (Old(e) /\ d = x)
        <4>1. \A o : Old(o) => o.n # x.n /\ o.id # x.id
          BY <1>7, <1>11
        <4> QED BY <3>4, <4>1
      <3>5. CASE (Filled(d) /\ e = x) \/ (Filled(e) /\ d = x)
        <4>1. \A o : Filled(o) => o.n # x.n /\ o.id # x.id
          <5>1. minted + 2 # minted + 1
            BY <1>1
          <5>2. \A o : Filled(o) => o.n = 1 /\ 1 # L + 1 /\ o.id = minted + 2
            BY <1>12
          <5> QED BY <1>7, <5>1, <5>2
        <4> QED BY <3>5, <4>1
      <3>6. CASE d = x /\ e = x
        BY <3>6
      <3> QED BY <1>10, <3>1, <3>2, <3>3, <3>4, <3>5, <3>6
    <2> QED BY <1>4, <2>1, <2>2, <2>3 DEF EventsAreKnown
  <1>14. Len(enqueued) <= Len(enqueued') /\ Len(file) <= Len(file')
    BY <1>1, <1>2, <1>4 DEF L, F
  <1>15. ASSUME NEW f \in Flushers
         PROVE  BatchIsWhole(f)'
    <2>1. /\ InFlight(f)' => InFlight(f) /\ batch'[f] = batch[f] /\ taken'[f] = taken[f]
          /\ pc'[f] = "answered" => pc[f] = "answered"
      BY <1>1, <1>3 DEF TypeOK, Flushers, InFlight
    <2> QED BY <1>3, <1>4, <1>5, <1>6, <1>14, <2>1, BatchStays DEF L, F
  <1>16. LossNeedsOverlapOrTornFile'
    <2>1. ASSUME NEW n \in 1..L
          PROVE  Queued(n)' \/ Accounted(n)' \/ Excused(n)'
      <3>1. CASE Queued(n)
        <4>1. PICK i \in 1..F : file[i].n = n
          BY <1>1, <3>1 DEF Queued, InFile, F
        <4>2. file'[i] \in InFile' /\ file'[i].n = n
          BY <1>1, <1>2, <1>5, <1>6, <4>1, SMTT(30) DEF InFile
        <4> QED BY <4>2 DEF Queued
      <3>2. CASE Accounted(n) \/ Excused(n)
        BY <1>1, <1>3, <1>4, <1>14, <3>2, Grows DEF L
      <3> QED BY <1>1, <3>1, <3>2 DEF LossNeedsOverlapOrTornFile, L
    <2>2. ASSUME NEW n, n = L + 1
          PROVE  Queued(n)'
      <3>1. x \in InFile'
        BY <1>1, <1>2, <1>5 DEF InFile
      <3> QED BY <1>7, <2>2, <3>1 DEF Queued
    <2>3. \A n \in 1..(L + 1) : n \in 1..L \/ n = L + 1
      BY <1>1
    <2> QED BY <1>4, <2>1, <2>2, <2>3 DEF LossNeedsOverlapOrTornFile
  <1>17. RecoveryHasItsFiring'
    BY <1>3, <1>4, <1>14, RecoveryStays DEF L
  <1> QED BY <1>8, <1>13, <1>15, <1>16, <1>17 DEF QueueInv

(* A write of the file that fails takes its events, and they are on record.    *)
LEMMA SaveFailsNext ==
    ASSUME QueueInv, TypeOK', saveFails, UNCHANGED <<minted, relay, enqueued, trampled>>,
           \A f \in Flushers : InFlight(f)' => UNCHANGED <<pc[f], batch[f], taken[f]>>,
           \A f \in Flushers : batch'[f] \subseteq batch[f]
    PROVE  QueueInv'
  <1>1. InFile' = {}
    BY DEF saveFails, InFile
  <1>2. Seen' \subseteq Seen
    BY <1>1 DEF Seen, Flushers
  <1>3. FileIsSuffix'
    <2>1. file' # Torn => Len(file') = 0
      BY DEF saveFails
    <2>2. Len(enqueued) \in Nat
      BY DEF QueueInv, TypeOK
    <2> QED BY <2>1, <2>2 DEF FileIsSuffix
  <1>4. EventsAreKnown'
    BY <1>2 DEF QueueInv, EventsAreKnown, Flushers
  <1>5. torn \subseteq torn' /\ InFile \subseteq torn' /\ Len(enqueued) <= Len(enqueued')
    BY DEF saveFails, QueueInv, TypeOK
  <1>6. ASSUME NEW f \in Flushers
        PROVE  BatchIsWhole(f)'
    <2>1. /\ InFlight(f)' => InFlight(f) /\ batch'[f] = batch[f] /\ taken'[f] = taken[f]
          /\ pc'[f] = "answered" => pc[f] = "answered"
      BY DEF InFlight
    <2>2. InFlight(f) => stale'[f]
      BY DEF saveFails
    <2> QED BY <1>5, <2>1, <2>2, BatchStays
  <1>7. LossNeedsOverlapOrTornFile'
    BY <1>5 DEF QueueInv, LossNeedsOverlapOrTornFile, Queued, Accounted, Reported, Excused
  <1>8. RecoveryHasItsFiring'
    BY <1>5, RecoveryStays
  <1> QED BY <1>3, <1>4, <1>6, <1>7, <1>8 DEF QueueInv

(* A condensed batch stands for the whole file and keeps a recovery's firing.  *)
LEMMA CondensedIsWhole ==
    ASSUME TypeOK, FileIsSuffix, EventsAreKnown, LossNeedsOverlapOrTornFile, file # Torn,
           NEW f \in Flushers, batch[f] = condenseMonitorEvents(file)
    PROVE  /\ \A i \in 1..Len(file) : \E e \in batch[f] : Replaces(e, file[i].n)
           /\ \A e \in batch[f] : e.to = "resolved" => FiringGoesWith(f, e)
  <1> DEFINE L == Len(enqueued)
             F == Len(file)
  <1>1. file \in Seq(Events) /\ L \in Nat /\ F \in Nat /\ F <= L
    BY DEF TypeOK, FileIsSuffix
  <1>2. \A i \in 1..F :
           /\ file[i] \in InFile /\ file[i] \in Seen /\ file[i].n = L - F + i /\ file[i].n \in 1..L
           /\ enqueued[file[i].n] = [key |-> file[i].key, to |-> file[i].to]
    BY <1>1 DEF InFile, Seen, FileIsSuffix, EventsAreKnown
  <1>3. condensePositions(file) \subseteq 1..F
    BY DEF condensePositions
  <1>4. \A p \in condensePositions(file) : file[p] \in batch[f]
    BY DEF condenseMonitorEvents
  <1> HIDE DEF L, F
  <1>5. ASSUME NEW i \in 1..F, NEW j \in 1..F
        PROVE  i < j <=> file[i].n < file[j].n
    <2>1. file[i].n = L - F + i /\ file[j].n = L - F + j
      BY <1>2
    <2> QED BY <1>1, <2>1
  <1>6. \A a, b, c, d : [key |-> a, to |-> b] = [key |-> c, to |-> d] => a = c /\ b = d
    <2> SUFFICES ASSUME NEW a, NEW b, NEW c, NEW d, [key |-> a, to |-> b] = [key |-> c, to |-> d]
                 PROVE  a = c /\ b = d
      OBVIOUS
    <2>1. [key |-> a, to |-> b].key = [key |-> c, to |-> d].key
      OBVIOUS
    <2>2. [key |-> a, to |-> b].to = [key |-> c, to |-> d].to
      OBVIOUS
    <2> QED BY <2>1, <2>2
  <1>7. ASSUME NEW i \in 1..F
        PROVE  \E e \in batch[f] : Replaces(e, file[i].n)
    <2>1. PICK p \in condensePositions(file) :
             p = i \/ (p > i /\ file[p].key = file[i].key /\ file[p].to \in {"firing", file[i].to})
      BY <1>1, CondensingKeeps DEF F
    <2>2. CASE p = i
      BY <1>4, <2>1, <2>2 DEF Replaces
    <2>3. CASE p # i
      <3>1. p \in 1..F /\ i < p /\ file[p].key = file[i].key /\ file[p].to \in {"firing", file[i].to}
        BY <1>1, <1>3, <2>1, <2>3
      <3>2. file[i].n < file[p].n /\ file[p].n \in Nat /\ file[i].n \in Nat
        <4>1. file[i].n \in 1..L /\ file[p].n \in 1..L
          BY <1>2, <3>1
        <4>2. file[i].n < file[p].n
          BY <1>5, <3>1
        <4> QED BY <1>1, <4>1, <4>2
      <3>3. enqueued[file[i].n] = [key |-> file[i].key, to |-> file[i].to]
        BY <1>2
      <3>4. Replaces(file[p], file[i].n)
        BY <3>1, <3>2, <3>3 DEF Replaces
      <3> QED BY <1>4, <3>4
    <2> QED BY <2>2, <2>3
  <1>8. ASSUME NEW e \in batch[f], e.to = "resolved",
               NEW n \in 1..(e.n - 1), enqueued[n] = [key |-> e.key, to |-> "firing"]
        PROVE  \/ \E d \in batch[f] \cup relay :
                     d.key = e.key /\ d.to = "firing" /\ d.n \in n..(e.n - 1)
               \/ Excused(n)
    <2>1. PICK p \in condensePositions(file) : e = file[p]
      BY DEF condenseMonitorEvents
    <2>2. p \in 1..F
      BY <1>3
    <2>3. e.n = L - F + p /\ e.n \in 1..L /\ enqueued[e.n] = [key |-> e.key, to |-> e.to]
      BY <1>2, <2>1, <2>2
    <2>4. n \in 1..L /\ n \in Nat /\ e.n \in Nat /\ n < e.n
      BY <1>1, <2>3
    <2>5. CASE Queued(n)
      <3>1. PICK i \in 1..F : file[i].n = n
        BY <2>5 DEF Queued, InFile, F
      <3>2. i < p
        BY <1>5, <2>1, <2>2, <2>4, <3>1
      <3>3. file[i].key = e.key /\ file[i].to = "firing"
        <4>1. [key |-> e.key, to |-> "firing"] = [key |-> file[i].key, to |-> file[i].to]
          BY <1>2, <1>8, <3>1
        <4> QED BY <1>6, <4>1
      <3>4. PICK m \in condensePositions(file) :
               m \in i..(p - 1) /\ file[m].key = e.key /\ file[m].to = "firing"
        BY <1>1, <1>8, <2>1, <3>2, <3>3, CondensingKeepsFiring DEF F
      <3>5. file[m].n \in n..(e.n - 1)
        <4>1. m \in 1..F
          BY <1>3
        <4>2. file[m].n = L - F + m /\ n = L - F + i
          BY <1>2, <3>1, <4>1
        <4> QED BY <1>1, <2>2, <2>3, <3>4, <4>1, <4>2
      <3> QED BY <1>4, <3>4, <3>5
    <2>6. CASE Accounted(n)
      <3>1. PICK r \in relay :
               r.n = n \/ (r.n > n /\ r.key = e.key /\ r.to = "firing")
        BY <1>8, <2>6 DEF Accounted, Reported
      <3>2. r.n \in 1..L /\ enqueued[r.n] = [key |-> r.key, to |-> r.to]
        BY DEF EventsAreKnown, Seen, L
      <3>3. r.key = e.key /\ r.to = "firing" /\ r.n >= n
        <4>1. CASE r.n = n
          <5>1. [key |-> e.key, to |-> "firing"] = [key |-> r.key, to |-> r.to]
            BY <1>8, <3>2, <4>1
          <5> QED BY <1>6, <2>4, <4>1, <5>1
        <4>2. CASE r.n # n
          BY <1>1, <2>4, <3>1, <3>2, <4>2
        <4> QED BY <4>1, <4>2
      <3>4. r.n # e.n
        <4> SUFFICES ASSUME r.n = e.n
                     PROVE  FALSE
          OBVIOUS
        <4>1. [key |-> e.key, to |-> e.to] = [key |-> r.key, to |-> r.to]
          BY <2>3, <3>2
        <4> QED BY <1>6, <1>8, <3>3, <4>1
      <3>5. ~(r.n > e.n)
        <4> SUFFICES ASSUME r.n > e.n
                     PROVE  FALSE
          OBVIOUS
        <4> DEFINE j == p + (r.n - e.n)
        <4>1. j \in 1..F /\ j \in (p + 1)..F /\ L - F + j = r.n
          <5>1. L \in Nat /\ F \in Nat /\ p \in Nat /\ r.n \in Nat /\ e.n \in Nat /\ r.n <= L /\ p >= 1
            BY <1>1, <2>2, <2>3, <3>2
          <5> QED BY <2>3, <5>1
        <4> HIDE DEF j
        <4>2. file[j].n = r.n
          BY <1>2, <4>1
        <4>3. file[j].key = e.key /\ file[j].to = "firing"
          <5>1. [key |-> file[j].key, to |-> file[j].to] = [key |-> r.key, to |-> r.to]
            BY <1>2, <3>2, <4>1, <4>2
          <5> QED BY <1>6, <3>3, <5>1
        <4> QED BY <2>1, <4>1, <4>3 DEF condensePositions, F
      <3>6. r.n \in n..(e.n - 1)
        BY <1>1, <2>3, <2>4, <3>2, <3>3, <3>4, <3>5
      <3> QED BY <3>3, <3>6
    <2> QED BY <2>4, <2>5, <2>6 DEF LossNeedsOverlapOrTornFile, L
  <1> QED BY <1>7, <1>8 DEF FiringGoesWith, F

(* ... after a step as well.                                                   *)
LEMMA CondensedIsWholeNext ==
    ASSUME NEW f \in Flushers
    PROVE  ( /\ TypeOK /\ FileIsSuffix /\ EventsAreKnown /\ LossNeedsOverlapOrTornFile
             /\ file # Torn /\ batch[f] = condenseMonitorEvents(file)
             => /\ \A i \in 1..Len(file) : \E e \in batch[f] : Replaces(e, file[i].n)
                /\ \A e \in batch[f] : e.to = "resolved" => FiringGoesWith(f, e) )'
  <1>1. ( /\ TypeOK /\ FileIsSuffix /\ EventsAreKnown /\ LossNeedsOverlapOrTornFile
          /\ file # Torn /\ batch[f] = condenseMonitorEvents(file)
          => /\ \A i \in 1..Len(file) : \E e \in batch[f] : Replaces(e, file[i].n)
             /\ \A e \in batch[f] : e.to = "resolved" => FiringGoesWith(f, e) )
    BY CondensedIsWhole
  <1> QED BY <1>1, PTL

(* A flush reads, condenses and gives ids, and keeps the batch it will send.  *)
LEMMA FlushReadNext ==
    ASSUME QueueInv, TypeOK', NEW f \in Flushers, FlushRead(f)
    PROVE  QueueInv'
  <1> DEFINE L == Len(enqueued)
             F == Len(file)
             Old(e) == e \in Seen /\ e.id # 0
             Filled(e) == \E d \in InFile : d.id = 0 /\ e = [d EXCEPT !.id = minted + 1]
  <1>1. /\ TypeOK /\ FileIsSuffix /\ EventsAreKnown /\ LossNeedsOverlapOrTornFile
        /\ file # Torn /\ L \in Nat /\ F \in Nat /\ minted \in Nat
    BY DEF QueueInv, TypeOK, FlushRead
  <1>2. /\ file \in Seq(Events) /\ file' \in Seq(Events) /\ Len(file') = F
        /\ F \in Nat \ {0} /\ file' # Torn
        /\ minted' \in Nat /\ minted' >= minted
        /\ \A i \in 1..F :
              file'[i] = IF file[i].id # 0 THEN file[i] ELSE [file[i] EXCEPT !.id = minted + 1]
        /\ Missing(file) # {} => minted' = minted + 1
        /\ condenseMonitorEvents(file') \subseteq InFile'
    BY <1>1, ReadIs
  <1>3. /\ relay' = relay /\ enqueued' = enqueued /\ trampled' = trampled /\ torn' = torn
        /\ batch' = [batch EXCEPT ![f] = condenseMonitorEvents(file')]
        /\ taken' = [taken EXCEPT ![f] = F]
        /\ pc' = [pc EXCEPT ![f] = "send"] /\ stale' = [stale EXCEPT ![f] = FALSE]
    BY DEF FlushRead
  <1>4. \A e \in Events : /\ [e EXCEPT !.id = minted + 1].n = e.n
                          /\ [e EXCEPT !.id = minted + 1].id = minted + 1
                          /\ [e EXCEPT !.id = minted + 1].key = e.key
                          /\ [e EXCEPT !.id = minted + 1].to = e.to
    BY DEF Events
  <1>5. \A i \in 1..F : file[i] \in Events /\ file[i] \in InFile
    BY <1>1, <1>2 DEF InFile
  <1>6. \A i \in 1..F : file'[i].n = file[i].n
    BY <1>2, <1>4, <1>5
  <1> HIDE DEF L, F
  <1>7. minted + 1 # 0 /\ ~(minted + 1 <= minted)
    BY <1>1
  <1>8. \A e \in InFile' : (e \in InFile /\ Old(e)) \/ Filled(e)
    <2>1. ASSUME NEW i \in 1..F
          PROVE  (file'[i] \in InFile /\ Old(file'[i])) \/ Filled(file'[i])
      BY <1>2, <1>5 DEF Seen
    <2> QED BY <1>2, <2>1, SMTT(30) DEF InFile
  <1>9. \A e : Old(e) =>
           /\ e \in Seen /\ e.n \in 1..L /\ e.id <= minted /\ e.id # 0 /\ e.id # minted + 1
           /\ enqueued[e.n] = [key |-> e.key, to |-> e.to]
    BY <1>1, <1>7 DEF EventsAreKnown, L
  <1>10. \A e : Filled(e) =>
            /\ e.n = 1 /\ 1 \in 1..L /\ e.id = minted + 1 /\ minted + 1 = minted'
            /\ enqueued[e.n] = [key |-> e.key, to |-> e.to]
            /\ \A d : Old(d) => d.n # e.n
    <2> SUFFICES ASSUME NEW e, NEW d \in InFile, d.id = 0, e = [d EXCEPT !.id = minted + 1]
                 PROVE  /\ e.n = 1 /\ 1 \in 1..L /\ e.id = minted + 1 /\ minted + 1 = minted'
                        /\ enqueued[e.n] = [key |-> e.key, to |-> e.to]
                        /\ \A o : Old(o) => o.n # e.n
      OBVIOUS
    <2>1. d \in Seen /\ d \in Events
      BY <1>1, <1>5 DEF Seen, InFile, F
    <2>2. e.n = d.n /\ e.id = minted + 1 /\ e.key = d.key /\ e.to = d.to
      BY <1>4, <2>1
    <2>3. PICK i \in 1..F : d = file[i]
      BY <1>1 DEF InFile, F
    <2>4. d.n = 1 /\ i \in Missing(file)
      BY <1>1, <2>3 DEF FileIsSuffix, Missing, F
    <2>5. d.n \in 1..L /\ enqueued[d.n] = [key |-> d.key, to |-> d.to]
      BY <1>1, <2>1 DEF EventsAreKnown, L
    <2>6. \A o : Old(o) => o.n # d.n
      BY <1>1, <2>1 DEF EventsAreKnown
    <2> QED BY <1>2, <2>2, <2>4, <2>5, <2>6
  <1> HIDE DEF Filled
  <1>11. FileIsSuffix'
    <2>1. ASSUME NEW i \in 1..F
          PROVE  file'[i].n = L - F + i /\ file'[i].id # 0
      <3>1. file[i].n = L - F + i
        BY <1>1 DEF FileIsSuffix, F, L
      <3>2. file'[i] \in InFile'
        BY <1>2 DEF InFile
      <3>3. file'[i].id # 0
        BY <1>7, <1>8, <1>10, <3>2
      <3> QED BY <1>6, <3>1, <3>3
    <2>2. Len(file) <= Len(enqueued)
      BY <1>1 DEF FileIsSuffix
    <2> QED BY <1>2, <1>3, <2>1, <2>2 DEF FileIsSuffix, F, L
  <1>12. /\ batch'[f] = condenseMonitorEvents(file')
         /\ \A g \in Flushers : g # f => batch'[g] = batch[g]
    BY <1>1, <1>3 DEF TypeOK
  <1>13. \A e \in Seen' : Old(e) \/ Filled(e)
    <2>1. \A e \in relay : Old(e)
      BY <1>1 DEF Seen, EventsAreKnown
    <2>2. \A g \in Flushers : \A e \in batch[g] : Old(e)
      BY <1>1 DEF Seen, EventsAreKnown, Flushers
    <2>3. \A g \in Flushers : \A e \in batch'[g] : Old(e) \/ Filled(e)
      BY <1>2, <1>8, <1>12, <2>2
    <2> QED BY <1>3, <1>8, <2>1, <2>3 DEF Seen, Flushers
  <1> HIDE DEF Old
  <1>14. EventsAreKnown'
    <2>1. ASSUME NEW e \in Seen'
          PROVE  /\ e.n \in 1..L /\ enqueued[e.n] = [key |-> e.key, to |-> e.to]
                 /\ e.id <= minted' /\ e.id # 0
      <3>1. CASE Old(e)
        <4>1. e.id \in Int
          <5>1. /\ InFile \subseteq Events /\ relay \subseteq Events
                /\ \A g \in Flushers : batch[g] \subseteq Events
            BY <1>1, <1>5 DEF InFile, TypeOK, F
          <5>2. e \in Events
            BY <1>9, <3>1, <5>1 DEF Seen, Flushers
          <5> QED BY <5>2 DEF Events
        <4> QED BY <1>1, <1>2, <1>9, <3>1, <4>1
      <3>2. CASE Filled(e)
        BY <1>1, <1>2, <1>7, <1>10, <3>2
      <3> QED BY <1>13, <3>1, <3>2
    <2>2. \A e \in (relay \cup batch["engine"] \cup batch["heartbeat"])' : e \in Seen'
      BY DEF Seen
    <2>3. ASSUME NEW d \in Seen', NEW e \in Seen'
          PROVE  d.n = e.n <=> d.id = e.id
      <3>1. CASE Old(d) /\ Old(e)
        BY <1>1, <1>9, <3>1 DEF EventsAreKnown
      <3>2. CASE Filled(d) /\ Filled(e)
        BY <1>10, <3>2
      <3>3. CASE (Old(d) /\ Filled(e)) \/ (Old(e) /\ Filled(d))
        BY <1>9, <1>10, <3>3
      <3> QED BY <1>13, <3>1, <3>2, <3>3
    <2> QED BY <1>3, <2>1, <2>2, <2>3 DEF EventsAreKnown, L
  <1>15. LossNeedsOverlapOrTornFile'
    <2>1. ASSUME NEW n \in 1..L
          PROVE  Queued(n)' \/ Accounted(n)' \/ Excused(n)'
      <3>1. CASE Queued(n)
        <4>1. PICK i \in 1..F : file[i].n = n
          BY <1>1, <3>1 DEF Queued, InFile, F
        <4>2. file'[i] \in InFile' /\ file'[i].n = n
          BY <1>2, <1>6, <4>1 DEF InFile
        <4> QED BY <4>2 DEF Queued
      <3>2. CASE Accounted(n) \/ Excused(n)
        BY <1>3, <3>2 DEF Accounted, Reported, Excused
      <3> QED BY <1>1, <3>1, <3>2 DEF LossNeedsOverlapOrTornFile, L
    <2> QED BY <1>3, <2>1 DEF LossNeedsOverlapOrTornFile, L
  <1>16. ASSUME NEW g \in Flushers
         PROVE  BatchIsWhole(g)'
    <2>1. CASE g = f
      <3>1. /\ \A i \in 1..Len(file)' : \E e \in batch[f]' : Replaces(e, file[i].n)'
            /\ \A e \in batch[f]' : e.to = "resolved" => FiringGoesWith(f, e)'
        BY <1>2, <1>11, <1>12, <1>14, <1>15, CondensedIsWholeNext DEF condenseMonitorEvents, condensePositions
      <3>2. pc'[f] = "send" /\ taken'[f] = Len(file')
        BY <1>1, <1>2, <1>3 DEF TypeOK
      <3>3. Len(file') \in Nat
        BY <1>1, <1>2
      <3> QED BY <1>2, <2>1, <3>1, <3>2, <3>3 DEF BatchIsWhole
    <2>2. CASE g # f
      <3>1. pc'[g] = pc[g] /\ taken'[g] = taken[g] /\ stale'[g] = stale[g] /\ batch'[g] = batch[g]
        BY <1>1, <1>3, <1>12, <2>2 DEF TypeOK
      <3>2. Len(enqueued) <= Len(enqueued') /\ Len(file) <= Len(file')
        BY <1>1, <1>2, <1>3 DEF L, F
      <3>3. InFlight(g)' => InFlight(g)
        BY <3>1 DEF InFlight
      <3> QED BY <1>2, <1>3, <1>6, <3>1, <3>2, <3>3, BatchStays DEF F
    <2> QED BY <2>1, <2>2
  <1>17. RecoveryHasItsFiring'
    <2>1. Len(enqueued) <= Len(enqueued')
      BY <1>1, <1>3 DEF L
    <2> QED BY <1>3, <2>1, RecoveryStays
  <1> QED BY <1>11, <1>14, <1>15, <1>16, <1>17 DEF QueueInv

(* The relay gets the batch, or does not, or the answer is lost.              *)
LEMMA SendNext ==
    ASSUME QueueInv, TypeOK', NEW f \in Flushers, SendMonitorEvents(f)
    PROVE  QueueInv'
  <1>1. /\ TypeOK /\ EventsAreKnown /\ UNCHANGED <<file, minted, batch, taken, record>>
        /\ relay' = relay \cup {e \in batch[f] : \A r \in relay : r.id # e.id}
        /\ pc[f] = "send" /\ pc' = [pc EXCEPT ![f] = "answered"] /\ InFlight(f)
    BY DEF QueueInv, SendMonitorEvents, InFlight
  <1>2. Seen' = Seen /\ InFile' = InFile /\ relay \subseteq relay'
    BY <1>1 DEF Seen, InFile, Flushers
  <1>3. FileIsSuffix'
    BY <1>1 DEF QueueInv, FileIsSuffix, record
  <1>4. EventsAreKnown'
    BY <1>1, <1>2 DEF EventsAreKnown, Flushers, record
  <1>5. ASSUME NEW d \in batch[f]
        PROVE  \E r \in relay' : r.n = d.n /\ r.key = d.key /\ r.to = d.to
    <2>1. CASE \A r \in relay : r.id # d.id
      BY <1>1, <2>1
    <2>2. ASSUME NEW r \in relay, r.id = d.id
          PROVE  r.n = d.n /\ r.key = d.key /\ r.to = d.to
      <3>1. r \in Seen /\ d \in Seen
        BY DEF Seen, Flushers
      <3>2. r.n = d.n
        BY <1>1, <2>2, <3>1 DEF EventsAreKnown
      <3>3. [key |-> r.key, to |-> r.to] = [key |-> d.key, to |-> d.to]
        BY <1>1, <3>1, <3>2 DEF EventsAreKnown
      <3>4. /\ [key |-> r.key, to |-> r.to].key = [key |-> d.key, to |-> d.to].key
            /\ [key |-> r.key, to |-> r.to].to = [key |-> d.key, to |-> d.to].to
        BY <3>3
      <3> QED BY <3>2, <3>4
    <2> QED BY <1>2, <2>1, <2>2
  <1>6. /\ Len(enqueued) <= Len(enqueued') /\ trampled' = trampled /\ torn' = torn
        /\ enqueued' = enqueued
    BY <1>1 DEF TypeOK, record
  <1>7. LossNeedsOverlapOrTornFile'
    <2>1. ASSUME NEW n \in 1..Len(enqueued)
          PROVE  Queued(n)' \/ Accounted(n)' \/ Excused(n)'
      BY <1>1, <1>2, <1>6, Grows DEF QueueInv, LossNeedsOverlapOrTornFile, Queued
    <2> QED BY <1>6, <2>1 DEF LossNeedsOverlapOrTornFile
  <1>8. ASSUME NEW g \in Flushers
        PROVE  BatchIsWhole(g)'
    <2>1. /\ InFlight(g)' => InFlight(g) /\ batch'[g] = batch[g] /\ taken'[g] = taken[g]
          /\ pc'[g] = "answered" => pc[g] = "answered" \/ g = f
          /\ stale'[g] = stale[g]
      BY <1>1 DEF InFlight, TypeOK, record
    <2>2. \A e \in batch[f] : Reported(e.n)'
      BY <1>5 DEF Reported
    <2>3. file # Torn => Len(file) <= Len(file')
      BY <1>1 DEF TypeOK
    <2> QED BY <1>1, <1>2, <1>6, <2>1, <2>2, <2>3, BatchStays
  <1>9. RecoveryHasItsFiring'
    <2> SUFFICES ASSUME NEW e \in relay', e.to = "resolved", NEW n \in 1..(e.n - 1),
                        enqueued[n] = [key |-> e.key, to |-> "firing"]
                 PROVE  \/ \E d \in relay' :
                              d.key = e.key /\ d.to = "firing" /\ d.n \in n..(e.n - 1)
                        \/ Excused(n)
      BY <1>6 DEF RecoveryHasItsFiring, Excused
    <2>1. CASE e \in relay
      BY <1>2, <2>1 DEF QueueInv, RecoveryHasItsFiring
    <2>2. CASE e \in batch[f]
      <3>1. FiringGoesWith(f, e)
        BY <1>1, <2>2 DEF QueueInv, BatchIsWhole
      <3>2. \/ \E d \in batch[f] \cup relay :
                  d.key = e.key /\ d.to = "firing" /\ d.n \in n..(e.n - 1)
            \/ Excused(n)
        BY <3>1 DEF FiringGoesWith
      <3> QED BY <1>2, <1>5, <3>2
    <2> QED BY <1>1, <2>1, <2>2
  <1> QED BY <1>3, <1>4, <1>7, <1>8, <1>9 DEF QueueInv

(* What was sent is dropped from the file, as it is by then.                  *)
LEMMA FlushClearNext ==
    ASSUME QueueInv, TypeOK', NEW f \in Flushers, FlushClear(f)
    PROVE  QueueInv'
  <1> DEFINE L == Len(enqueued)
             F == Len(file)
             t == taken[f]
  <1>1. /\ TypeOK /\ EventsAreKnown /\ pc[f] = "answered" /\ InFlight(f) /\ BatchIsWhole(f)
        /\ file # Torn /\ file' = Remaining(t) /\ Done(f)
        /\ stale' = [g \in Flushers |-> stale[g] \/ (g # f /\ InFlight(g))]
        /\ trampled' = IF stale[f] THEN trampled \cup (InFile \ {file'[i] : i \in 1..Len(file')})
                                    ELSE trampled
        /\ UNCHANGED <<minted, relay, enqueued, torn, crashes, faults>>
    BY DEF QueueInv, FlushClear, InFlight
  <1>2. file \in Seq(Events) /\ F \in Nat /\ t \in Nat /\ t > 0 /\ L \in Nat
    BY <1>1 DEF TypeOK, InFlight
  <1>3. /\ file' \in Seq(Events)
        /\ Len(file') = IF F <= t THEN 0 ELSE F - t
        /\ \A i \in 1..Len(file') : t + i \in 1..F /\ file'[i] = file[t + i]
    <2>1. CASE F <= t
      BY <1>1, <1>2, <2>1 DEF Remaining
    <2>2. CASE ~(F <= t)
      <3>1. file' = SubSeq(file, t + 1, F)
        BY <1>1, <2>2 DEF Remaining
      <3>2. t + 1 \in 1..F /\ F \in 1..F /\ F - (t + 1) + 1 = F - t /\ t + 1 <= F + 1
        BY <1>2, <2>2
      <3>3. /\ file' \in Seq(Events) /\ Len(file') = F - t
            /\ \A i \in 1..(F - t) : file'[i] = file[(t + 1) + i - 1]
        BY <1>2, <3>1, <3>2, SMTT(30)
      <3>4. \A i \in 1..(F - t) : t + i \in 1..F /\ (t + 1) + i - 1 = t + i
        BY <1>2
      <3> QED BY <2>2, <3>3, <3>4
    <2> QED BY <2>1, <2>2
  <1>4. file' # Torn
    BY <1>3, TornAssumption
  <1>5. InFile' \subseteq InFile /\ InFile' = {file'[i] : i \in 1..Len(file')}
    BY <1>1, <1>3, <1>4 DEF InFile
  <1>6. \A g \in Flushers : batch'[g] \subseteq batch[g]
    BY <1>1 DEF Done, TypeOK
  <1>7. EventsAreKnown'
    <2>1. Seen' \subseteq Seen
      BY <1>1, <1>5, <1>6 DEF Seen, Flushers
    <2> QED BY <1>1, <1>6, <2>1 DEF EventsAreKnown, Flushers
  <1>8. FileIsSuffix'
    <2>1. /\ F <= L
          /\ \A i \in 1..F : file[i].n = L - F + i /\ (file[i].id = 0 => file[i].n = 1)
      BY <1>1 DEF QueueInv, FileIsSuffix
    <2>2. ASSUME NEW i \in 1..Len(file')
          PROVE  file'[i].n = L - Len(file') + i /\ (file'[i].id = 0 => file'[i].n = 1)
      <3>1. /\ file'[i] = file[t + i] /\ file[t + i].n = L - F + (t + i)
            /\ (file[t + i].id = 0 => file[t + i].n = 1)
        BY <1>3, <2>1
      <3>2. ~(F <= t) /\ Len(file') = F - t /\ i \in Nat
        BY <1>2, <1>3
      <3> QED BY <1>2, <3>1, <3>2
    <2>3. Len(file') <= L
      BY <1>2, <1>3, <2>1
    <2> QED BY <1>1, <2>2, <2>3 DEF FileIsSuffix
  <1>9. Len(enqueued) <= Len(enqueued') /\ trampled \subseteq trampled' /\ torn' = torn
    BY <1>1, <1>2
  <1>10. ASSUME NEW g \in Flushers
         PROVE  BatchIsWhole(g)'
    <2>1. CASE g = f
      BY <1>1, <2>1 DEF BatchIsWhole, InFlight, Done, TypeOK
    <2>2. CASE g # f
      <3>1. pc'[g] = pc[g] /\ batch'[g] = batch[g] /\ taken'[g] = taken[g]
        BY <1>1, <2>2 DEF Done, TypeOK
      <3>2. InFlight(g) => stale'[g]
        BY <1>1, <2>2
      <3>3. InFlight(g)' => InFlight(g)
        BY <3>1 DEF InFlight
      <3> QED BY <1>1, <1>9, <3>1, <3>2, <3>3, BatchStays
    <2> QED BY <2>1, <2>2
  <1>11. LossNeedsOverlapOrTornFile'
    <2>1. ASSUME NEW n \in 1..L
          PROVE  Queued(n)' \/ Accounted(n)' \/ Excused(n)'
      <3>1. CASE Queued(n)
        <4>1. PICK i \in 1..F : file[i].n = n
          BY <1>1, <3>1 DEF Queued, InFile
        <4>2. CASE i > t
          <5> DEFINE j == i - t
          <5>1. j \in 1..Len(file') /\ t + j = i
            BY <1>2, <1>3, <4>1, <4>2
          <5> HIDE DEF j
          <5>2. file'[j].n = n /\ file'[j] \in InFile'
            BY <1>3, <1>5, <4>1, <5>1
          <5> QED BY <5>2 DEF Queued
        <4>3. CASE i <= t /\ ~stale[f]
          <5>1. PICK e \in batch[f] : Replaces(e, n)
            <6>1. i \in 1..t
              BY <1>2, <4>3
            <6> QED BY <1>1, <4>1, <4>3, <6>1 DEF BatchIsWhole
          <5>2. PICK r \in relay : r.n = e.n
            BY <1>1 DEF BatchIsWhole, Reported
          <5>3. r \in Seen /\ e \in Seen
            BY DEF Seen, Flushers
          <5>4. [key |-> r.key, to |-> r.to] = [key |-> e.key, to |-> e.to]
            BY <1>1, <5>2, <5>3 DEF EventsAreKnown
          <5>5. /\ [key |-> r.key, to |-> r.to].key = [key |-> e.key, to |-> e.to].key
                /\ [key |-> r.key, to |-> r.to].to = [key |-> e.key, to |-> e.to].to
            BY <5>4
          <5>6. Accounted(n)
            BY <5>1, <5>2, <5>5 DEF Replaces, Accounted, Reported
          <5> QED BY <1>1, <5>6 DEF Accounted, Reported
        <4>4. CASE stale[f]
          <5>1. file[i] \in InFile
            BY <1>1 DEF InFile
          <5>2. file[i] \in InFile' \/ file[i] \in trampled'
            BY <1>1, <1>5, <4>4, <5>1
          <5> QED BY <4>1, <5>2 DEF Queued, Excused
        <4> QED BY <1>2, <4>2, <4>3, <4>4
      <3>2. CASE Accounted(n) \/ Excused(n)
        BY <1>1, <1>9, <3>2 DEF Accounted, Reported, Excused
      <3> QED BY <3>1, <3>2 DEF QueueInv, LossNeedsOverlapOrTornFile
    <2> QED BY <1>1, <2>1 DEF LossNeedsOverlapOrTornFile
  <1>12. RecoveryHasItsFiring'
    BY <1>1, <1>9, RecoveryStays
  <1> QED BY <1>7, <1>8, <1>10, <1>11, <1>12 DEF QueueInv

(* Every step keeps the invariant.                                            *)
LEMMA QueueNext == QueueInv /\ [Next]_vars => QueueInv'
  <1> SUFFICES ASSUME QueueInv, [Next]_vars
               PROVE  QueueInv'
    OBVIOUS
  <1>1. TypeOK' /\ TypeOK
    BY QueueType DEF QueueInv
  <1>2. ASSUME NEW k \in Monitors, NEW to \in {"firing", "resolved"}, EnqueueMonitorEvent(k, to)
        PROVE  QueueInv'
    BY <1>1, <1>2, EnqueueNext
  <1>3. CASE EnqueueFails
    BY <1>1, <1>3, SaveFailsNext DEF EnqueueFails
  <1>4. CASE Heartbeat
    <2>1. /\ UNCHANGED <<file, minted, relay, batch, taken, enqueued, stale, trampled, torn>>
          /\ pc' = [pc EXCEPT !["heartbeat"] = "flush"] /\ pc["heartbeat"] = "idle"
      BY <1>4 DEF Heartbeat, record
    <2>2. ASSUME NEW f \in Flushers
          PROVE  \/ ~InFlight(f)' /\ batch'[f] \subseteq batch[f]
                 \/ /\ InFlight(f) /\ UNCHANGED <<pc[f], batch[f], taken[f]>>
                    /\ stale[f] => stale'[f]
      BY <1>1, <2>1 DEF InFlight, TypeOK
    <2> QED BY <1>1, <2>1, <2>2, QuietNext
  <1>5. ASSUME NEW f \in Flushers, FlushRead(f)
        PROVE  QueueInv'
    BY <1>1, <1>5, FlushReadNext
  <1>6. ASSUME NEW f \in Flushers, Done(f)
        PROVE  /\ \A g \in Flushers :
                     \/ ~InFlight(g)' /\ batch'[g] \subseteq batch[g]
                     \/ g # f /\ UNCHANGED <<pc[g], batch[g], taken[g]>>
               /\ \A g \in Flushers : InFlight(g)' => UNCHANGED <<pc[g], batch[g], taken[g]>>
               /\ \A g \in Flushers : batch'[g] \subseteq batch[g]
    BY <1>1, <1>6 DEF Done, InFlight, TypeOK
  <1>7. ASSUME NEW f \in Flushers, Done(f),
               UNCHANGED <<file, minted, relay, enqueued, trampled, torn, stale>>
        PROVE  QueueInv'
    <2>1. ASSUME NEW g \in Flushers
          PROVE  \/ ~InFlight(g)' /\ batch'[g] \subseteq batch[g]
                 \/ /\ InFlight(g) /\ UNCHANGED <<pc[g], batch[g], taken[g]>>
                    /\ stale[g] => stale'[g]
      <3>1. CASE InFlight(g)'
        BY <1>6, <1>7, <3>1 DEF InFlight
      <3>2. CASE ~InFlight(g)'
        BY <1>6, <1>7, <3>2
      <3> QED BY <3>1, <3>2
    <2> QED BY <1>1, <1>7, <2>1, QuietNext
  <1>8. ASSUME NEW f \in Flushers, FlushNothing(f) \/ SendFails(f)
        PROVE  QueueInv'
    BY <1>7, <1>8 DEF FlushNothing, SendFails, record
  <1>9. ASSUME NEW f \in Flushers, Done(f), saveFails,
               UNCHANGED <<minted, relay, enqueued, trampled>>
        PROVE  QueueInv'
    BY <1>1, <1>6, <1>9, SaveFailsNext
  <1>10. ASSUME NEW f \in Flushers, FlushReadFails(f)
         PROVE  QueueInv'
    BY <1>9, <1>10 DEF FlushReadFails
  <1>11. ASSUME NEW f \in Flushers, FlushClearFails(f)
         PROVE  QueueInv'
    BY <1>7, <1>9, <1>11 DEF FlushClearFails
  <1>12. ASSUME NEW f \in Flushers, SendMonitorEvents(f)
         PROVE  QueueInv'
    BY <1>1, <1>12, SendNext
  <1>13. ASSUME NEW f \in Flushers, FlushClear(f)
         PROVE  QueueInv'
    BY <1>1, <1>13, FlushClearNext
  <1>14. CASE Crash
    <2>1. \A f \in Flushers : ~InFlight(f)' /\ batch'[f] \subseteq batch[f]
      BY <1>14 DEF Crash, InFlight
    <2> QED BY <1>1, <1>14, <2>1, QuietNext DEF Crash
  <1>15. CASE UNCHANGED vars
    <2>1. \A f \in Flushers :
             \/ ~InFlight(f)' /\ batch'[f] \subseteq batch[f]
             \/ /\ InFlight(f) /\ UNCHANGED <<pc[f], batch[f], taken[f]>>
                /\ stale[f] => stale'[f]
      BY <1>15 DEF vars, record, InFlight
    <2> QED BY <1>1, <1>15, <2>1, QuietNext DEF vars, record
  <1> QED
    BY <1>2, <1>3, <1>4, <1>5, <1>8, <1>10, <1>11, <1>12, <1>13, <1>14, <1>15
    DEF Next, FlushStep

(* An agent starts with an empty queue, or with one event that has no EventID. *)
LEMMA InitQueue == Init => QueueInv
  <1> SUFFICES ASSUME Init
               PROVE  QueueInv
    OBVIOUS
  <1> DEFINE x(k) == [n |-> 1, id |-> 0, key |-> k, to |-> "firing"]
             y(k) == [key |-> k, to |-> "firing"]
  <1>1. \/ file = <<>> /\ enqueued = <<>>
        \/ \E k \in Monitors : file = <<x(k)>> /\ enqueued = <<y(k)>>
    BY DEF Init
  <1>2. /\ minted = 0 /\ relay = {} /\ batch["engine"] = {} /\ batch["heartbeat"] = {}
        /\ \A f \in Flushers : ~InFlight(f)
    BY DEF Init, Flushers, InFlight
  <1>3. \A k \in Monitors : x(k) \in Events /\ <<x(k)>> \in Seq(Events)
    BY DEF Events
  <1>4. TypeOK
    <2>1. file \in Seq(Events) /\ enqueued \in Seq([key : Monitors, to : {"firing", "resolved"}])
      <3>1. <<>> \in Seq(Events) /\ <<>> \in Seq([key : Monitors, to : {"firing", "resolved"}])
        OBVIOUS
      <3>2. \A k \in Monitors : <<y(k)>> \in Seq([key : Monitors, to : {"firing", "resolved"}])
        OBVIOUS
      <3> HIDE DEF x, y
      <3> QED BY <1>1, <1>3, <3>1, <3>2
    <2> QED BY <2>1 DEF Init, TypeOK
  <1>5. CASE file = <<>> /\ enqueued = <<>>
    <2>1. InFile = {} /\ Len(enqueued) = 0 /\ Len(file) = 0
      BY <1>5 DEF InFile
    <2> QED
      BY <1>2, <1>4, <2>1
      DEF QueueInv, FileIsSuffix, EventsAreKnown, Seen, BatchIsWhole,
          LossNeedsOverlapOrTornFile, RecoveryHasItsFiring
  <1>6. ASSUME NEW k \in Monitors, file = <<x(k)>>, enqueued = <<y(k)>>
        PROVE  QueueInv
    <2>1. file # Torn
      BY <1>3, <1>6, TornAssumption
    <2>2. /\ Len(file) = 1 /\ Len(enqueued) = 1 /\ file[1] = x(k) /\ enqueued[1] = y(k)
          /\ x(k).n = 1 /\ x(k).id = 0 /\ x(k).key = k /\ x(k).to = "firing"
      BY <1>6
    <2> HIDE DEF x
    <2>3. InFile = {x(k)} /\ Seen = {x(k)}
      BY <1>2, <2>1, <2>2 DEF InFile, Seen
    <2>4. FileIsSuffix
      BY <2>2 DEF FileIsSuffix
    <2>5. EventsAreKnown
      BY <1>2, <2>2, <2>3 DEF EventsAreKnown
    <2>6. LossNeedsOverlapOrTornFile
      BY <2>2, <2>3 DEF LossNeedsOverlapOrTornFile, Queued
    <2> QED BY <1>2, <1>4, <2>4, <2>5, <2>6 DEF QueueInv, BatchIsWhole, RecoveryHasItsFiring
  <1> QED BY <1>1, <1>5, <1>6

--------------------------------------------------------------------------------
(* The theorems.                                                               *)

(* The queue file always holds the tail of what was enqueued, and a batch on   *)
(* its way stands for all that was read of it: loadQueue, saveQueue and        *)
(* condenseMonitorEvents keep this in every order of the two flushes, crashes, *)
(* lost answers and failed writes.                                             *)
THEOREM QueueInductive == Spec => []QueueInv
  <1> QED BY InitQueue, QueueNext, PTL DEF Spec

(* EnqueueMonitorEvent and FlushQueue: an event is in the queue file until the *)
(* relay has it or a later event that takes its place; only a failed write of  *)
(* the file, or a flush that clears after another already has, takes one away. *)
THEOREM LossIsExcused == Spec => []LossNeedsOverlapOrTornFile
  <1>1. QueueInv => LossNeedsOverlapOrTornFile
    BY DEF QueueInv
  <1> QED BY <1>1, QueueInductive, PTL

(* ensureMonitorEventIDs saves the EventIDs before a batch is sent, so the     *)
(* relay never sees one event under two EventIDs or two events under one.      *)
THEOREM OneId == Spec => []OneIdPerEvent
  <1>1. QueueInv => OneIdPerEvent
    BY DEF QueueInv, EventsAreKnown, Seen, OneIdPerEvent
  <1> QED BY <1>1, QueueInductive, PTL

(* condenseMonitorEvents keeps a recovery together with the firing before it:  *)
(* the relay never learns of a recovery alone.                                 *)
THEOREM RecoveryIsWhole == Spec => []RecoveryHasItsFiring
  <1>1. QueueInv => RecoveryHasItsFiring
    BY DEF QueueInv
  <1> QED BY <1>1, QueueInductive, PTL
================================================================================
