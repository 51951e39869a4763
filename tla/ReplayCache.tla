------------------------------ MODULE ReplayCache ------------------------------
(* The request-id cache of internal/server/server.go (idSet): a frame whose id *)
(* was seen is answered as a replay and not dispatched. The cache is shared by *)
(* every connection, expires ids after TTL and holds Cap of them. Time is a    *)
(* clock of ticks; ages never need to exceed TTL + 1.                          *)
EXTENDS Integers, FiniteSets

CONSTANTS Ids,  \* request ids
          Cap,  \* idSet.cap
          TTL   \* idSet.ttl, in ticks

VARIABLES seen,  \* idSet.seen: the age of an entry, or None
          gcAge, \* the age of idSet.lastGC
          last   \* history: the age of an id's last frame, or None

vars == <<seen, gcAge, last>>

None == -1
Ages == 0..(TTL + 1)
Older(a) == IF a = None \/ a = TTL + 1 THEN a ELSE a + 1
Held(s) == {i \in Ids : s[i] # None}

TypeOK ==
    /\ seen \in [Ids -> Ages \cup {None}] /\ Cardinality(Held(seen)) <= Cap
    /\ gcAge \in Ages
    /\ last \in [Ids -> Ages \cup {None}]

(* No garbage has been collected yet: lastGC is the zero time.                 *)
Init ==
    /\ seen = [i \in Ids |-> None] /\ gcAge = TTL + 1
    /\ last = [i \in Ids |-> None]

Tick ==
    /\ seen' = [i \in Ids |-> Older(seen[i])]
    /\ gcAge' = Older(gcAge)
    /\ last' = [i \in Ids |-> Older(last[i])]

(* Expired entries go when the cache is full or none went for a TTL.           *)
Collect == Cardinality(Held(seen)) >= Cap \/ gcAge > TTL
Swept == IF Collect THEN [i \in Ids |-> IF seen[i] > TTL THEN None ELSE seen[i]] ELSE seen

Replay(id) == Swept[id] \in 0..TTL

(* Mutant: a full cache evicts any entry.                                      *)
EvictedAny(s) == Held(s)

(* The oldest entry, any of them when several are.                             *)
Evicted(s) == {i \in Held(s) : \A j \in Held(s) : s[j] <= s[i]}

(* idSet.add: a replay refreshes its entry, a new id evicts when the cache is  *)
(* full.                                                                       *)
add(id) ==
    /\ gcAge' = IF Collect THEN 0 ELSE gcAge
    /\ IF ~Replay(id) /\ Cardinality(Held(Swept)) >= Cap
       THEN \E old \in Evicted(Swept) : seen' = [Swept EXCEPT ![old] = None, ![id] = 0]
       ELSE seen' = [Swept EXCEPT ![id] = 0]

(* A frame arrives, on whatever connection; it is dispatched unless a replay.  *)
handleWS(id) ==
    /\ add(id)
    /\ last' = [last EXCEPT ![id] = 0]

Next == Tick \/ \E id \in Ids : handleWS(id)
Spec == Init /\ [][Next]_vars

--------------------------------------------------------------------------------
(* A request that is sent again within TTL of its last frame, after reconnects *)
(* and while others keep coming, is not dispatched again ("so side-effecting   *)
(* kinds like incident.runbook.execute and incident.rollback don't execute     *)
(* twice", server.go), unless Cap other requests came in between.              *)
NotDispatchedTwice ==
    \A id \in Ids :
        /\ last[id] \in 0..TTL
        /\ Cardinality({j \in Ids \ {id} : last[j] \in 0..last[id]}) < Cap
        => Replay(id)
================================================================================
