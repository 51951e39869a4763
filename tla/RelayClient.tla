------------------------------ MODULE RelayClient ------------------------------
(* The watchtower client of internal/watchtower: the enrolment it keeps in     *)
(* memory (Client.creds, under Client.mu) and in the file watchtower.cred, and *)
(* the goroutines that share them: Enroll on a websocket connection, and the   *)
(* senders of signed envelopes, the heartbeat loop, the monitor engine's and   *)
(* the sync loop's, the remediation projector and the playbook service. Every  *)
(* sender takes the next sequence number, saves it, and only then posts. The   *)
(* queue that SendMonitorEvents empties is MonitorQueue's.                     *)
EXTENDS Integers, FiniteSets

CONSTANTS MaxAgents,  \* bound: enrolments
          MaxSeq,     \* bound: envelopes per enrolment
          MaxFaults   \* bound: failed saves and crashes

Kinds == {"heartbeat", "monitor_events", "monitor_sync", "remediation_event", "playbook"}
None == "none"

(* Agents are numbered in the order the relay mints them.                      *)
Creds == [agent : 1..MaxAgents, seq : 0..MaxSeq]
(* Not enrolled, and the contents of the file that are not credentials: just   *)
(* truncated, and torn.                                                        *)
NoCreds == [agent |-> 0, seq |-> 0]
Empty == [agent |-> -1, seq |-> 0]
Torn == [agent |-> -2, seq |-> 0]
Unparsable == {Empty, Torn}

VARIABLES creds,    \* Client.creds, NoCreds before enrolment
          mu,       \* the sender that holds Client.mu, or None
          file,     \* watchtower.cred
          client,   \* FALSE: NewClient failed and the agent runs without one
          loops,    \* "heartbeat" and "monitor": the loops that were started
          call,     \* senders: pc and the credentials they send with
          enrol,    \* the goroutine inside Enroll: pc and the minted agent
          relay,    \* the relay: the agents it minted and the envelopes it received
          faults,   \* failed saves and crashes so far
          overlap   \* history: the last save and an enrolment overlapped, or it failed

vars == <<creds, mu, file, client, loops, call, enrol, relay, faults, overlap>>

Idle == [pc |-> "idle", creds |-> NoCreds]

TypeOK ==
    /\ creds \in Creds \cup {NoCreds} /\ mu \in Kinds \cup {None}
    /\ file \in Creds \cup Unparsable \cup {NoCreds}
    /\ client \in BOOLEAN /\ loops \subseteq {"heartbeat", "monitor"}
    /\ call \in [Kinds -> [pc : {"idle", "open", "write", "post"}, creds : Creds \cup {NoCreds}]]
    /\ enrol.pc \in {"idle", "open", "write", "set"} /\ enrol.agent \in 0..MaxAgents
    /\ relay.minted \in 0..MaxAgents /\ relay.posted \subseteq (1..MaxAgents) \X (1..MaxSeq)
    /\ faults \in 0..MaxFaults /\ overlap \in BOOLEAN

Init ==
    /\ creds = NoCreds /\ mu = None /\ file = NoCreds
    /\ client = TRUE /\ loops = {}
    /\ call = [k \in Kinds |-> Idle]
    /\ enrol = [pc |-> "idle", agent |-> 0]
    /\ relay = [minted |-> 0, posted |-> {}]
    /\ faults = 0 /\ overlap = FALSE

(* os.WriteFile puts the bytes into the file it truncated. When another write  *)
(* came in between, the tail of the longer of the two stays.                   *)
Written(c) == IF file = Empty THEN {c} ELSE {c, Torn}

--------------------------------------------------------------------------------
(* The senders. The loops only run once started; the projector and the         *)
(* playbook service check that the client is enrolled.                         *)
Running(k) ==
    CASE k = "heartbeat"      -> "heartbeat" \in loops
      [] k = "monitor_events" -> loops # {}
      [] k = "monitor_sync"   -> "monitor" \in loops
      [] OTHER                -> TRUE

(* The lock, the next sequence number, and saveCreds up to opening the file.   *)
Reserve(k) ==
    /\ client /\ Running(k) /\ call[k].pc = "idle" /\ mu = None
    /\ creds # NoCreds /\ creds.seq < MaxSeq
    /\ mu' = k
    /\ call' = [call EXCEPT ![k] = [pc |-> "open", creds |-> [creds EXCEPT !.seq = @ + 1]]]
    /\ overlap' = (enrol.pc # "idle")
    /\ UNCHANGED <<creds, file, client, loops, enrol, relay, faults>>

Open(k) ==
    /\ call[k].pc = "open"
    /\ file' = Empty
    /\ call' = [call EXCEPT ![k].pc = "write"]
    /\ UNCHANGED <<creds, mu, client, loops, enrol, relay, faults, overlap>>

(* Mutant: the number that was used last is saved, not the next one.           *)
PersistStale(k) ==
    /\ call[k].pc = "write"
    /\ file' \in Written(creds)
    /\ creds' = call[k].creds /\ mu' = None
    /\ call' = [call EXCEPT ![k].pc = "post"]
    /\ overlap' = (overlap \/ enrol.pc # "idle")
    /\ UNCHANGED <<client, loops, enrol, relay, faults>>

(* The file is written, the memory updated and the lock released.              *)
Persist(k) ==
    /\ call[k].pc = "write"
    /\ file' \in Written(call[k].creds)
    /\ creds' = call[k].creds /\ mu' = None
    /\ call' = [call EXCEPT ![k].pc = "post"]
    /\ overlap' = (overlap \/ enrol.pc # "idle")
    /\ UNCHANGED <<client, loops, enrol, relay, faults>>

(* Mutant: a sequence number that could not be saved is used all the same.     *)
PersistFailsGoesOn(k) ==
    /\ call[k].pc \in {"open", "write"} /\ faults < MaxFaults
    /\ faults' = faults + 1 /\ overlap' = TRUE
    /\ IF call[k].pc = "open" THEN UNCHANGED file ELSE file' \in {Torn, call[k].creds}
    /\ mu' = None /\ creds' = call[k].creds
    /\ call' = [call EXCEPT ![k].pc = "post"]
    /\ UNCHANGED <<client, loops, enrol, relay>>

(* saveCreds fails: before it opened the file, while writing it, or after (the *)
(* chmod). The sender returns and the memory keeps the old number.             *)
PersistFails(k) ==
    /\ call[k].pc \in {"open", "write"} /\ faults < MaxFaults
    /\ faults' = faults + 1 /\ overlap' = TRUE
    /\ IF call[k].pc = "open" THEN UNCHANGED file ELSE file' \in {Torn, call[k].creds}
    /\ mu' = None
    /\ call' = [call EXCEPT ![k] = Idle]
    /\ UNCHANGED <<creds, client, loops, enrol, relay>>

(* The signed envelope is posted, without the lock; it may be lost, or its     *)
(* answer, and the sender returns an error then.                               *)
Post(k, arrives) ==
    /\ call[k].pc = "post"
    /\ relay' = IF arrives
                THEN [relay EXCEPT !.posted = @ \cup {<<call[k].creds.agent, call[k].creds.seq>>}]
                ELSE relay
    /\ call' = [call EXCEPT ![k] = Idle]
    /\ UNCHANGED <<creds, mu, file, client, loops, enrol, faults, overlap>>

Send(k) == \/ Reserve(k) \/ Open(k) \/ Persist(k) \/ PersistFails(k)
           \/ \E arrives \in BOOLEAN : Post(k, arrives)

Heartbeat == Send("heartbeat")
SendMonitorEvents == Send("monitor_events")
SyncMonitors == Send("monitor_sync")
SendRemediationEvent == Send("remediation_event")
RequestPlaybook == Send("playbook")

--------------------------------------------------------------------------------
(* Enroll, on a websocket connection (watchtower.enable): the relay mints an   *)
(* agent, saveCreds runs without the lock, then the memory is set under it. A  *)
(* refused registration changes nothing.                                       *)
Register ==
    /\ client /\ enrol.pc = "idle" /\ relay.minted < MaxAgents
    /\ relay' = [relay EXCEPT !.minted = @ + 1]
    /\ enrol' = [pc |-> "open", agent |-> relay.minted + 1]
    /\ overlap' = (mu # None)
    /\ UNCHANGED <<creds, mu, file, client, loops, call, faults>>

Minted == [agent |-> enrol.agent, seq |-> 0]

OpenEnrolment ==
    /\ enrol.pc = "open"
    /\ file' = Empty
    /\ enrol' = [enrol EXCEPT !.pc = "write"]
    /\ UNCHANGED <<creds, mu, client, loops, call, relay, faults, overlap>>

SaveEnrolment ==
    /\ enrol.pc = "write"
    /\ file' \in Written(Minted)
    /\ enrol' = [enrol EXCEPT !.pc = "set"]
    /\ overlap' = (overlap \/ mu # None)
    /\ UNCHANGED <<creds, mu, client, loops, call, relay, faults>>

(* The registration is lost: the relay knows the agent, the client does not.   *)
SaveEnrolmentFails ==
    /\ enrol.pc \in {"open", "write"} /\ faults < MaxFaults
    /\ faults' = faults + 1 /\ overlap' = TRUE
    /\ IF enrol.pc = "open" THEN UNCHANGED file ELSE file' \in {Torn, Minted}
    /\ enrol' = [enrol EXCEPT !.pc = "idle"]
    /\ UNCHANGED <<creds, mu, client, loops, call, relay>>

(* Enroll returns; the handler starts the loops unless they run.               *)
Enrolled ==
    /\ enrol.pc = "set" /\ mu = None
    /\ creds' = Minted
    /\ loops' = {"heartbeat", "monitor"}
    /\ enrol' = [enrol EXCEPT !.pc = "idle"]
    /\ UNCHANGED <<mu, file, client, call, relay, faults, overlap>>

Enroll == Register \/ OpenEnrolment \/ SaveEnrolment \/ SaveEnrolmentFails \/ Enrolled

--------------------------------------------------------------------------------
(* The agent dies. LoadCreds reads the file: no file is an agent that never    *)
(* enrolled, an unparsable one leaves the agent without a client.              *)
LoadCreds == IF file \in Unparsable THEN NoCreds ELSE file

(* main starts the loops when the client loaded an enrolment.                  *)
Restart ==
    /\ faults < MaxFaults /\ faults' = faults + 1
    /\ creds' = LoadCreds /\ mu' = None
    /\ client' = (file \notin Unparsable)
    /\ loops' = IF LoadCreds = NoCreds THEN {} ELSE {"heartbeat", "monitor"}
    /\ call' = [k \in Kinds |-> Idle]
    /\ enrol' = [pc |-> "idle", agent |-> 0]
    /\ overlap' = FALSE
    /\ UNCHANGED <<file, relay>>

Next == Heartbeat \/ SendMonitorEvents \/ SyncMonitors \/ SendRemediationEvent
        \/ RequestPlaybook \/ Enroll \/ Restart

Spec == Init /\ [][Next]_vars

--------------------------------------------------------------------------------
(* Whatever crashes, failed saves, re-enrolments and concurrent senders do, no *)
(* two envelopes carry the same sequence number of the same enrolment ("never  *)
(* reuses a sequence number the relay may already have processed",             *)
(* watchtower.go): what is about to be posted was not posted before, and is    *)
(* not about to be posted by another sender.                                   *)
NeverReusesSeq ==
    \A k \in Kinds : call[k].pc = "post" =>
        /\ <<call[k].creds.agent, call[k].creds.seq>> \notin relay.posted
        /\ \A j \in Kinds \ {k} : call[j].pc = "post" => call[j].creds # call[k].creds

(* A restart resumes the enrolment the running client has ("a restart resumes  *)
(* without re-enrolling", watchtower.go), with a sequence number that covers   *)
(* what it sent: while no save runs, the file holds the enrolment in memory,   *)
(* unless the last save failed or overlapped a re-enrolment.                   *)
RestartResumes ==
    client /\ creds # NoCreds /\ mu = None /\ enrol.pc = "idle" /\ ~overlap =>
        /\ file \notin Unparsable \cup {NoCreds}
        /\ file.agent = creds.agent /\ file.seq >= creds.seq
================================================================================
