----------------------------- MODULE ClientProofs ------------------------------
(* What the agent promises where it is a client of the relay: the watchtower   *)
(* client and the playbook service, the modules MCServices instantiates as     *)
(* Relay and Book. For any number of enrolments, sends, failed saves and       *)
(* crashes, no sequence number is used twice and a restart resumes the         *)
(* enrolment; for any number of incidents, reports, requests, goroutines,      *)
(* slots, declines, failed store calls and crashes, an incident has one        *)
(* playbook.                                                                   *)
EXTENDS MCServices, Sequences, FiniteSetTheorems, TLAPS

--------------------------------------------------------------------------------
(* The inductive invariant.                                                    *)

(* Credentials of an enrolment, without the bounds of a run.                   *)
Enrolments == [agent : Nat \ {0}, seq : Nat]

ClientTyped ==
    /\ creds \in Enrolments \cup {Relay!NoCreds}
    /\ mu \in Relay!Kinds \cup {Relay!None}
    /\ file \in Enrolments \cup Relay!Unparsable \cup {Relay!NoCreds}
    /\ client \in BOOLEAN /\ overlap \in BOOLEAN
    /\ call \in [Relay!Kinds -> [pc : {"idle", "open", "write", "post"},
                           creds : Enrolments \cup {Relay!NoCreds}]]
    /\ enrol \in [pc : {"idle", "open", "write", "set"}, agent : Nat]
    /\ relay \in [minted : Nat, posted : SUBSET ((Nat \ {0}) \X Nat)]

(* Client.mu is held from taking a number to saving it, and the number is the  *)
(* one after the number in memory, which nobody changes meanwhile.             *)
LockInv ==
    \A k \in Relay!Kinds :
        /\ call[k].pc \in {"open", "write"} <=> mu = k
        /\ call[k].pc \in {"open", "write"} =>
              creds # Relay!NoCreds /\ call[k].creds = [creds EXCEPT !.seq = @ + 1]
        /\ call[k].pc = "post" => call[k].creds # Relay!NoCreds

(* The relay minted every agent there is, and one that is being enrolled has   *)
(* sent nothing and is in nobody's memory yet.                                 *)
AgentsInv ==
    /\ creds.agent <= relay.minted /\ file.agent <= relay.minted
    /\ \A k \in Relay!Kinds : call[k].pc = "post" => call[k].creds.agent <= relay.minted
    /\ \A m \in relay.posted : m[1] <= relay.minted
    /\ enrol.pc # "idle" =>
          /\ enrol.agent = relay.minted /\ creds.agent < relay.minted
          /\ \A k \in Relay!Kinds : call[k].pc = "post" => call[k].creds.agent < relay.minted
          /\ \A m \in relay.posted : m[1] < relay.minted

(* What is posted or about to be is covered by c, when it is of c's enrolment. *)
Covers(c) ==
    /\ \A m \in relay.posted : m[1] = c.agent => m[2] <= c.seq
    /\ \A k \in Relay!Kinds :
          call[k].pc = "post" /\ call[k].creds.agent = c.agent => call[k].creds.seq <= c.seq

SeqInv == Covers(creds) /\ Covers(file) /\ Relay!NeverReusesSeq

(* While the last save is undisturbed, the file is the writer's own, and holds *)
(* the enrolment in memory as soon as nobody writes it.                        *)
FileInv ==
    /\ ~client => creds = Relay!NoCreds /\ mu = Relay!None /\ enrol.pc = "idle"
    /\ ~overlap =>
          /\ mu = Relay!None \/ enrol.pc = "idle"
          /\ \A k \in Relay!Kinds : call[k].pc = "write" => file = Relay!Empty
          /\ enrol.pc = "write" => file = Relay!Empty
          /\ enrol.pc = "set" => file = Relay!Minted
          /\ mu = Relay!None /\ enrol.pc = "idle" /\ client /\ creds # Relay!NoCreds =>
                file = creds

RelayInv == ClientTyped /\ LockInv /\ AgentsInv /\ SeqInv /\ FileInv

--------------------------------------------------------------------------------
(* Not enrolled, nothing sent, no file.                                       *)
LEMMA InitRelay == Relay!Init => RelayInv
  <1> SUFFICES ASSUME Relay!Init PROVE RelayInv
    OBVIOUS
  <1> USE DEF Relay!Init, Relay!Idle, Relay!NoCreds
  <1>1. ClientTyped
    BY DEF ClientTyped, Relay!None, Enrolments
  <1>2. LockInv
    BY DEF LockInv, Relay!None, Relay!Kinds
  <1>3. AgentsInv
    BY DEF AgentsInv
  <1>4. SeqInv
    BY DEF SeqInv, Covers, Relay!NeverReusesSeq
  <1>5. FileInv
    BY DEF FileInv
  <1> QED BY <1>1, <1>2, <1>3, <1>4, <1>5 DEF RelayInv

(* A sender only changes its own call.                                         *)
LEMMA CallOf ==
    ASSUME ClientTyped, NEW k \in Relay!Kinds, NEW c, call' = [call EXCEPT ![k] = c]
    PROVE  call'[k] = c /\ \A j \in Relay!Kinds \ {k} : call'[j] = call[j]
  BY DEF ClientTyped

(* An enrolment and a number make the credentials.                             *)
LEMMA SameEnrolment ==
    ASSUME NEW c \in Enrolments \cup {Relay!NoCreds}, NEW d \in Enrolments \cup {Relay!NoCreds},
           <<c.agent, c.seq>> = <<d.agent, d.seq>>
    PROVE  c = d
  BY DEF Enrolments, Relay!NoCreds

(* What a write leaves in the file.                                            *)
LEMMA WrittenIs ==
    ASSUME NEW c, NEW f \in Relay!Written(c)
    PROVE  f \in {c, Relay!Torn} /\ (file = Relay!Empty => f = c)
  BY DEF Relay!Written

(* Types, step by step.                                                       *)
LEMMA ClientTypedNext ==
    ASSUME RelayInv, [Relay!Next]_(Relay!vars)
    PROVE  ClientTyped'
  <1> USE DEF RelayInv, ClientTyped, Relay!Idle
  <1>1. ASSUME NEW k \in Relay!Kinds, Relay!Send(k)
        PROVE  ClientTyped'
    <2>1. CASE Relay!Reserve(k)
      <3>1. [creds EXCEPT !.seq = @ + 1] \in Enrolments
        BY <2>1 DEF Relay!Reserve, Enrolments
      <3> HIDE DEF Enrolments
      <3> QED BY <2>1, <3>1 DEF Relay!Reserve
    <2>2. CASE Relay!Open(k)
      BY <2>2 DEF Relay!Open, Relay!Unparsable
    <2>3. CASE Relay!Persist(k)
      <3>1. call[k].creds \in Enrolments
        BY <2>3 DEF Relay!Persist, LockInv, Enrolments
      <3> QED BY <2>3, <3>1, WrittenIs DEF Relay!Persist, Relay!Unparsable
    <2>4. CASE Relay!PersistFails(k)
      <3>1. call[k].creds \in Enrolments
        BY <2>4 DEF Relay!PersistFails, LockInv, Enrolments
      <3> QED BY <2>4, <3>1 DEF Relay!PersistFails, Relay!Unparsable
    <2>5. ASSUME NEW b \in BOOLEAN, Relay!Post(k, b)
          PROVE  ClientTyped'
      <3>1. <<call[k].creds.agent, call[k].creds.seq>> \in (Nat \ {0}) \X Nat
        BY <2>5 DEF Relay!Post, LockInv, Enrolments
      <3> QED BY <2>5, <3>1 DEF Relay!Post
    <2> QED BY <1>1, <2>1, <2>2, <2>3, <2>4, <2>5 DEF Relay!Send
  <1>2. CASE Relay!Enroll
    <2>1. enrol.pc # "idle" => Relay!Minted \in Enrolments
      BY DEF AgentsInv, Relay!Minted, Enrolments, Relay!NoCreds
    <2>2. CASE Relay!Register
      BY <2>2 DEF Relay!Register
    <2>3. CASE Relay!OpenEnrolment
      BY <2>3 DEF Relay!OpenEnrolment, Relay!Unparsable
    <2>4. CASE Relay!SaveEnrolment
      BY <2>1, <2>4, WrittenIs DEF Relay!SaveEnrolment, Relay!Unparsable
    <2>5. CASE Relay!SaveEnrolmentFails
      BY <2>1, <2>5 DEF Relay!SaveEnrolmentFails, Relay!Unparsable
    <2>6. CASE Relay!Enrolled
      BY <2>1, <2>6 DEF Relay!Enrolled
    <2> QED BY <1>2, <2>2, <2>3, <2>4, <2>5, <2>6 DEF Relay!Enroll
  <1>3. CASE Relay!Restart
    BY <1>3 DEF Relay!Restart, Relay!LoadCreds
  <1>4. CASE UNCHANGED Relay!vars
    BY <1>4 DEF Relay!vars
  <1> QED
    BY <1>1, <1>2, <1>3, <1>4
    DEF Relay!Next, Relay!Heartbeat, Relay!SendMonitorEvents, Relay!SyncMonitors,
        Relay!SendRemediationEvent, Relay!RequestPlaybook, Relay!Kinds

(* The steps of the client.                                                    *)
LEMMA RelaySteps ==
    ASSUME [Relay!Next]_(Relay!vars)
    PROVE  \/ \E k \in Relay!Kinds : Relay!Send(k)
           \/ Relay!Enroll \/ Relay!Restart \/ UNCHANGED Relay!vars
  BY DEF Relay!Next, Relay!Heartbeat, Relay!SendMonitorEvents, Relay!SyncMonitors,
     Relay!SendRemediationEvent, Relay!RequestPlaybook, Relay!Kinds

(* The lock has one holder, who alone is in its critical section.             *)
LEMMA LockNext ==
    ASSUME RelayInv, [Relay!Next]_(Relay!vars)
    PROVE  LockInv'
  <1>0. Relay!None \notin Relay!Kinds
    BY DEF Relay!None, Relay!Kinds
  <1> USE <1>0 DEF RelayInv, LockInv, Relay!Idle
  <1>1. ASSUME NEW k \in Relay!Kinds, Relay!Send(k)
        PROVE  LockInv'
    <2>1. CASE Relay!Reserve(k)
      <3>1. [creds EXCEPT !.seq = @ + 1] # Relay!NoCreds
        BY DEF ClientTyped, Enrolments, Relay!NoCreds
      <3>2. /\ call'[k] = [pc |-> "open", creds |-> [creds EXCEPT !.seq = @ + 1]]
            /\ \A j \in Relay!Kinds \ {k} : call'[j] = call[j]
            /\ mu' = k /\ mu = Relay!None /\ creds # Relay!NoCreds /\ creds' = creds
        BY <2>1, CallOf DEF Relay!Reserve
      <3> QED BY <3>1, <3>2
    <2>2. CASE Relay!Open(k)
      BY <2>2 DEF Relay!Open, ClientTyped
    <2>3. CASE Relay!Persist(k)
      <3>1. call[k].creds # Relay!NoCreds
        BY <2>3 DEF Relay!Persist, ClientTyped, Enrolments, Relay!NoCreds
      <3> QED BY <2>3, <3>1 DEF Relay!Persist, ClientTyped
    <2>4. CASE Relay!PersistFails(k)
      <3>1. /\ call'[k] = [pc |-> "idle", creds |-> Relay!NoCreds]
            /\ \A j \in Relay!Kinds \ {k} : call'[j] = call[j]
            /\ mu' = Relay!None /\ mu = k /\ creds' = creds
        BY <2>4, CallOf DEF Relay!PersistFails
      <3> QED BY <3>1
    <2>5. ASSUME NEW b \in BOOLEAN, Relay!Post(k, b)
          PROVE  LockInv'
      BY <2>5, CallOf DEF Relay!Post
    <2> QED BY <1>1, <2>1, <2>2, <2>3, <2>4, <2>5 DEF Relay!Send
  <1>2. CASE Relay!Enroll
    <2>1. CASE Relay!Enrolled
      BY <2>1 DEF Relay!Enrolled
    <2> QED
      BY <1>2, <2>1 DEF Relay!Enroll, Relay!Register, Relay!OpenEnrolment, Relay!SaveEnrolment,
         Relay!SaveEnrolmentFails
  <1>3. CASE Relay!Restart
    BY <1>3 DEF Relay!Restart
  <1>4. CASE UNCHANGED Relay!vars
    BY <1>4 DEF Relay!vars
  <1> QED BY <1>1, <1>2, <1>3, <1>4, RelaySteps

(* An agent id in memory or on file was minted by the relay, and what was     *)
(* posted carries such ids.                                                   *)
LEMMA AgentsNext ==
    ASSUME RelayInv, [Relay!Next]_(Relay!vars)
    PROVE  AgentsInv'
  <1> USE DEF RelayInv, AgentsInv, Relay!Idle
  <1>0. /\ creds.agent \in Nat /\ relay.minted \in Nat /\ relay.posted \subseteq (Nat \X Nat)
        /\ file.agent \in Int /\ \A k \in Relay!Kinds : call[k].creds.agent \in Nat
    BY DEF ClientTyped, Enrolments, Relay!NoCreds, Relay!Unparsable, Relay!Empty, Relay!Torn
  <1>1. ASSUME NEW k \in Relay!Kinds, Relay!Send(k)
        PROVE  AgentsInv'
    <2>0. call[k].pc \in {"open", "write"} => call[k].creds.agent = creds.agent
      BY DEF LockInv, ClientTyped, Enrolments, Relay!NoCreds
    <2>1. CASE Relay!Reserve(k)
      BY <1>0, <2>1, CallOf DEF Relay!Reserve
    <2>2. CASE Relay!Open(k)
      BY <1>0, <2>2 DEF Relay!Open, ClientTyped, Relay!Empty
    <2>3. CASE Relay!Persist(k)
      BY <1>0, <2>0, <2>3, WrittenIs DEF Relay!Persist, ClientTyped, Relay!Torn
    <2>4. CASE Relay!PersistFails(k)
      BY <1>0, <2>0, <2>4, CallOf DEF Relay!PersistFails, Relay!Torn
    <2>5. ASSUME NEW b \in BOOLEAN, Relay!Post(k, b)
          PROVE  AgentsInv'
      BY <1>0, <2>5, CallOf DEF Relay!Post, ClientTyped
    <2> QED BY <1>1, <2>1, <2>2, <2>3, <2>4, <2>5 DEF Relay!Send
  <1>2. CASE Relay!Enroll
    <2>2. CASE Relay!Register
      BY <1>0, <2>2 DEF Relay!Register, ClientTyped
    <2>3. CASE Relay!OpenEnrolment
      BY <1>0, <2>3 DEF Relay!OpenEnrolment, Relay!Empty, ClientTyped
    <2>4. CASE Relay!SaveEnrolment
      BY <1>0, <2>4, WrittenIs DEF Relay!SaveEnrolment, Relay!Minted, Relay!Torn, ClientTyped
    <2>5. CASE Relay!SaveEnrolmentFails
      BY <1>0, <2>5 DEF Relay!SaveEnrolmentFails, Relay!Minted, Relay!Torn, ClientTyped
    <2>6. CASE Relay!Enrolled
      BY <1>0, <2>6 DEF Relay!Enrolled, Relay!Minted, ClientTyped
    <2> QED BY <1>2, <2>2, <2>3, <2>4, <2>5, <2>6 DEF Relay!Enroll
  <1>3. CASE Relay!Restart
    BY <1>0, <1>3 DEF Relay!Restart, Relay!LoadCreds, Relay!NoCreds
  <1>4. CASE UNCHANGED Relay!vars
    BY <1>4 DEF Relay!vars
  <1> QED BY <1>1, <1>2, <1>3, <1>4, RelaySteps

(* What is sent is covered by what is kept, so the next number is a new one.   *)
LEMMA SeqNext ==
    ASSUME RelayInv, [Relay!Next]_(Relay!vars)
    PROVE  SeqInv'
  <1> USE DEF RelayInv, SeqInv, Covers, Relay!NeverReusesSeq, Relay!Idle
  <1>0. /\ creds.agent \in Nat /\ creds.seq \in Nat
        /\ relay.posted \subseteq (Nat \ {0}) \X Nat
        /\ file.agent \in Int /\ file.seq \in Nat
        /\ \A k \in Relay!Kinds : call[k].creds.agent \in Nat /\ call[k].creds.seq \in Nat
        /\ \A k \in Relay!Kinds : call[k].pc = "post" => call[k].creds.agent # 0
    BY DEF ClientTyped, Enrolments, Relay!NoCreds, Relay!Unparsable, Relay!Empty, Relay!Torn,
       LockInv
  <1>1. ASSUME NEW k \in Relay!Kinds, Relay!Send(k)
        PROVE  SeqInv'
    <2>0. call[k].pc \in {"open", "write"} =>
             /\ call[k].creds \in Enrolments
             /\ call[k].creds.agent = creds.agent /\ call[k].creds.seq = creds.seq + 1
      BY DEF LockInv, ClientTyped, Enrolments, Relay!NoCreds
    <2>1. CASE Relay!Reserve(k)
      <3>1. /\ call'[k].pc = "open"
            /\ \A j \in Relay!Kinds \ {k} : call'[j] = call[j]
            /\ UNCHANGED <<creds, file, relay>>
        BY <2>1 DEF Relay!Reserve, ClientTyped
      <3> QED BY <3>1
    <2>2. CASE Relay!Open(k)
      <3>1. /\ call'[k].pc = "write" /\ \A j \in Relay!Kinds \ {k} : call'[j] = call[j]
            /\ file' = Relay!Empty /\ UNCHANGED <<creds, relay>>
        BY <2>2 DEF Relay!Open, ClientTyped
      <3> QED BY <1>0, <3>1 DEF Relay!Empty
    <2>3. CASE Relay!Persist(k)
      <3>1. /\ call'[k].pc = "post" /\ call'[k].creds = call[k].creds
            /\ call[k].pc = "write" /\ creds' = call[k].creds
            /\ \A j \in Relay!Kinds \ {k} : call'[j] = call[j]
            /\ file' \in {call[k].creds, Relay!Torn} /\ UNCHANGED relay
        BY <2>3, WrittenIs DEF Relay!Persist, ClientTyped
      <3>2. Covers(creds)' /\ (file' = call[k].creds => Covers(file)')
        BY <1>0, <2>0, <3>1
      <3>3. file' = Relay!Torn => Covers(file)'
        BY <1>0, <2>0, <3>1 DEF Relay!Torn
      <3>4. Relay!NeverReusesSeq'
        BY <1>0, <2>0, <3>1
      <3> QED BY <3>1, <3>2, <3>3, <3>4
    <2>4. CASE Relay!PersistFails(k)
      <3>1. /\ call'[k].pc = "idle" /\ call[k].pc \in {"open", "write"}
            /\ \A j \in Relay!Kinds \ {k} : call'[j] = call[j]
            /\ file' \in {file, call[k].creds, Relay!Torn} /\ UNCHANGED <<creds, relay>>
        BY <2>4 DEF Relay!PersistFails, ClientTyped
      <3> QED BY <1>0, <2>0, <3>1 DEF Relay!Torn
    <2>5. ASSUME NEW b \in BOOLEAN, Relay!Post(k, b)
          PROVE  SeqInv'
      <3>1. /\ call'[k].pc = "idle" /\ call[k].pc = "post"
            /\ \A j \in Relay!Kinds \ {k} : call'[j] = call[j]
            /\ relay'.posted \subseteq
                  relay.posted \cup {<<call[k].creds.agent, call[k].creds.seq>>}
            /\ UNCHANGED <<creds, file>>
        BY <2>5, CallOf DEF Relay!Post, ClientTyped
      <3>2. \A j \in Relay!Kinds \ {k} : call[j].pc = "post" =>
               <<call[j].creds.agent, call[j].creds.seq>>
                  # <<call[k].creds.agent, call[k].creds.seq>>
        BY <3>1, SameEnrolment DEF ClientTyped
      <3> QED BY <3>1, <3>2
    <2> QED BY <1>1, <2>1, <2>2, <2>3, <2>4, <2>5 DEF Relay!Send
  <1>2. CASE Relay!Enroll
    <2>0. /\ UNCHANGED call /\ relay'.posted = relay.posted
          /\ creds' = creds \/ (creds' = Relay!Minted /\ enrol.pc # "idle")
          /\ \/ file' \in {file, Relay!Empty, Relay!Torn}
             \/ file' = Relay!Minted /\ enrol.pc # "idle"
      <3>1. CASE Relay!Register
        BY <3>1 DEF Relay!Register, ClientTyped
      <3>4. CASE Relay!OpenEnrolment \/ Relay!Enrolled
        BY <3>4 DEF Relay!OpenEnrolment, Relay!Enrolled
      <3>2. CASE Relay!SaveEnrolment
        BY <3>2, WrittenIs DEF Relay!SaveEnrolment
      <3>3. CASE Relay!SaveEnrolmentFails
        BY <3>3 DEF Relay!SaveEnrolmentFails
      <3> QED BY <1>2, <3>1, <3>2, <3>3, <3>4 DEF Relay!Enroll
    <2>1. enrol.pc # "idle" => Covers(Relay!Minted)
      BY <1>0 DEF AgentsInv, Relay!Minted
    <2> QED BY <1>0, <2>0, <2>1 DEF Relay!Empty, Relay!Torn
  <1>3. CASE Relay!Restart
    <2>1. /\ \A k \in Relay!Kinds : call'[k].pc = "idle"
          /\ creds' \in {file, Relay!NoCreds} /\ UNCHANGED <<file, relay>>
      BY <1>3 DEF Relay!Restart, Relay!LoadCreds
    <2> QED BY <1>0, <2>1 DEF Relay!NoCreds
  <1>4. CASE UNCHANGED Relay!vars
    BY <1>4 DEF Relay!vars
  <1> QED BY <1>1, <1>2, <1>3, <1>4, RelaySteps

(* While no save is disturbed, the file ends up holding what memory holds.     *)
LEMMA FileNext ==
    ASSUME RelayInv, [Relay!Next]_(Relay!vars)
    PROVE  FileInv'
  <1>0. Relay!None \notin Relay!Kinds
    BY DEF Relay!None, Relay!Kinds
  <1> USE <1>0 DEF RelayInv, FileInv, Relay!Idle
  <1>1. ASSUME NEW k \in Relay!Kinds, Relay!Send(k)
        PROVE  FileInv'
    <2>0. /\ \A j \in Relay!Kinds : call[j].pc \in {"open", "write"} <=> mu = j
          /\ ClientTyped
      BY DEF LockInv
    <2>1. CASE Relay!Reserve(k)
      <3>1. /\ call'[k].pc = "open" /\ \A j \in Relay!Kinds \ {k} : call'[j] = call[j]
            /\ mu = Relay!None /\ mu' = k /\ client /\ UNCHANGED <<creds, file, client, enrol>>
            /\ overlap' = (enrol.pc # "idle")
        BY <2>0, <2>1 DEF Relay!Reserve, ClientTyped
      <3> QED BY <2>0, <3>1 DEF Relay!Minted
    <2>2. CASE Relay!Open(k)
      <3>1. /\ mu = k /\ mu' = k /\ file' = Relay!Empty
            /\ UNCHANGED <<enrol, client, overlap, creds>>
            /\ \A j \in Relay!Kinds \ {k} : call'[j] = call[j]
        BY <2>0, <2>2 DEF Relay!Open, ClientTyped
      <3> QED BY <2>0, <3>1
    <2>3. CASE Relay!Persist(k)
      <3>1. /\ mu = k /\ mu' = Relay!None /\ call[k].pc = "write" /\ call'[k].pc = "post"
            /\ \A j \in Relay!Kinds \ {k} : call'[j] = call[j]
            /\ file = Relay!Empty => file' = creds'
            /\ overlap' = (overlap \/ enrol.pc # "idle") /\ UNCHANGED <<enrol, client>>
        BY <2>0, <2>3, WrittenIs DEF Relay!Persist, ClientTyped
      <3> QED BY <2>0, <3>1 DEF ClientTyped
    <2>4. CASE Relay!PersistFails(k)
      <3>1. mu = k /\ overlap' = TRUE /\ UNCHANGED client
        BY <2>0, <2>4 DEF Relay!PersistFails
      <3> QED BY <2>0, <3>1
    <2>5. ASSUME NEW b \in BOOLEAN, Relay!Post(k, b)
          PROVE  FileInv'
      <3>1. /\ call'[k].pc = "idle" /\ \A j \in Relay!Kinds \ {k} : call'[j] = call[j]
            /\ UNCHANGED <<creds, mu, file, client, enrol, overlap>>
        BY <2>0, <2>5 DEF Relay!Post, ClientTyped
      <3> QED BY <3>1 DEF Relay!Minted
    <2> QED BY <1>1, <2>1, <2>2, <2>3, <2>4, <2>5 DEF Relay!Send
  <1>2. CASE Relay!Enroll
    <2>2. CASE Relay!Register
      BY <2>2 DEF Relay!Register, LockInv, ClientTyped
    <2>3. CASE Relay!OpenEnrolment
      BY <2>3 DEF Relay!OpenEnrolment, LockInv, ClientTyped
    <2>4. CASE Relay!SaveEnrolment
      BY <2>4, WrittenIs DEF Relay!SaveEnrolment, LockInv, Relay!Minted, ClientTyped
    <2>5. CASE Relay!SaveEnrolmentFails
      BY <2>5 DEF Relay!SaveEnrolmentFails, ClientTyped
    <2>6. CASE Relay!Enrolled
      BY <2>6 DEF Relay!Enrolled, LockInv, ClientTyped, Relay!Minted
    <2> QED BY <1>2, <2>2, <2>3, <2>4, <2>5, <2>6 DEF Relay!Enroll
  <1>3. CASE Relay!Restart
    BY <1>3 DEF Relay!Restart, Relay!LoadCreds
  <1>4. CASE UNCHANGED Relay!vars
    BY <1>4 DEF Relay!vars, Relay!Minted
  <1> QED BY <1>1, <1>2, <1>3, <1>4, RelaySteps

--------------------------------------------------------------------------------
(* The client's invariant holds for any number of enrolments, envelopes,       *)
(* failed saves and crashes.                                                   *)
THEOREM RelayInductive == Relay!Spec => []RelayInv
  <1>1. RelayInv /\ [Relay!Next]_(Relay!vars) => RelayInv'
    BY ClientTypedNext, LockNext, AgentsNext, SeqNext, FileNext DEF RelayInv
  <1> QED BY <1>1, InitRelay, PTL DEF Relay!Spec

(* No number is ever sent twice: saving under the lock before the post keeps   *)
(* memory and file ahead of the relay, whatever fails or restarts.             *)
THEOREM SeqIsNeverReused == Relay!Spec => []NeverReusesSeq
  <1>1. RelayInv => NeverReusesSeq
    BY DEF RelayInv, SeqInv, NeverReusesSeq
  <1> QED BY <1>1, RelayInductive, PTL

(* A restart finds the enrolment the client had, unless the last save failed   *)
(* or overlapped a re-enrolment.                                               *)
THEOREM EnrolmentIsResumed == Relay!Spec => []RestartResumes
  <1>1. RelayInv => RestartResumes
    BY DEF RelayInv, FileInv, RestartResumes, Relay!RestartResumes, ClientTyped, Enrolments,
       Relay!NoCreds, Relay!Empty, Relay!Torn, Relay!Unparsable
  <1> QED BY <1>1, RelayInductive, PTL

--------------------------------------------------------------------------------
(* The playbook service.                                                       *)

(* From begin to end a goroutine has its incident to itself.                   *)
PreparingPcs == {"active", "rules", "generate", "propose", "end"}

(* It goes on to a playbook after it has found none.                           *)
AskingPcs == {"rules", "generate", "propose"}

--------------------------------------------------------------------------------
(* The inductive invariant.                                                    *)

BookTyped ==
    /\ execs \in [Incidents -> Seq(Book!Statuses)]
    /\ preparing \subseteq Incidents
    /\ preparations \in [Workers -> [pc : {"idle", "slot", "begin"} \cup PreparingPcs,
                             inc : Incidents \cup {Book!None},
                             user : BOOLEAN, severity : Book!Severities \cup {Book!None}]]
    /\ \A w \in Workers : preparations[w].pc # "idle" => preparations[w].inc \in Incidents

(* Service.preparing names the incidents that goroutines are preparing, one    *)
(* each.                                                                       *)
SingleFlight ==
    /\ \A w \in Workers : preparations[w].pc \in PreparingPcs => preparations[w].inc \in preparing
    /\ \A v, w \in Workers :
          /\ preparations[v].pc \in PreparingPcs /\ preparations[w].pc \in PreparingPcs
          /\ preparations[v].inc = preparations[w].inc
          => v = w

(* A playbook is asked for while there is none, and there is at most one.      *)
AskedForNone ==
    \A w \in Workers, i \in Incidents :
        preparations[w].pc \in AskingPcs /\ preparations[w].inc = i => Book!Active(i) = {}

AtMostOne == \A i \in Incidents : \A a, b \in Book!Active(i) : a = b

BookInv == BookTyped /\ SingleFlight /\ AskedForNone /\ AtMostOne

(* What the invariant says does not grow with executions that become inactive. *)
LEMMA FewerActive ==
    ASSUME BookInv, BookTyped', SingleFlight',
           \A i \in Incidents : Book!Active(i)' \subseteq Book!Active(i),
           \A w \in Workers, i \in Incidents :
                preparations'[w].pc \in AskingPcs /\ preparations'[w].inc = i =>
                   Book!Active(i) = {}
    PROVE  BookInv'
  <1>1. AskedForNone'
    BY DEF AskedForNone
  <1>2. AtMostOne'
    BY DEF BookInv, AtMostOne
  <1> QED BY <1>1, <1>2 DEF BookInv

--------------------------------------------------------------------------------
(* Nobody prepares anything.                                                  *)
LEMMA InitBook == Book!Init => BookInv
  <1> SUFFICES ASSUME Book!Init PROVE BookInv
    OBVIOUS
  <1>1. BookTyped
    BY DEF Book!Init, BookTyped, Book!Idle
  <1>2. SingleFlight /\ AskedForNone
    BY DEF Book!Init, Book!Idle, SingleFlight, AskedForNone, PreparingPcs, AskingPcs
  <1>3. AtMostOne
    BY DEF Book!Init, AtMostOne, Book!Active
  <1> QED BY <1>1, <1>2, <1>3 DEF BookInv

(* A goroutine that moves on keeps its types.                                 *)
LEMMA GotoTyped ==
    ASSUME BookTyped, NEW w \in Workers, preparations[w].inc \in Incidents,
           NEW l \in {"active", "end"}, Book!Goto(w, l)
    PROVE  /\ preparations' \in [Workers -> [pc : {"idle", "slot", "begin"} \cup PreparingPcs,
                                     inc : Incidents \cup {Book!None},
                                     user : BOOLEAN, severity : Book!Severities \cup {Book!None}]]
           /\ \A v \in Workers :
                 preparations'[v].pc # "idle" => preparations'[v].inc \in Incidents
  <1> l \in PreparingPcs
    BY DEF PreparingPcs
  <1> QED BY DEF BookTyped, Book!Goto

(* A goroutine that moves on, alone, through labels that ask for nothing new.  *)
LEMMA GoesOn ==
    ASSUME BookInv, NEW w \in Workers, NEW l \in PreparingPcs, Book!Goto(w, l),
           preparations[w].pc \in PreparingPcs, UNCHANGED <<execs, preparing>>,
           l \in AskingPcs =>
              preparations[w].pc \in AskingPcs \/ Book!Active(preparations[w].inc) = {}
    PROVE  BookInv'
  <1>1. /\ preparations'[w] = [preparations[w] EXCEPT !.pc = l]
        /\ \A v \in Workers \ {w} : preparations'[v] = preparations[v]
    BY DEF Book!Goto, BookInv, BookTyped
  <1>2. preparations'[w].pc = l /\ preparations'[w].inc = preparations[w].inc
    BY <1>1 DEF BookInv, BookTyped
  <1>3. BookTyped'
    BY SMTT(30) DEF Book!Goto, BookInv, BookTyped, PreparingPcs
  <1>4. SingleFlight'
    <2>1. \A v \in Workers : /\ preparations'[v].pc \in PreparingPcs
                                 <=> preparations[v].pc \in PreparingPcs
                              /\ preparations'[v].inc = preparations[v].inc
      BY <1>1, <1>2
    <2> QED BY <2>1 DEF BookInv, SingleFlight
  <1>5. \A i \in Incidents : Book!Active(i)' = Book!Active(i)
    BY DEF Book!Active
  <1>6. ASSUME NEW v \in Workers, NEW i \in Incidents,
               preparations'[v].pc \in AskingPcs, preparations'[v].inc = i
        PROVE  Book!Active(i) = {}
    BY <1>1, <1>2, <1>6 DEF BookInv, AskedForNone
  <1> QED BY <1>3, <1>4, <1>5, <1>6, FewerActive

(* A goroutine that is not preparing, or stops, has no part in the invariant.  *)
LEMMA StaysOut ==
    ASSUME BookInv, NEW w \in Workers,
           NEW x \in [pc : {"idle", "slot", "begin"}, inc : Incidents \cup {Book!None},
                      user : BOOLEAN, severity : Book!Severities \cup {Book!None}],
           x.pc # "idle" => x.inc \in Incidents,
           preparations' = [preparations EXCEPT ![w] = x], UNCHANGED execs,
           \/ UNCHANGED preparing
           \/ preparations[w].pc = "end" /\ preparing' = preparing \ {preparations[w].inc}
    PROVE  BookInv'
  <1>1. preparations'[w] = x /\ \A v \in Workers \ {w} : preparations'[v] = preparations[v]
    BY DEF BookInv, BookTyped
  <1>2. x.pc \notin PreparingPcs /\ x.pc \notin AskingPcs
    BY DEF PreparingPcs, AskingPcs
  <1>3. BookTyped'
    BY DEF BookInv, BookTyped
  <1>4. SingleFlight'
    BY <1>1, <1>2 DEF BookInv, SingleFlight, PreparingPcs
  <1>5. \A i \in Incidents : Book!Active(i)' = Book!Active(i)
    BY DEF Book!Active
  <1>6. ASSUME NEW v \in Workers, NEW i \in Incidents,
               preparations'[v].pc \in AskingPcs, preparations'[v].inc = i
        PROVE  Book!Active(i) = {}
    BY <1>1, <1>2, <1>6 DEF BookInv, AskedForNone
  <1> QED BY <1>3, <1>4, <1>5, <1>6, FewerActive

(* One preparation per incident.                                               *)
LEMMA BeginNext ==
    ASSUME BookInv, NEW w \in Workers, Book!begin(w)
    PROVE  BookInv'
  <1>1. CASE preparations[w].inc \in preparing
    BY <1>1, StaysOut DEF Book!begin, Book!Idle
  <1>2. CASE preparations[w].inc \notin preparing
    <2>1. /\ preparations'[w].pc = "active" /\ preparations'[w].inc = preparations[w].inc
          /\ \A v \in Workers \ {w} : preparations'[v] = preparations[v]
          /\ preparing' = preparing \cup {preparations[w].inc} /\ UNCHANGED execs
      BY <1>2 DEF Book!begin, Book!Goto, BookInv, BookTyped
    <2>2. BookTyped'
      <3>1. preparations[w].inc \in Incidents
        BY DEF Book!begin, BookInv, BookTyped
      <3> QED BY <1>2, <3>1, GotoTyped DEF Book!begin, BookInv, BookTyped
    <2>3. SingleFlight'
      BY <1>2, <2>1 DEF BookInv, SingleFlight
    <2>4. \A i \in Incidents : Book!Active(i)' = Book!Active(i)
      BY <2>1 DEF Book!Active
    <2>5. ASSUME NEW v \in Workers, NEW i \in Incidents,
                 preparations'[v].pc \in AskingPcs, preparations'[v].inc = i
          PROVE  Book!Active(i) = {}
      BY <2>1, <2>5 DEF BookInv, AskedForNone, AskingPcs
    <2> QED BY <2>2, <2>3, <2>4, <2>5, FewerActive
  <1> QED BY <1>1, <1>2

(* The one goroutine that found no playbook proposes one.                      *)
LEMMA ProposeNext ==
    ASSUME BookInv, NEW w \in Workers, Book!propose(w),
           NEW i \in Incidents, preparations[w].inc = i
    PROVE  BookInv'
  <1>1. /\ Book!Active(i) = {} /\ preparations[w].pc = "propose"
        /\ execs[i] \in Seq(Book!Statuses)
    BY DEF Book!propose, BookInv, BookTyped, AskedForNone, AskingPcs
  <1>2. /\ preparations'[w].pc = "end" /\ preparations'[w].inc = i
        /\ \A v \in Workers \ {w} : preparations'[v] = preparations[v]
        /\ execs'[i] = Append(execs[i], "proposed")
        /\ \A j \in Incidents \ {i} : execs'[j] = execs[j]
        /\ UNCHANGED preparing
    BY <1>1 DEF Book!propose, Book!Goto, BookInv, BookTyped
  <1>3. BookTyped'
    <2>1. Append(execs[i], "proposed") \in Seq(Book!Statuses)
      BY <1>1 DEF Book!Statuses
    <2>2. execs' = [execs EXCEPT ![i] = Append(execs[i], "proposed")]
      BY DEF Book!propose
    <2>3. execs' \in [Incidents -> Seq(Book!Statuses)]
      BY <1>1, <2>1, <2>2 DEF BookInv, BookTyped
    <2> QED BY <1>1, <2>3, GotoTyped DEF Book!propose, BookInv, BookTyped
  <1>4. SingleFlight'
    BY <1>2 DEF BookInv, SingleFlight, Book!propose, PreparingPcs
  <1>5. \A j \in Incidents \ {i} : Book!Active(j)' = Book!Active(j)
    BY <1>2 DEF Book!Active
  <1>6. AskedForNone'
    <2> SUFFICES ASSUME NEW v \in Workers, NEW j \in Incidents,
                        preparations'[v].pc \in AskingPcs, preparations'[v].inc = j
                 PROVE  Book!Active(j)' = {}
      BY DEF AskedForNone
    <2>1. v # w /\ preparations'[v] = preparations[v] /\ preparations[v].inc # i
      BY <1>1, <1>2 DEF BookInv, SingleFlight, BookTyped, AskingPcs, PreparingPcs
    <2> QED BY <1>5, <2>1 DEF BookInv, AskedForNone
  <1>7. AtMostOne'
    <2>1. \A a, b \in Book!Active(i)' : a = b
      BY <1>1, <1>2 DEF Book!Active
    <2>2. \A j \in Incidents : \A a, b \in Book!Active(j)' : a = b
      BY <1>5, <2>1 DEF BookInv, AtMostOne
    <2> QED BY <2>2 DEF AtMostOne
  <1> QED BY <1>3, <1>4, <1>6, <1>7 DEF BookInv

(* The ledger settles or declines: no execution becomes active again.          *)
LEMMA LedgerNext ==
    ASSUME BookInv, Book!Ledger
    PROVE  BookInv'
  <1>1. PICK i \in Incidents, s \in {"declined", "settled"} : \E e \in DOMAIN execs[i] :
           execs[i][e] = "proposed" /\ execs' = [execs EXCEPT ![i][e] = s]
    BY DEF Book!Ledger
  <1>2. PICK e \in DOMAIN execs[i] :
           execs[i][e] = "proposed" /\ execs' = [execs EXCEPT ![i][e] = s]
    BY <1>1
  <1>3. UNCHANGED <<preparing, preparations>>
    BY DEF Book!Ledger
  <1>4. execs[i] \in Seq(Book!Statuses) /\ execs'[i] = [execs[i] EXCEPT ![e] = s]
        /\ \A j \in Incidents \ {i} : execs'[j] = execs[j]
    BY <1>2 DEF BookInv, BookTyped
  <1>5. BookTyped'
    <2>1. execs'[i] \in Seq(Book!Statuses)
      BY <1>2, <1>4 DEF Book!Statuses
    <2> QED BY <1>2, <1>3, <2>1 DEF BookInv, BookTyped
  <1>6. SingleFlight'
    BY <1>3 DEF BookInv, SingleFlight
  <1>7. \A j \in Incidents : Book!Active(j)' \subseteq Book!Active(j)
    BY <1>2, <1>4 DEF Book!Active
  <1>8. ASSUME NEW v \in Workers, NEW j \in Incidents,
               preparations'[v].pc \in AskingPcs, preparations'[v].inc = j
        PROVE  Book!Active(j) = {}
    BY <1>3, <1>8 DEF BookInv, AskedForNone
  <1> QED BY <1>5, <1>6, <1>7, <1>8, FewerActive

(* A step that changes nothing.                                               *)
LEMMA BookStutters ==
    ASSUME BookInv, UNCHANGED Book!vars
    PROVE  BookInv'
  <1>1. BookTyped' /\ SingleFlight'
    BY DEF Book!vars, BookInv, BookTyped, SingleFlight
  <1>2. \A i \in Incidents : Book!Active(i)' = Book!Active(i)
    BY DEF Book!vars, Book!Active
  <1>3. ASSUME NEW v \in Workers, NEW i \in Incidents,
               preparations'[v].pc \in AskingPcs, preparations'[v].inc = i
        PROVE  Book!Active(i) = {}
    BY <1>3 DEF Book!vars, BookInv, AskedForNone
  <1> QED BY <1>1, <1>2, <1>3, FewerActive

(* Every step keeps the invariant.                                            *)
LEMMA BookNext ==
    ASSUME BookInv, [Book!Next]_(Book!vars)
    PROVE  BookInv'
  <1>1. ASSUME NEW w \in Workers, Book!prepare(w)
        PROVE  BookInv'
    <2>1. CASE Book!TakeSlot(w)
      <3>1. [preparations[w] EXCEPT !.pc = "begin"]
               \in [pc : {"idle", "slot", "begin"}, inc : Incidents \cup {Book!None},
                    user : BOOLEAN, severity : Book!Severities \cup {Book!None}]
        BY DEF BookInv, BookTyped
      <3> QED BY <2>1, <3>1, StaysOut DEF Book!TakeSlot, Book!Goto, BookInv, BookTyped
    <2>2. CASE Book!SlotTimeout(w)
      BY <2>2, StaysOut DEF Book!SlotTimeout, Book!Idle
    <2>3. CASE Book!begin(w)
      BY <2>3, BeginNext
    <2>4. CASE Book!activeExecution(w)
      BY <2>4, GoesOn DEF Book!activeExecution, PreparingPcs, AskingPcs
    <2>5. CASE Book!propose(w)
      <3>1. preparations[w].inc \in Incidents
        BY <2>5 DEF Book!propose, BookInv, BookTyped
      <3> QED BY <2>5, <3>1, ProposeNext
    <2>6. CASE Book!end(w)
      BY <2>6, StaysOut DEF Book!end, Book!Idle
    <2>7. CASE \E b \in BOOLEAN : Book!FromBundle(w, b) \/ Book!GeneratorGenerate(w, b)
      BY <2>7, GoesOn DEF Book!FromBundle, Book!GeneratorGenerate, PreparingPcs, AskingPcs
    <2> QED BY <1>1, <2>1, <2>2, <2>3, <2>4, <2>5, <2>6, <2>7 DEF Book!prepare
  <1>2. ASSUME NEW w \in Workers, Book!activeExecutionFails(w) \/ Book!proposeFails(w)
        PROVE  BookInv'
    BY <1>2, GoesOn DEF Book!activeExecutionFails, Book!proposeFails, PreparingPcs, AskingPcs
  <1>3. ASSUME NEW i \in Incidents, NEW s \in Book!Severities, Book!IncidentOpened(i, s)
        PROVE  BookInv'
    <2>1. CASE UNCHANGED Book!vars
      BY <2>1, BookStutters
    <2> QED BY <1>3, <2>1, StaysOut DEF Book!IncidentOpened
  <1>4. ASSUME NEW i \in Incidents, NEW b \in BOOLEAN, Book!Generate(i, b)
        PROVE  BookInv'
    BY <1>4, StaysOut DEF Book!Generate
  <1>5. CASE Book!Crash
    BY <1>5
    DEF Book!Crash, Book!Idle, BookInv, BookTyped, SingleFlight, AskedForNone, AtMostOne,
        Book!Active, PreparingPcs, AskingPcs
  <1>6. CASE UNCHANGED Book!vars
    BY <1>6, BookStutters
  <1> QED BY <1>1, <1>2, <1>3, <1>4, <1>5, <1>6, LedgerNext DEF Book!Next

--------------------------------------------------------------------------------
(* The playbook service counts as everybody does.                              *)
LEMMA CountsAlike == \A S : Book!Cardinality(S) = Cardinality(S)
  BY DEF Book!Cardinality, Cardinality

(* The invariant of the playbook service holds for any number of goroutines,  *)
(* incidents and faults.                                                      *)
THEOREM BookInductive == Book!Spec => []BookInv
  BY InitBook, BookNext, PTL DEF Book!Spec

(* An incident has one playbook, or one goroutine that asks for it, or neither. *)
LEMMA BookImplies == BookInv => OnePlaybookPerIncident
  <1> SUFFICES ASSUME BookInv, NEW i \in Incidents
               PROVE  LET asking == {w \in Workers :
                                        preparations[w].inc = i /\ preparations[w].pc \in AskingPcs}
                      IN  Cardinality(Book!Active(i)) + Cardinality(asking) <= 1
    BY CountsAlike DEF OnePlaybookPerIncident, Book!OnePlaybookPerIncident, AskingPcs
  <1> DEFINE asking == {w \in Workers : preparations[w].inc = i /\ preparations[w].pc \in AskingPcs}
  <1>1. \A v, w \in asking : v = w
    BY DEF BookInv, SingleFlight, AskingPcs, PreparingPcs
  <1>2. \A a, b \in Book!Active(i) : a = b
    BY DEF BookInv, AtMostOne
  <1>3. asking = {} \/ Book!Active(i) = {}
    BY DEF BookInv, AskedForNone
  <1>4. ASSUME NEW S, \A a, b \in S : a = b
        PROVE  Cardinality(S) \in {0, 1} /\ (S = {} => Cardinality(S) = 0)
    <2>1. CASE S = {}
      BY <2>1, FS_EmptySet
    <2>2. CASE S # {}
      <3>1. PICK a \in S : S = {a}
        BY <1>4, <2>2
      <3> QED BY <2>2, <3>1, FS_Singleton
    <2> QED BY <2>1, <2>2
  <1> HIDE DEF asking
  <1>5. Cardinality(Book!Active(i)) \in {0, 1} /\ Cardinality(asking) \in {0, 1}
    BY <1>1, <1>2, <1>4
  <1>6. Cardinality(Book!Active(i)) = 0 \/ Cardinality(asking) = 0
    BY <1>1, <1>2, <1>3, <1>4
  <1>7. Cardinality(Book!Active(i)) + Cardinality(asking) <= 1
    BY <1>5, <1>6
  <1> QED BY <1>7 DEF asking

(* Asking twice never costs a second request to the playbook service: however  *)
(* reports, requests, timeouts, declines, failures and crashes interleave, an  *)
(* incident has one playbook, or one goroutine that asks for it, or neither.   *)
THEOREM OnePlaybook == Book!Spec => []OnePlaybookPerIncident
  BY BookImplies, BookInductive, PTL
================================================================================
