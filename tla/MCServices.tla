------------------------------ MODULE MCServices ------------------------------
(* The instances for TLC of the services that keep state of their own: the     *)
(* monitor engine (MonitorEngine), the watchtower client (RelayClient), the    *)
(* playbook service (PlaybookService), the request-id cache (ReplayCache), the *)
(* tables of the store (StoreTables) and one step on the host (HostSteps). They*)
(* share no state with one another but what each module models of its          *)
(* neighbours, so a behaviour follows one of them, which part says, and the    *)
(* others stay where they start.                                               *)
EXTENDS MonitorEngine

CONSTANTS MaxAgents, MaxSeq, MaxRelayFaults,                           \* RelayClient
          Incidents, Workers, MaxPreparing, MaxDeclines, MaxBookFaults, \* PlaybookService
          Requests, Cap, TTL,                                          \* ReplayCache
          Projects, Ids, MaxEvents, MaxEntries, MaxTime, MaxRows, MaxPage,
          DefaultPage,                                                 \* StoreTables
          MaxHappenings, MaxPolls                                      \* HostSteps

(* The cache's room and lifetime, 1024 ids and five minutes (NewWithOptions).  *)
ASSUME CacheAssumption == Cap \in Nat /\ TTL \in Nat

(* The ids of projects are minted (NewID): none is the empty one, which stands *)
(* for all of them in a query.                                                 *)
ASSUME ProjectsAssumption == "" \notin Projects

(* A page has room for an entry (defaultJournalLimit, maxJournalLimit).        *)
ASSUME PagesAssumption ==
    DefaultPage \in Nat \ {0} /\ MaxPage \in Nat \ {0} /\ MaxTime \in Nat

VARIABLES part,
          creds, mu, file, client, loops, call, enrol, relay, relayFaults, overlap,
          binding, execs, preparing, slots, preparations, bookFaults,
          seen, gcAge, last,
          group, now, columns, opening, projects, sessions, sessionEvents, previews,
          memory, journal, lastId, pager, inbox, silences, jobs, jobEvents, keyed,
          step, pc, program, look, polls, steady, blind, process, pinned, signalled,
          open, sshd, sshAlways, unread, answers, happenings

engineVars == vars
relayVars == <<creds, mu, file, client, loops, call, enrol, relay, relayFaults, overlap>>
bookVars == <<binding, execs, preparing, slots, preparations, bookFaults>>
cacheVars == <<seen, gcAge, last>>
storeVars == <<group, now, columns, opening, projects, sessions, sessionEvents, previews,
               memory, journal, lastId, pager, inbox, silences, jobs, jobEvents, keyed>>
stepVars == <<step, pc, program, look, polls, steady, blind, process, pinned, signalled,
              open, sshd, sshAlways, unread, answers, happenings>>

Relay == INSTANCE RelayClient WITH MaxFaults <- MaxRelayFaults, faults <- relayFaults
Book == INSTANCE PlaybookService WITH MaxFaults <- MaxBookFaults, faults <- bookFaults,
                                      work <- preparations
Cache == INSTANCE ReplayCache WITH Ids <- Requests
Tables == INSTANCE StoreTables WITH events <- sessionEvents
Steps == INSTANCE HostSteps WITH MaxEvents <- MaxHappenings, events <- happenings

Parts == {"engine", "relay", "playbooks", "cache", "store", "steps"}

(* Where the parts start that a behaviour does not follow.                     *)
Parked(p) == part # p

ServicesInit ==
    /\ part \in Parts
    /\ Init
    /\ Relay!Init
    /\ Book!Init
    /\ Cache!Init
    /\ Parked("store") => group = "keyed"
    /\ Tables!Init
    /\ Parked("steps") =>
          /\ step = [id |-> "service.restart", name |-> "app", root |-> FALSE]
          /\ program = [there |-> TRUE, state |-> "running", restarts |-> 0, mixed |-> FALSE]
    /\ Steps!Init

Engine    == part = "engine" /\ Next
Relays    == part = "relay" /\ Relay!Next
Playbooks == part = "playbooks" /\ Book!Next
Requested == part = "cache" /\ Cache!Next
Stores    == part = "store" /\ Tables!Next
Runs      == part = "steps" /\ Steps!Next

ServicesNext ==
    \/ Engine /\ UNCHANGED <<part, relayVars, bookVars, cacheVars, storeVars, stepVars>>
    \/ Relays /\ UNCHANGED <<part, engineVars, bookVars, cacheVars, storeVars, stepVars>>
    \/ Playbooks /\ UNCHANGED <<part, engineVars, relayVars, cacheVars, storeVars, stepVars>>
    \/ Requested /\ UNCHANGED <<part, engineVars, relayVars, bookVars, storeVars, stepVars>>
    \/ Stores /\ UNCHANGED <<part, engineVars, relayVars, bookVars, cacheVars, stepVars>>
    \/ Runs /\ UNCHANGED <<part, engineVars, relayVars, bookVars, cacheVars, storeVars>>

(* The fairness of the parts, of the part that is followed.                    *)
Fairness ==
    /\ WF_engineVars(part = "engine" /\ Tick)
    /\ WF_engineVars(part = "engine" /\ Sync)
    /\ \A w \in Workers : WF_bookVars(part = "playbooks" /\ Book!prepare(w))
    /\ WF_storeVars(part = "store" /\ Tables!Migrate)

ServicesSpec ==
    /\ ServicesInit
    /\ [][ServicesNext]_<<part, engineVars, relayVars, bookVars, cacheVars, storeVars, stepVars>>
    /\ Fairness

-------------------------------------------------------------------------------
(* The properties of the parts, stated and explained in their modules. Those   *)
(* of MonitorEngine (PageNeedsStreak, EpisodeWasPaged, EpisodesAreClosed,      *)
(* SustainedFailureFires) come with it.                                        *)

(* No two envelopes share a sequence number (saveCreds before the post).       *)
NeverReusesSeq == Relay!NeverReusesSeq

(* A restart resumes the enrolment and its sequence (LoadCreds).               *)
RestartResumes == Relay!RestartResumes

(* One playbook per incident (begin, activeExecution).                         *)
OnePlaybookPerIncident == Book!OnePlaybookPerIncident

(* A preparation frees its incident and its slot (prepare's deferred calls).   *)
PreparationEnds == Book!PreparationEnds

(* A repeated request is not dispatched again (idSet.add).                     *)
NotDispatchedTwice == Cache!NotDispatchedTwice

(* The store opens after any interrupted migration (migrate).                  *)
StoreOpens == Tables!StoreOpens

(* A deleted project leaves no row of the tables with a foreign key behind     *)
(* (the schema, DeleteProject).                                                *)
NoOrphans == Tables!NoOrphans

(* Paging through the journal misses and repeats nothing (ListJournal).        *)
PagesAreComplete == Tables!PagesAreComplete

(* First times and events stay on record (the upserts of the store).           *)
HistoryIsKept == Tables!HistoryIsKept

(* What is verified as steady did not restart meanwhile (Verify).              *)
VerifiedIsSteady == Steps!VerifiedIsSteady

(* Only the process that was meant is signalled (the helper's pidfd).          *)
OnlyTheMeantIsSignalled == Steps!OnlyTheMeantIsSignalled

(* A port sshd is seen to use stays open while it is (RuleRemove), and what is *)
(* protected is not acted on under a name of its own or, by the helper, an     *)
(* alias (checkUnit).                                                          *)
AccessIsKept == Steps!AccessIsKept
===============================================================================
