# Verification of the rootmote agent

The rootmote agent runs on a server its owner watches from a phone. It
evaluates monitors, reports their events to a relay ("Watchtower"), proposes
runbooks for the incidents the relay opens, and, once the owner has approved
one on the phone, runs its steps on the host, verifies them and can undo them.
This directory holds TLA+ models of the agent's core, the TLC runs that check
them, and TLAPS proofs.

Paths below are relative to the repository's root unless they name a module.

## 1. Inventory

| Component | State | Operations | Interacts with |
|---|---|---|---|
| Remediation ledger, `internal/remediation` | rows `remediation_runbooks` (write-once), `remediation_executions` (status), `remediation_events` (seq per execution), audit rows | Propose, Approve, Decline, Execute, DeriveRollback, RecoverInterrupted, Subscribe | store, tokens, step executor, subscribers |
| Confirmation tokens, `internal/review` | `confirmation_tokens`: action hash, expiry, used_at | MintConfirmationToken, ConsumeToken | Approve's validator |
| Request handlers, `internal/server/remediation.go` | a goroutine per connection, one per background Execute | incident.runbook.get/decline/execute, incident.execution.subscribe, incident.verify, incident.rollback (two phases) | ledger |
| Store, `internal/store` | one SQLite connection, the columns its migrations added, some twenty tables | single statements and short transactions; conditional updates | everything |
| Startup, `cmd/rootmote-agent/main.go` | none | open the store, RecoverInterrupted, serve | ledger, systemd (`Restart=on-failure`) |
| Monitor event queue, `internal/watchtower/monitor_events.go` | the file `watchtower.queue`, `queueMu` | EnqueueMonitorEvent, FlushQueue, condenseMonitorEvents, ensureMonitorEventIDs, SendMonitorEvents | monitor engine, heartbeat loop, relay |
| Monitor evaluators, `internal/monitor/evaluators.go`, `checks_targets.go`, `collectors.go` | restart counters, fill samples, log offsets and baselines, certificate cache, all in memory; the boot id, stored | one evaluator per kind: a reading becomes fail, ok or hold | host, engine (WasFailing) |
| Monitor engine, `internal/monitor` | `monitor_state` rows and their cache, silences, synced definitions | Evaluate, process, stepState, retireAbsent, SetSyncedDefinitions, Silence | evaluators, queue |
| Watchtower client, `internal/watchtower/watchtower.go` | credential file, sequence number | Enroll, Heartbeat, Run, EnsureRunning, the signed senders | relay |
| Projector, `internal/watchtower/remediation.go` | none durable | projects ledger events to the relay | event stream |
| Diagnosis, `internal/diagnose` | one bundle of evidence per incident | Collect, Match, Assess | host, playbook service |
| Playbook service, `internal/playbook/service.go` | incidents being prepared, slots | IncidentOpened, Generate, prepare, propose | relay, ledger |
| Playbook rules, `internal/playbook/rules.go`, `validate.go`, `generate.go` | none | FromBundle, Check, dropWrongDisk | diagnosis, inventory |
| Step catalog and privileged helper, `internal/steps`; firewall, `internal/firewall` | host files, services, processes, rules | Validate, Run, Verify, helper calls, RuleAdd, RuleRemove | host |
| Websocket server, `internal/server/server.go` | replay cache of request ids, a bounded writer per connection, pairing key | dispatch | handlers |
| docker, infra, inventory, process, systemd, webserver, notifications | none of their own | read the host or format commands | host |

What is hard in this code:

* Every request is a goroutine, every SQL statement a separate step, and the
  agent may die between any two of them. A run changes the host, which no
  transaction covers, before the ledger hears of it.
* Authority to change the host is a single-use token that is checked in one
  statement and spent in another, and both are separate from the transition
  it authorizes.
* A phone that lost an answer asks again: every operation meets duplicates,
  concurrent and late.
* A rollback is derived from the record of a run that may still be in progress.
* The event queue is a file that two goroutines read, send from and shorten,
  with the lock released during the send.
* The goroutine that changes the host also feeds the phones that watch, through
  bounded channels, while these connect, stall and vanish.
* The engine's tick reads a node and a definition, queues a page, and writes
  the node back, each under a lock of its own, while the sync goroutine mutes.
* Evaluators see a host that does not always answer, and must tell a source
  that is silent from one that is healthy.
* A step's verification looks at a host that goes on changing between its looks.
* Five goroutines save one credential file, and a re-enrolment overwrites it.

`PROJECT.json` lists each hazard at its line, with the property that would
catch it going wrong, or the reason why none does.

What makes each component correct: the ledger runs approved content only, each
step once and in order, and its record agrees with the host; tokens authorize
one approval of one content; recovery settles everything an earlier
incarnation left running; the queue loses no event and shows the relay each
event under one id; the condensed batch keeps incidents whole; a phone that
keeps reconnecting sees every event once, and never holds up a run; the engine
pages after the configured streak and only then, and never resumes an episode
nobody was told of; only evidence ends an episode; no envelope reuses a
sequence number; an incident gets one playbook, of catalog steps on names that
exist and are not protected; what is verified as steady was steady.

## 2. Modules

| Module | What it is |
|---|---|
| `Remediation` | the ledger, the handlers that drive it, tokens, the store's rows and recovery |
| `ExecutionLifecycle` | what the ledger promises of one execution: the abstract specification |
| `RemediationInv`, `RemediationProofs` | the inductive invariant `ExecuteInv` and the theorems that follow from it |
| `LedgerInv`, `LedgerProofs` | the ledger's other inductive invariants, what follows from them, and the refinement |
| `MCRemediation` | the instances for TLC |
| `MonitorQueue`, `MonitorQueueProofs`, `MCMonitorQueue` | the offline event queue, its two flushing goroutines, its file and the relay |
| `EventStream`, `EventStreamProofs` | an execution's live events: fanout, Subscribe, the connection's writer, a phone that reconnects |
| `CondenseLoop` | `condenseMonitorEvents` as the loop it is |
| `Evaluators` | the monitor evaluators: verdicts, thresholds, memory |
| `Diagnosis` | collectors, evidence budget, signatures, headline |
| `PlaybookRules` | rules, the check of a playbook, what becomes of a draft |
| `Slices` | two loops that the last three write out: filtering a slice, adding one up |
| `MCPipeline` | `EventStream` and the four after it, for TLC |
| `PipelineProofs` | what is proved of `CondenseLoop`, `Evaluators`, `Diagnosis` and `PlaybookRules`, which `MCPipeline` instantiates, and of `MCPipeline` itself |
| `MonitorEngine`, `MonitorEngineProofs` | the engine: tick and sync goroutines, state machine, cache and rows |
| `RelayClient` | enrolment, credential file, sequence numbers, five senders |
| `PlaybookService` | preparations, slots, single flight |
| `ReplayCache` | the request-id cache |
| `StoreTables` | the other tables of the store |
| `HostSteps` | one catalog step on a host that goes on by itself, helper and firewall |
| `MCServices` | the six components above, for TLC |
| `ClientProofs` | what is proved of `RelayClient` and `PlaybookService`, which `MCServices` instantiates |
| `ServicesProofs` | the same of `HostSteps`, `ReplayCache` and `StoreTables`, and of `MCServices` itself |

How they meet. An evaluator's verdict is `tick.obs` of `MonitorEngine`; a
transition of the engine is `Enqueue` of `MonitorQueue`, and the batch a flush
sends is a `monitor_events` envelope of `RelayClient`; an incident the relay
opens is `IncidentOpened` of `PlaybookService`, whose `FromBundle` and
`GeneratorGenerate` stand for `Diagnosis` and `PlaybookRules`, and whose
`propose` is `Propose` of `Remediation`; a step that `Remediation` runs is a
behaviour of `HostSteps`, and what it records is the log `EventStream` serves.
Between two of these stand the relay, the user or a file, and each module
leaves its inputs open (any verdict, any incident, any outcome of a step), so
that the composition restricts nothing any of them was checked without.

### Remediation

One step per SQL statement. The store runs on one connection, so statements
are atomic and everything between two of them may interleave. A *worker* is a
goroutine: a request handler which, once it has sent its ack, becomes the
background Execute it starts (`approveAndAckExecute`, `runRemediationExecute`).
`pc[w]` names the statement the worker is about to run, `call[w]` its arguments.

| Variables | Code |
|---|---|
| `status`, `runbookHash`, `runbook` | `remediation_executions` and `remediation_runbooks` |
| `events`, `audit` | the append-only trails (types; index and outcome of step results) |
| `binding`, `used` | `confirmation_tokens` |
| `host` | what the host has really seen: one entry per run of a step |
| `grant`, `owner` | history: which token approved, which incarnation started |
| `agent`, `todo`, `fixing` | startup and RecoverInterrupted |

| Actions | Code |
|---|---|
| `Propose`, `GetRunbook` ... `EventBlocked` | `Manager.propose` |
| `RequestRollback`, `DeriveRollback`, `DeriveFromEvents` | incident.rollback phase A, `Manager.DeriveRollback`; it continues as `propose` |
| `RequestExecute`, `approveAndAckExecute`, `Approve`, `ConsumeToken`, `MarkConfirmationTokenUsed`, `ToApproved`, `AuditApproved`, `EventApproved` | incident.runbook.execute and phase B of incident.rollback, up to the ack |
| `Execute`, `ToExecuting` ... `EventInternalVerification` | `Manager.Execute` |
| `RequestDecline`, `Decline` ... `EventDeclined` | incident.runbook.decline |
| `MintConfirmationToken` | auth.confirm |
| `StoreError` | any statement may fail: the caller returns at once |
| `Crash`, `Restart`, `Recover...` | process death at any point, and startup |

Abstractions. An execution and its runbook share one id, as the playbook
service mints them in pairs. A runbook is its sequence of step kinds (with
parameters), whether it has a rollback plan, the number of its manual steps
and the L3 flag; its content hash is the tuple of the parts the hash covers,
so equal hashes mean equal content. Texts, outputs and timestamps are left
out. A step's outcome is a choice. A token's expiry is a choice to refuse.
Reads of write-once runbook rows are merged with the status read next to them.
`DeriveRollback` on a rollback always ends in ErrNoRollbackPlan (a derived
runbook has no plan), so only primaries are asked for. The playbook service
may propose while `RecoverInterrupted` still runs; the model lets it propose
afterwards, which is equivalent, because a proposal only writes rows of a
fresh id and recovery only touches rows that are executing or verifying.
`resolved` is never written by this repository; it is kept where the code
tests for it.

### MonitorQueue

Each critical section of `queueMu` is a step: enqueue, read-and-condense, and
clear. The send between the last two may succeed, fail, or succeed with its
answer lost. Callers are the engine, which enqueues a transition and flushes,
and the heartbeat loop. Any transition of a monitor may follow any: silences,
muted episodes and a crash before the engine saved its state all produce
repeats and gaps. A write of the file may fail half-way (`os.WriteFile`
truncates first), which leaves it empty or unparsable. The relay, which is
external, accepts a batch and knows events by their EventID. The initial file
may hold an event of a version that had no EventIDs. `stale`, `trampled` and
`torn` are history variables that say why an event is gone.

### CondenseLoop

The loop, one iteration per step, for every queue up to the bound. Its
selection is compared with the definition `MonitorQueue` uses
(`condensePositions`), and FirstFailureAt with the minimum of the episode.

### EventStream

One execution, whose events are numbered as the store numbers them. `app[n]`
is the `appendEvent` call that writes event n: the row is inserted
(`persisted`), then the subscribers are copied under `m.mu` (`fanout`), then
each is sent the event (`Deliver`), which blocks while its channel is full and
its `done` is open. A connection s has three goroutines: the forwarder of
`Subscribe` (`fwd`, the channels `ch` and `out`, the snapshot `replay`, and
`high`, which is maxReplayed), the server's subscription goroutine (`srv`,
through its deferred cleanup: `Deregister`, `CloseDone`, `Finished`), and the
writer (`send`, `WriteFrame`, `shutdown`). The phone may stop reading, lose the
connection at any time, and then connects again asking for what follows the
last event it has seen. The other frames of a connection, which share its
writer, are left out: they only make the queue fuller. Channel capacities are
constants (256 and 1024 in the code).

Two appends to one execution overlap only at its edges: when the retry of a
request that derives a rollback finds the row, and the phone approves it,
before the first derivation has recorded its `runbook_proposed`. Then events
may be fanned out in the other order, and a phone that loses its connection
in between asks past the one it has not seen. `NothingMissed` excludes these
behaviours by the history variable `overlap`; `NoDuplicates` and
`NothingStuck` hold with them.

### Evaluators

A behaviour follows one evaluator and one target. The clock counts minutes;
percentages, hours and days are the small levels `0..MaxLevel`, and the windows
of the code (crash loop, fill trend, log baseline, certificate retry) are
constants scaled down with the clock, listed at the top of the module. `mem` is
what an evaluator keeps in memory (restart counters, samples, offsets, the
certificate cache) and loses with the agent; `host` holds the boot id and its
stored copy, which it does not. Each evaluator is one action, which reads what
it likes (any level, or no answer) and ends in a verdict: fail, ok, hold, error
(the whole kind's tick failed), or absent (left out of the report). The engine
is kept only as `inEpisode`, which the evaluators ask for: a fail opens an
episode, an ok or an absence may end one. `opened` remembers the level that
opened it, so that hysteresis can be a property and not a copy of a guard.

### Diagnosis

One incident: its own collector (`collectDocker`, `collectSystemd`, ...), the
host's metrics, the web servers, then Match and Assess (`Run`). Every source
may be missing, fail, or let the time run out, and the item budget may be
reached anywhere. Evidence ids are made as the code makes them, with their
suffixes. Logs keep the newest lines; a line names an upstream failure or not.

### PlaybookRules

Pure: `FromBundle` (the rules by signature), `Check` (steps in the catalog, on
discovered and unprotected names, not too many), `dropWrongDisk` and `Generate`
(what becomes of the relay's draft). `Discovered` is what the host of the report
showed, by any of the names a step may use: the reference `Check` is held to. One action makes an incident of a small
host: any report, service, mounts, sequence of signatures, and, where no rule
fits, any draft, sensible or not.

### MonitorEngine

| Actions | Code |
|---|---|
| `Evaluate`, `EvaluateFails`, `retireAbsent` | a tick: what the evaluator reported; targets it no longer reports |
| `Resolve`, `Step`, `StepDisabled`, `Enqueue...`, `Write`, `Put...` | `process`, cut where the lock is released |
| `SetSynced`, `MuteNodes`, `PutMuted...` | `SetSyncedDefinitions`, on the sync goroutine |
| `Silence`, `Restart` | alerts.silence; death, and `New` loading the rows |

`states` is the cache, `stored` the rows, which lag behind it. `tick` holds the
locals of `process`: the definition it resolved before the lock and the node it
steps after it, either of which the sync may have changed. `told`, `streak` and
`behind` are history variables: what the relay was told, the failing readings
in a row, and whose row is known to be out of date. Time is the age of a node
since its last transition, up to the cooldown.

### RelayClient

The credential file is opened (and so truncated) in one step and written in the
next, by the sender that holds `Client.mu` or by `Enroll`, which does not. Two
overlapping writes leave a torn file when the longer one was first. A save may
fail before the open, while writing, or after. The relay, external, mints
agents and remembers what was posted. A restart with an unparsable file leaves
the agent without a client, as `NewClient` does.

### PlaybookService

A goroutine per preparation, from `IncidentOpened` (automatic: waits for a slot,
or gives up at its deadline) or `Generate` (the user: no slot), through `begin`
(single flight), `activeExecution`, `FromBundle`, `GeneratorGenerate` and
`propose` to the deferred `end`. What happens to a proposal afterwards is the
ledger's; here it is declined or settles.

### ReplayCache

`idSet.add` as it is: collect expired entries when full or after a TTL, evict an
oldest one, refresh a replay. `last` is the history of frames.

### StoreTables

The tables that are not the ledger's. No call touches two groups of them (only
projects are in two), so a behaviour is about one: the schema's migrations,
projects with what belongs to them, the journal and a client that pages through
it, inbox and silences, action jobs, and the tables that map a key to its
latest value. Values are left out where no property tells them apart.
`NoOrphans` covers the tables with a foreign key (`ON DELETE CASCADE`): sessions
and their events, previews, memory and the journal. Diff summaries name a project
without one: `PutDiffSummary` writes them for any project, there or not, and
`DeleteProject` leaves them, in the group of the projects as well as in that of
the maps. The audit rows and confirmation tokens of a deleted project stay in the
same way; they are the ledger's.

### HostSteps

One step of the catalog: `Validate`, the run (the helper checks again, as root,
what was checked before), `Verify` with its looks and polls. `Host` is what goes
on meanwhile: a program crashes and is restarted and counted, a container's
health check comes to a result, a process ends and its number is reused, sshd
starts or stops using a port. The firewall manager's rules are the running and
the saved ones, which are changed one after the other.

The check before a rule is removed asks four sources for sshd's ports (listening
sockets, socket units, open connections, `sshd_config`). Any of them may fail, and
a source that fails finds nothing, as in `SSHPorts`; only when no source finds any
port does 22 stand in. `unread` remembers which failed. `AccessIsKept` says what
that leaves: a removal goes on only when every use of the port is one that could
not be looked up, so a port that sshd has used all along stays open unless a
lookup failed, and port 22 even when all did. A step for a unit goes through the
helper and its check of the canonical name, unless the agent runs as root: then
`SystemctlClient.Action` calls systemctl itself and only the name as given was
checked (`runUnitAction`; `phpfpm.restart` uses the helper either way). The count
of restarts reads zero when a container cannot be inspected, and when systemctl
prints none of a unit (`Counts`).

### MCPipeline and MCServices

Each puts several modules into one instance. They share no variables: a variable
`part` says which one a behaviour follows, and the others stay at one of their
initial states. The properties are those of the modules, named once more. This
is a way to run them, not a composition that shows more than each alone; how
the parts meet is said at the head of this section.

## 3. Runs

| Run | Shows | Bounds |
|---|---|---|
| `races` | `RunsInOrderOnce`, `OneMutatorAtATime`, `RollbackIsStable` | 2 goroutines, 2 tokens, a primary and its rollback |
| `tokens` | `EveryRunHasItsToken` | 2 goroutines, 2 primaries of one incident, 1 token, 2 contents |
| `crash` | `TypeOK`, `ExecuteInv`, `LedgerTracksHost`, `ImplementsLifecycle` | 1 goroutine, 3 kinds of runbook and their rollbacks, 2 tokens, 2 crashes, 1 store error |
| `live` | `TrailIsOrdered`, `ApprovedStarts`, `InFlightSettles` | 2 goroutines, 1 token, 2 crashes |
| `queue` | `LossNeedsOverlapOrTornFile`, `OneIdPerEvent`, `RecoveryHasItsFiring`, `EventsReachRelay` | 2 monitors, 3 events, 1 crash, 1 failed write |
| `pipeline`, stream | `NoDuplicates`, `NothingMissed`, `NothingStuck` | 2 goroutines, 2 events, 2 connections, channels and queue of size 1 |
| `pipeline`, condense | `CondensesToLastPair` | all queues up to 4 events of 2 monitors, 3 states, 3 times |
| `pipeline`, evaluators | `EpisodeEndsOnEvidence`, `RebootAnnouncedOnce` | every evaluator and definition, 4 minutes, levels 0 to 2, 3 boots, any restarts of the agent |
| `pipeline`, diagnosis | `CulpritIsNamed` | every kind of incident, budgets 1 to 4 |
| `pipeline`, rules | `ProtectedIsNeverTouched`, `CleanUpsHelp` | a host with 5 units, a container, 2 mounts; drafts of 1, 2 and too many steps |
| `services`, engine | `PageNeedsStreak`, `EpisodeWasPaged`, `EpisodesAreClosed`, `SustainedFailureFires` | 1 target and the wildcard, thresholds 2, cooldown 1, 1 fault |
| `services`, client | `NeverReusesSeq`, `RestartResumes` | 5 senders, 2 enrolments of 2 envelopes, 2 faults |
| `services`, playbooks | `OnePlaybookPerIncident`, `PreparationEnds` | 2 incidents, 2 goroutines, 1 slot, 1 decline, 1 fault |
| `services`, cache | `NotDispatchedTwice` | 4 ids, room for 2, TTL of 2 ticks |
| `services`, store | `StoreOpens`, `NoOrphans`, `PagesAreComplete`, `HistoryIsKept` | 2 projects, 2 ids, 3 journal entries, pages of up to 2, clock 2 |
| `services`, steps | `VerifiedIsSteady`, `OnlyTheMeantIsSignalled`, `AccessIsKept` | one step of every kind, 3 happenings on the host, 3 polls |
| `stranded`, `queue_overlap`, `mount_silence`, `verify_blind`, `playbook_journal` | what a comment or the README says and the code does not do (section 6) | the smallest instance that shows it |

Why the bounds are enough to be interesting. Two goroutines are what every
race in the ledger needs: the winner and the loser of a conditional update.
Two primaries of one incident with one content are what a token could cross.
The runbooks of `crash` have two steps with undos followed by one without, one
whose undo is forced to L3, and one that is L3 itself; two crashes let the
second hit the recovery from the first. Two goroutines with store errors are
beyond TLC here and covered by the proof. Three events are what two overlapping
flushes need to lose one: one for each flush to take and one in between.
With channels of size 1, two events fill a channel and block the fanout of the
second, and two frames overflow the writer's queue; the second connection is
the one that has to make up for what the first dropped.

A threshold of two is the smallest that has a pending and a recovering state.
The engine's targets only meet in the wildcard definition, which one target
meets too. One fault is enough for a row to be out of date (a crash between the
queue and the row does what a failed write of the row does) and for the
restart, a fault itself, the first restart finds what a race or a write that
was cut off left. Two faults let a restart of the client follow a failed save.
Levels 0 to 2 have a value below, in and above every band; four minutes are
longer than every scaled window. Three journal entries on pages of one and two
let an entry appear before, between and behind the pages that were read. Three
happenings restart a program between the two looks, and end a process and give
its number to another with one to spare.

Deadlock is checked where a run has no crash and no store error. With one, a
proposal cut off between its two inserts uses up a primary id for good; the
agent would mint another, the bounded instance may have none left. The parts of
`pipeline` and `services` end when their events, ids, minutes or happenings are
used up; what deadlock means for the stream is `NothingStuck`, which is about
the goroutines alone: none of the steps counted is the phone's. As each of
these steps uses up something bounded (an event to send, a goroutine's
remaining statements), a state in which none is enabled is always reached, and
the invariant says what holds there. `PreparationEnds` says the same of the
playbook service.

Fairness. `FairSpec` of Remediation: goroutines are scheduled and store calls
and host steps return (the helper and every command have timeouts), so each
worker's next step is weakly fair; systemd restarts a dead agent, so recovery
is weakly fair. Requests are not fair: nobody has to ask for anything.
`RetrySpec` adds a phone that keeps asking, for `stranded` only, where it makes
the counterexample stronger. The liveness run of the ledger assumes no store
errors: an error in the middle of Execute leaves the row executing until the
next restart, which nothing forces. `FairSpec` of MonitorQueue: the heartbeat
loop ticks and flushes progress (weak), and a relay that is asked again and
again accepts a batch again and again (strong, per goroutine): an outage may
last any time, but not for ever. MonitorEngine: both of its loops run for as
long as the agent does (`WF(Tick)`, `WF(Sync)`); syncs, silences, faults and
what the evaluator reports are not fair. PlaybookService: goroutines go on, and
the call to the relay has a deadline (`WF(prepare(w))`). StoreTables: a process
that opens its store goes on with its migrations (`WF(Migrate)`).

What the properties leave out. `EpisodeWasPaged` and `PageNeedsStreak` excuse a
target whose row is out of date, because its last write failed or was cut off;
`RestartResumes` excuses a file whose last save failed or overlapped a
re-enrolment; `VerifiedIsSteady` excuses a container or unit whose count of
restarts was not read at one of the looks (`verify_blind` shows why) and
Supervisor, which counts no restarts; `AccessIsKept` excuses failed lookups of
sshd's ports, and for aliases an agent that runs as root; `EpisodeEndsOnEvidence`
asks for a better level of disk, inode and memory only when the recovery value is
not beyond the firing value (`Ordered`), because their evaluators do not clamp
it, while the pairs they are given are in any order; `NotDispatchedTwice` excuses a cache through which as many
other requests went as it has room for; `NothingMissed` excuses two appends
that overlap. Each excuse is a history variable, or a count,
that only the faults and races it is named for can set.

## 4. Refinement

`ImplementsLifecycle` says that Remediation implements `ExecutionLifecycle`,
mapping `status` to the phase, the stored steps to the plan, the host's runs to
the log and the number of crashes to the incarnation. The abstract
specification has no goroutines, tokens or rows; it allows a step to run only
in order, once, while all earlier ones succeeded, by the incarnation that
started the execution; it lets only a later incarnation close what was
interrupted; and a rollback may only consist of undos, last first, of steps
that the host has seen succeed, of a parent that runs no more steps. TLC checks
it with crashes and store errors, runbooks of several steps and their rollbacks
(`crash`) and one goroutine; with two the instance is too large for it in
reasonable time. `LedgerImplementsLifecycle` (section 5) proves the refinement
for any number of goroutines, executions, crashes and store errors.

## 5. Proofs

Every theorem below is about the specification of the module named, for all
values of its constants: any number of goroutines, events, connections,
incidents, projects, faults and crashes, any thresholds and capacities. Each
follows the same argument: a conjunction of named parts holds initially, is
preserved by every action (one lemma per action or per group of actions of one
operation), and implies the property. The table names that conjunction, which
is itself a theorem; what it adds to the properties is why they hold.

| Module | Inductive invariant (theorem) | Proved from it |
|---|---|---|
| `RemediationProofs` | `TypeOK`, `ExecuteInv` (`Inductive`) | `TypeOK`, `RunsInOrderOnce`, `OneMutatorAtATime` |
| `LedgerProofs` | these and `LedgerInv` (`LedgerInductive`) | `LedgerTracksHost`, `RollbackIsStable`, `EveryRunHasItsToken`, `TrailIsOrdered`, `ImplementsLifecycle` |
| `ClientProofs`, client | `RelayInv` (`RelayInductive`) | `NeverReusesSeq`, `RestartResumes` |
| `ClientProofs`, playbooks | `BookInv` (`BookInductive`) | `OnePlaybookPerIncident` |
| `MonitorQueueProofs` | `QueueInv` (`QueueInductive`) | `LossNeedsOverlapOrTornFile`, `OneIdPerEvent`, `RecoveryHasItsFiring` |
| `EventStreamProofs` | `StreamInv` (`StreamInductive`) | `NoDuplicates`, `NothingMissed` |
| `EventStreamProofs`, waiting | `WaitInv` (`WaitInductive`) | `NobodyWaits`, which is `NothingStuck` with `ENABLED` spelled out |
| `PipelineProofs`, condense | `LoopInv` (`LoopInductive`) | `CondensesToLastPair` |
| `PipelineProofs`, reboots | `RebootInv` (`RebootsInOrder`) | `RebootAnnouncedOnce` |
| `PipelineProofs`, evaluators | `EvalInv` (`EvalInductive`) | `EpisodeEndsOnEvidence` |
| `PipelineProofs`, rules | `IncidentInv` (`IncidentInductive`) | `ProtectedIsNeverTouched`, `CleanUpsHelp` |
| `PipelineProofs`, diagnosis | `DiagInv` (`DiagnosisInductive`) | `CulpritIsNamed` |
| `MonitorEngineProofs` | `EngineInv` (`EngineInductive`) | `PageNeedsStreak`, `EpisodeWasPaged` |
| `ServicesProofs`, steps | `StepInv` (`StepInductive`) | `VerifiedIsSteady`, `OnlyTheMeantIsSignalled`, `AccessIsKept` |
| `ServicesProofs`, cache | `CacheInv` (`CacheInductive`) | `NotDispatchedTwice` |
| `ServicesProofs`, store | `StoreInv` (`StoreInductive`) | `NoOrphans`, `HistoryIsKept` |
| `ServicesProofs`, pages | `PagesInv` (`PagesInductive`) | `PagesAreComplete` |
| `PipelineProofs`, composition | those of its parts (`EveryRunIsItsParts`) | all of the above at once, of `PipelineSpec` (`PipelineIsSafe`) |
| `ServicesProofs`, composition | those of its parts (`EveryRunIsItsParts`) | all of the above at once, of `ServicesSpec` (`ServicesAreSafe`) |

### The arguments

**Execution.** That a step runs once depends on the goroutine that is about to
run it being alone in the loop (`OwnerIsAlone`), on the row being `executing`
for as long as it is there (`OwnsExecution`), on its index agreeing with what
the host has seen (`LoopMatchesHost`), and on nothing having run before the
execution was started (`NothingRanEarly`). That a rollback never runs beside
its parent depends on the parent's status staying in the set DeriveRollback
tested, from the test through the two inserts to the run (`ParentIsDone`,
`RollbackFollowsParent`), for which it matters that recovery moves `verifying`
to `remediation_failed`, a status in that set, and that recovery has the agent
to itself (`NobodyWhileDown`). For the types the one interesting case is
`DeriveRollback`: that what it builds from the events is a runbook made of
catalog steps (`RollbackType`).

**The ledger.** `LedgerInv` has five parts. *Record*: every result names a run of
its own and its outcome, in order, and only the goroutine between the step and
its event has a run without one. *Content*: a row carries the hash of what is
stored, and a rollback in anybody's hands, or stored, is the derivation from
its parent's record. This is stable because the parent's record no longer grows
once DeriveRollback has tested its status, which is what `ExecuteInv` says.
*Authority*: a goroutine in Approve holds, at each label, what it has checked
there (`TokenIsHeld`): the binding until the token is spent, the spent token of
its own until the conditional update. *Trail*: whoever may hand an execution to
Execute has its approval on record. *Incarnations*: the loop runs in the
incarnation that started the execution, and what is in flight while the agent is
not serving was started by an earlier one.

**Refinement.** `LedgerImplementsLifecycle` maps the initial states, and every
step of the ledger to a step of `ExecutionLifecycle` or to a stutter: the
conditional updates to its transitions, the run of a step to its run (enabled
because `RecordInv` and `ExecuteInv` say that all earlier ones succeeded and no
later one ran), the insert of a derived rollback to its birth (whose plan are
undos of runs of its parent, by `ContentInv`), a crash to a new incarnation.

**Client.** A sequence number is not reused because memory and file are never
behind what was posted or is about to be (`Covers`), which needs that
`Client.mu` is held from taking a number to saving it (`LockInv`), and that an
agent being enrolled has sent nothing (`AgentsInv`). `FileInv` says what the
file holds while nothing has disturbed the last save.

**Playbook service.** From `begin` to `end` a goroutine has its incident to
itself (`SingleFlight`), so that what `activeExecution` found still holds when
it proposes (`AskedForNone`).

**Queue.** The file is a suffix of what was enqueued (`FileIsSuffix`); a batch on
its way stands for all that was read of it, and what was read is still the head
of the file unless the file shrank meanwhile (`BatchIsWhole`). That condensing
keeps, for every event it drops, one that replaces it, and a recovery together
with its firing, is proved of `condensePositions` for queues of any length.

**Stream.** An event is at one place of a subscription only: in what was sent,
in the snapshot, in the channel, or still to be fanned out; up to the high-water
mark it comes from the snapshot, above it from the channel (`OnePlace`). While
appends do not overlap these places follow one another without a gap
(`GapFree`), of which `NothingMissed` is the end the phone sees.

**Waiting.** Overlapping or not, an event a subscription asked for is never
nowhere: it was queued, or is in a channel, in the snapshot, held, or still to be
fanned out (`Complete`). A fanout that is not over has a subscriber left to send
to, and a subscription leaves `m.subs`, closes `sub.done` and ends in this order
(`CleanedUp`). When the conditions of no step hold (`CanAppend`, `CanForward`,
`CanServe`), a served subscription has nothing in any of its places, so no fanout
can wait for it, and `Complete` leaves only the wire.

**Engine.** `process` carries between the step and the writes a transition that
agrees with the node (`CarriesInv`); an episode in the cache was announced, or
is about to be put there by `process` after its page (`EpisodesInv`); a row is the
node's unless it is known to lag, or `process` is about to put it, or a
sync muted one of them (`RowsInv`); a pending node counts no more failures than
were read in a row (`CountsInv`). Looking for the invariant showed that the
first reading that succeeds counts towards a recovery, so that a threshold of
one takes two, and the range of a node's counter in `MonitorEngine` had been one
too small for it.

**Condensing.** After any number of iterations the history of a monitor points at
its last firing event, at the last resolved event after it, if any, and at the
earliest time of that episode that is one (`FiringInv`, `ResolvedInv`,
`EarliestInv`).

**Reboots.** A boot is announced only when an earlier one is stored, and is stored
by then, so that what was announced is not newer than what is stored and grows
with the boots (`RebootInv`). Every other evaluator leaves both alone, which is
part of the proof.

**Loops over data.** The code filters slices, adds them up and appends to them
until a budget is reached. The models write these loops as recursive functions
(`Keep`, `Total`, `AddEach`), and what they return, for sequences of any length,
is proved by induction. The library's induction theorems take an operator, which
no prover here can instantiate, so `PipelineProofs` proves induction once more for
a *set* of numbers (`Induction`, from the least member of a set, `LeastMember`,
from the well-foundedness of `<`), and shows of each loop that the function exists
(`KeepLoopExists`, `TotalLoopExists`, `AddLoopExists`) before it says what it
returns (`KeepType`, `TotalType`, `AddEachKeeps`).

**Evaluators.** The level that opened an episode lies beyond the firing value the
evaluator uses, whatever pair of thresholds the relay sends (`EpisodeInv`). The
recovery value lies on the healthy side of it for every pair where `thresholds`
clamps it (`LimitsFit`). Disk, inode and memory take the pair as it is, and what
is proved of their levels is proved under `Ordered`, that the recovery value is
not beyond the firing value; without that they flap. So a healthy verdict
during an episode is on a better level. What was read makes the level an integer:
the slope over the samples of a disk, the lines of a log, the certificates of a
file (`MemoryInv`). A certificate endpoint that does not answer is judged by the
last date, which in an episode is one that runs out (`CertInv`), so that silence
is never health. The kinds without a level need only the last (`Answered`).

**Rules.** Every rule names only what its step's source lists, or frees space on
the disk its signature is about (`RuleSteps`), trimming and `Check` leave only
steps with a known, unprotected name (`PreparedIsChecked`), and `dropWrongDisk`
leaves of a draft only clean-ups of a full disk (`DraftIsTrimmed`).

**Diagnosis.** The component that the collector is about is added first, before
anything can use up the budget, and nothing collected later moves it (`After`);
`DiagInv` says that it is still the first item when `Match` looks, which then finds
the signature that cites it, and the headline is the most confident of all.

**Steps.** Between the two looks at a program its restart count only grows
(`LooksInv`); a process number that has been given away is not given back, and
what is signalled was pinned while it was the meant one (`SignalsInv`); the rule
of a port that sshd has used all along is only removed after a lookup failed that
would have found the use, and the rule of port 22 only when not all of them did
(`AccessInv`, `Unseen`).

**Cache.** An id within its lifetime is remembered with its last time, or as
many others as there is room for came since (`CacheInv`); eviction takes an
oldest one, so at least `Cap - 1` others are younger, and the frame that evicts
makes `Cap`.

**Store.** In the tables with a foreign key the rows' projects are there
(`OwnersInv`), which deleting a project keeps because it takes their rows along.
A row that keeps the time it was created keeps it when it is written again,
whether its project is there or not (`UpsertKeeps`).

**Pages.** What the client has seen is sorted and ends at its cursor, and what was
there when it began, stayed, and is not seen yet lies before the cursor
(`PagerInv`): a backdated entry may slip in front of the cursor or behind it, and
moves neither. That a page is the sorted head of the rows needs that a finite set
of entries with different ids can be sorted, shown from a smallest set that
cannot (`SortedExists`); the query's `ORDER BY` is the list that is chosen
(`NewestFirst`).

**Composition.** The runs `pipeline` and `services` check `PipelineSpec` and
`ServicesSpec`, in which several modules stand side by side. A step of one leaves
the variables of all the others alone, which is proved from the actions
(`EveryStepIsAParts`), so a behaviour of the composition is one of each part on
its own (`EveryRunIsItsParts`), and what is proved of a part holds in exactly the
specification that TLC explores. The part that is followed, and where the others
are parked, only makes the behaviours fewer; the proofs use neither.

### Assumptions

The proofs use the named assumptions of the modules, which TLC evaluates in the
runs, and nothing else. `ConstantsAssumption` (the undo of a kind is a kind or
none, the null values are none of the values they stand for) and
`NoneIsNoBinding` (no token binding is the null value) of `Remediation`;
`QueueAssumption` and `TornAssumption` (the bounds are numbers, a torn file is no
queue); `StreamAssumption` and `EngineAssumption` (bounds, capacities and
thresholds are numbers, capacities and thresholds positive, no target has the
wildcard's name); `PipelineAssumption` of `MCPipeline` (bounds are numbers, an evidence budget is
positive, which `withDefaults` sees to, and the highest level a source reports is
below `Worst`, which stands for worse than any); `CacheAssumption` (room and lifetime are numbers) and
`ProjectsAssumption` (no project has the empty id, which a query takes for all)
and `PagesAssumption` (a page of the journal has room for an entry, times are
numbers) of `MCServices`. `RelayClient`, `PlaybookService` and `HostSteps` need none.

### Only model-checked

* Liveness under fairness, which the prover does not do: `ApprovedStarts`,
  `InFlightSettles`, `EventsReachRelay`, `EpisodesAreClosed`,
  `SustainedFailureFires`, `PreparationEnds`, `StoreOpens`.
* `NothingStuck` as the run states it, with `ENABLED`. The theorem
  `NobodyWaitsForGood` proves it of the conditions of the steps written out; that
  these are when the steps are enabled is read off the actions, each of which
  assigns every variable it changes once.
* `SilenceNeverHeals`, `JournalIsOffered` and the other properties of the runs
  that expect a violation.

## 6. Findings

| Run | What it shows |
|---|---|
| `stranded` | A crash (or a failing audit write) between Approve and Execute leaves an approved row; recovery does not list it and `approveAndAckExecute` refuses the retry, although its comment says a retried call re-issues Execute. |
| `queue_overlap` | Overlapping flushes of the engine and the heartbeat loop lose an event enqueued during the send, although FlushQueue's comment says it survives. |
| `mount_silence` | A mount without a definition of its own that can no longer be read is left out of the report, and its episode ends as resolved, although the memory evaluator's comment says "A failed collector is not a healthy reading". |
| `verify_blind` | A container's restart count reads zero when its inspection fails. When that happens at the second look, or at both, a container that had not restarted before and restarts between the looks is verified as not restarted. |
| `playbook_journal` | The inventory the playbook service uses leaves out every protected unit, journald among them, so the rule that offers to shrink the journal never finds it. |

Observations made while modelling, which no document contradicts clearly enough
to be a run, or which a property's excuse records:

* Approve consumes the token before the conditional transition: a decline in
  between leaves the token spent and Approve in error.
* DeriveRollback omits steps without an undo and lists them as manual steps.
* `os.WriteFile` truncates first: a failed or interrupted write of the queue or
  credential file loses what it held.
* Two names that differ in case, or of which one ends in `_2`, may get the same
  evidence id.
* The disk, inode and memory evaluators take the relay's thresholds as they are
  (`evaluators.go:98`, `156`). With a recovery value above the firing value a
  value between them opens and closes the episode in turn, which the hysteresis
  of `evalThreshold` (`evaluators.go:24-28`) is there to prevent and `thresholds`
  prevents for the other kinds. `EpisodeEndsOnEvidence` covers every order of the
  two for the clamped kinds and the right order for these three.
* A lookup of sshd's ports that fails is taken for one that found nothing
  (`backends.go:576`, `610-612`, `637-641`, `679-681`), so a port only it would
  have shown can be closed, although the guard of `RuleRemove`, the step's text
  ("The SSH port is never closed.", `step.go:939`) and the README ("The firewall
  helper never closes an SSH port", line 184) make no exception.
  `AccessIsKept` says exactly how much of the promise is left.
* The helper refuses a unit whose canonical name is protected; an agent that runs
  as root does not ask the helper, and restarts, stops or reloads `ssh` by an
  alias (`systemctl_client.go:197-212`).
* A unit of which systemctl prints no `NRestarts` counts zero
  (`systemctl_client.go:186`), like a container that cannot be inspected.
* `diff_summaries` names a project without a foreign key (`store.go:455-462`), so
  `GetDiffSummary` serves what a deleted project left, as do the audit rows and
  confirmation tokens with its id. No document promises otherwise.
* A container whose inspection fails at first sight is remembered with no
  restarts, which a later inspection may turn into a crash loop; a reset of the
  counter is handled for PM2 and not for Docker.
* One unreadable log file, or a bad pattern, makes the tick of the whole kind
  an error.
* A container that is "restarting" has no signature of its own below three
  restarts.
* The undo of `service.start` and of `firewall.allow` stops or closes what may
  have been running or open before.
* A disabled wildcard mutes targets that have a definition of their own, until
  the next tick.
* After a crash between the queue and the row the engine repeats a transition
  under a new EventID.

## 7. Plan

Modelled: every component whose state or protocol TLC can reach. Proved: every
safety property and every action property of the passing runs (`NothingStuck`
with its `ENABLED` spelled out), and the refinement. What is left to TLC is
liveness.

## 8. Not modelled

Wrappers around the host and its services (the Docker client, infrastructure
metrics, inventory, processes, systemd, web servers) parse output and format
commands; they have no state or protocol of their own, and enter the models as
sources that answer anything or fail. Notifications format one message. The
redaction of evidence and logs is pattern matching over text. Flags, wiring and
installation (`cmd/`) are not modelled beyond the order of startup. Pairing is
one exchange of a key and the audit queries and metric samples of the store only
append and read. The relay and the phone are external and modelled by how the
agent uses them. A request that arrives after its client gave up is a duplicate
like any other and is covered; the relay's own ordering rules for batches are
not known here.
