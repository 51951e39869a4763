------------------------------ MODULE StoreTables ------------------------------
(* The tables of internal/store that are not the remediation ledger's: what    *)
(* belongs to a project (sessions and their events, previews, memory, the      *)
(* journal), the inbox and the alerts, the action jobs, and the tables that    *)
(* are a map from a key to its latest value. A table is a function from the    *)
(* keys of its rows. One connection (SetMaxOpenConns) makes every call one     *)
(* step. No call touches two groups of tables, so a behaviour is about one     *)
(* (projects are in two). Values are left out where no property is about them. *)
EXTENDS Integers, Sequences, FiniteSets, SequencesExt

CONSTANTS Projects, Ids,  \* ids of projects, and of sessions, previews, memories, jobs, keys
          MaxEvents,      \* bound: events of a session or a job
          MaxEntries,     \* bound: journal entries
          MaxRows,        \* bound: rows of projects, and of maps
          MaxTime,        \* bound: the clock
          DefaultPage,    \* the page of the journal when no limit is given (50)
          MaxPage         \* the largest (200)

None == "none"
Groups == {"schema", "projects", "journal", "inbox", "jobs", "keyed"}

VARIABLES group,      \* the tables this behaviour is about
          now,        \* the clock
          columns,    \* the columns migrate added, and where it is: 0 when Open returned
          opening,
          projects,
          sessions, events, previews, memory,
          journal, lastId,
          pager,      \* a client reading the journal page by page
          inbox, silences,
          jobs, jobEvents,
          keyed       \* key -> when the row was created and last written

content == <<projects, sessions, events, previews, memory>>
journals == <<journal, lastId, pager>>
alerts == <<inbox, silences>>
work == <<jobs, jobEvents>>
vars == <<group, now, columns, opening, content, journals, alerts, work, keyed>>

Empty == [x \in {} |-> None]
NoPager == [pc |-> "idle", project |-> None, kind |-> "", cursor |-> <<>>, seen |-> <<>>, start |-> {}]

(* The columns that were added after the first version, in migrate's order.    *)
addedColumns == <<"sessions.cache_tokens", "sessions.tool_calls", "sessions.transport",
    "sessions.agent_session_id", "push_devices.apns_token", "push_devices.client_server_id",
    "remediation_executions.kind", "remediation_executions.parent_execution_id">>

(* The database of a new host, or of an older version of the agent: sessions   *)
(* is created with its columns where there was no table yet.                   *)
Init ==
    /\ group \in Groups /\ now = 1
    /\ \E n \in 0..Len(addedColumns) : columns = {addedColumns[i] : i \in 1..n}
    /\ group # "schema" => columns = {}
    /\ opening = IF group = "schema" THEN 1 ELSE 0
    /\ projects = IF group = "journal" THEN Projects ELSE {}
    /\ sessions = Empty /\ events = Empty /\ previews = Empty /\ memory = Empty
    /\ journal = {} /\ lastId = 0 /\ pager = NoPager
    /\ inbox = Empty /\ silences = Empty /\ jobs = Empty /\ jobEvents = Empty /\ keyed = Empty

Put(table, k, row) == [x \in DOMAIN table \cup {k} |-> IF x = k THEN row ELSE table[x]]
Without(table, ks) == [x \in DOMAIN table \ ks |-> table[x]]

--------------------------------------------------------------------------------
(* Open: migrate adds the columns one by one. Dying halfway leaves some.       *)
(* Mutant: a column that is there already is an error.                         *)
addOnlyOnce ==
    /\ opening \in 1..Len(addedColumns)
    /\ addedColumns[opening] \notin columns
    /\ columns' = columns \cup {addedColumns[opening]}
    /\ opening' = IF opening = Len(addedColumns) THEN 0 ELSE opening + 1

addColumns ==
    /\ opening \in 1..Len(addedColumns)
    /\ columns' = columns \cup {addedColumns[opening]}
    /\ opening' = IF opening = Len(addedColumns) THEN 0 ELSE opening + 1

Reopen ==
    /\ now < MaxTime /\ now' = now + 1
    /\ opening' = 1
    /\ UNCHANGED columns

Schema ==
    /\ group = "schema"
    /\ (addColumns /\ UNCHANGED now) \/ Reopen
    /\ UNCHANGED <<group, content, journals, alerts, work, keyed>>

--------------------------------------------------------------------------------
(* The maps: a second write of a key replaces the row. The time a device was   *)
(* registered, a credential or a diff summary was created stays; the others    *)
(* have no such time, or replace it with the value (alert_acks).               *)
KeepsCreated == {"push_devices", "provider_credentials", "diff_summaries"}
Upsert(table, k) ==
    /\ <<table, k>> \in DOMAIN keyed \/ Cardinality(DOMAIN keyed) < MaxRows
    /\ keyed' = Put(keyed, <<table, k>>,
                    [created |-> IF table \in KeepsCreated /\ <<table, k>> \in DOMAIN keyed
                                 THEN keyed[<<table, k>>].created ELSE now,
                     updated |-> now])
    /\ UNCHANGED <<now, alerts, work>>

(* A diff summary has a project, and no foreign key: it needs none that is     *)
(* there, and stays when the project goes.                                     *)
PutDiffSummary(p, k) == Upsert("diff_summaries", <<p, k>>)

--------------------------------------------------------------------------------
(* Projects and what belongs to them. A foreign key refuses a row of a project *)
(* that is not there; a used id is refused by the primary key.                 *)
CreateProject(p) == projects' = projects \cup {p} /\ p \notin projects
                    /\ UNCHANGED <<sessions, events, previews, memory, journals>>

Of(table, p) == {i \in DOMAIN table : table[i].project = p}

(* Mutant: the foreign keys are not enforced.                                  *)
DeleteProjectOnly(p) ==
    /\ projects' = projects \ {p}
    /\ UNCHANGED <<sessions, events, previews, memory, journals>>

(* ON DELETE CASCADE drops the rows of the project, and theirs.                *)
DeleteProject(p) ==
    /\ projects' = projects \ {p}
    /\ sessions' = Without(sessions, Of(sessions, p))
    /\ events' = Without(events, Of(sessions, p))
    /\ previews' = Without(previews, Of(previews, p))
    /\ memory' = Without(memory, Of(memory, p))
    /\ journal' = {e \in journal : e.project # p}
    /\ UNCHANGED <<lastId, pager>>

CreateSession(s, p) ==
    /\ s \notin DOMAIN sessions /\ p \in projects
    /\ sessions' = Put(sessions, s, [project |-> p, ended |-> FALSE, calls |-> 0, handle |-> FALSE])
    /\ events' = Put(events, s, {})
    /\ UNCHANGED <<projects, previews, memory, journals>>

UpdateSession(s, field, value) ==
    /\ s \in DOMAIN sessions
    /\ sessions' = [sessions EXCEPT ![s][field] = value]
    /\ UNCHANGED <<projects, events, previews, memory, journals>>

EndSession(s) == UpdateSession(s, "ended", TRUE)
ReopenSession(s) == UpdateSession(s, "ended", FALSE)
SetSessionAgentSessionID(s) == UpdateSession(s, "handle", TRUE)
(* Tool calls accumulate, as the tokens of a turn do (AddSessionUsage).        *)
IncrSessionToolCalls(s) ==
    s \in DOMAIN sessions /\ sessions[s].calls < MaxEvents
    /\ UpdateSession(s, "calls", sessions[s].calls + 1)
(* The latest total wins.                                                      *)
UpdateSessionUsage(s, total) == UpdateSession(s, "calls", total)

DeleteSession(s) ==
    /\ sessions' = Without(sessions, {s}) /\ events' = Without(events, {s})
    /\ UNCHANGED <<projects, previews, memory, journals>>

(* MAX(seq) + 1 in a transaction, 1 for the first.                             *)
NextSeq(seqs) == IF seqs = {} THEN 1 ELSE 1 + CHOOSE n \in seqs : \A k \in seqs : k <= n

AppendSessionEvent(s) ==
    /\ s \in DOMAIN sessions /\ Cardinality(events[s]) < MaxEvents
    /\ events' = [events EXCEPT ![s] = @ \cup {NextSeq(@)}]
    /\ UNCHANGED <<projects, sessions, previews, memory, journals>>

SessionEventsAfter(s, after) == {n \in (IF s \in DOMAIN events THEN events[s] ELSE {}) : n > after}

CreatePreview(v, p) ==
    /\ v \notin DOMAIN previews /\ p \in projects
    /\ previews' = Put(previews, v, [project |-> p, ended |-> FALSE])
    /\ UNCHANGED <<projects, sessions, events, memory, journals>>
UpdatePreview(v, ended) ==
    /\ v \in DOMAIN previews
    /\ previews' = [previews EXCEPT ![v].ended = ended]
    /\ UNCHANGED <<projects, sessions, events, memory, journals>>
DeletePreview(v) ==
    previews' = Without(previews, {v}) /\ UNCHANGED <<projects, sessions, events, memory, journals>>

CreateMemory(m, p) ==
    /\ m \notin DOMAIN memory /\ p \in projects
    /\ memory' = Put(memory, m, [project |-> p, updated |-> 0])
    /\ UNCHANGED <<projects, sessions, events, previews, journals>>
(* ErrNotFound when there is no such row.                                      *)
UpdateMemory(m) ==
    /\ m \in DOMAIN memory
    /\ memory' = [memory EXCEPT ![m].updated = 1]
    /\ UNCHANGED <<projects, sessions, events, previews, journals>>
DeleteMemory(m) ==
    memory' = Without(memory, {m}) /\ UNCHANGED <<projects, sessions, events, previews, journals>>

(* The rows that have a project, MaxRows of them.                              *)
RoomForRows ==
    Cardinality(DOMAIN sessions) + Cardinality(DOMAIN previews) + Cardinality(DOMAIN memory)
        + Cardinality(DOMAIN keyed) < MaxRows

OwnedRows ==
    /\ \/ \E p \in Projects : CreateProject(p) \/ DeleteProject(p)
       \/ /\ RoomForRows
          /\ \E i \in Ids, p \in Projects : CreateSession(i, p) \/ CreatePreview(i, p) \/ CreateMemory(i, p)
       \/ \E i \in Ids : \/ EndSession(i) \/ ReopenSession(i) \/ SetSessionAgentSessionID(i)
                         \/ IncrSessionToolCalls(i) \/ UpdateSessionUsage(i, 1)
                         \/ DeleteSession(i) \/ AppendSessionEvent(i)
                         \/ UpdatePreview(i, TRUE) \/ UpdatePreview(i, FALSE) \/ DeletePreview(i)
                         \/ UpdateMemory(i) \/ DeleteMemory(i)
    /\ UNCHANGED <<now, alerts, work, keyed>>

(* No row goes with a diff summary, of whatever project.                       *)
DiffSummaries ==
    /\ RoomForRows
    /\ \E k \in Ids, p \in Projects : PutDiffSummary(p, k)
    /\ UNCHANGED <<content, journals>>

Content ==
    /\ group = "projects"
    /\ OwnedRows \/ DiffSummaries
    /\ UNCHANGED <<group, columns, opening>>

(* The queries: of one project, or "" for all.                                 *)
Select(table, p) == {i \in DOMAIN table : p = "" \/ table[i].project = p}
ListProjects == projects
ListSessions(p) == Select(sessions, p)
ActiveSessions == {s \in DOMAIN sessions : ~sessions[s].ended}
ListPreviews(p) == Select(previews, p)
ActivePreviews == {v \in DOMAIN previews : ~previews[v].ended}
ActivePreviewForProject(p) == ListPreviews(p) \cap ActivePreviews
ListMemory(p) == Select(memory, p)

--------------------------------------------------------------------------------
(* The journal. An entry may be added with an earlier time than the last one.  *)
AppendJournalEntry(p, kind, at) ==
    /\ lastId < MaxEntries /\ p \in projects
    /\ lastId' = lastId + 1
    /\ journal' = journal \cup {[id |-> lastId + 1, project |-> p, kind |-> kind, at |-> at]}
    /\ UNCHANGED <<pager, content>>

Newer(e, f) == e.at > f.at \/ (e.at = f.at /\ e.id > f.id)

(* Mutant: the cursor is the row's id.                                         *)
beforeId(e, cursor) == cursor = <<>> \/ e.id < cursor[2]

(* The keyset predicate; no cursor stands for one above every entry.           *)
before(e, cursor) == cursor = <<>> \/ e.at < cursor[1] \/ (e.at = cursor[1] /\ e.id < cursor[2])

encodeJournalCursor(e) == <<e.at, e.id>>

(* The rows of the query, in no order yet.                                     *)
Selected(p, kind, cursor) ==
    {e \in journal : e.project = p /\ kind \in {"", e.kind} /\ before(e, cursor)}

(* ORDER BY created_at DESC, id DESC.                                          *)
NewestFirst(rows) ==
    CHOOSE s \in [1..Cardinality(rows) -> rows] :
        ToSet(s) = rows /\ \A i, j \in DOMAIN s : i < j => Newer(s[i], s[j])

(* One more row than the page holds is read to see whether there is a next.    *)
ListJournal(p, kind, cursor, limit) ==
    LET size == IF limit <= 0 THEN DefaultPage ELSE IF limit > MaxPage THEN MaxPage ELSE limit
        rows == NewestFirst(Selected(p, kind, cursor))
        more == Len(rows) > size
        out == IF more THEN SubSeq(rows, 1, size) ELSE rows
    IN  [entries |-> out, next |-> IF more THEN encodeJournalCursor(out[size]) ELSE <<>>]

(* A client asks for the first page, then with the cursor of each for the next.*)
ReadPage(p, kind, limit) ==
    /\ pager.pc = "idle" \/ (pager.pc = "reading" /\ pager.project = p /\ pager.kind = kind)
    /\ LET page == ListJournal(p, kind, pager.cursor, limit)
       IN  pager' = [pc |-> IF page.next = <<>> THEN "done" ELSE "reading",
                     project |-> p, kind |-> kind, cursor |-> page.next,
                     seen |-> pager.seen \o page.entries,
                     start |-> IF pager.pc = "idle"
                               THEN {e \in journal : e.project = p /\ kind \in {"", e.kind}}
                               ELSE pager.start]
    /\ UNCHANGED <<journal, lastId, content>>

Journal ==
    /\ group = "journal"
    /\ \/ \E p \in Projects, kind \in {"pr", "note"}, at \in 1..MaxTime : AppendJournalEntry(p, kind, at)
       \/ \E p \in Projects, kind \in {"", "pr"}, limit \in {0, MaxPage + 1} : ReadPage(p, kind, limit)
       \/ \E p \in Projects : CreateProject(p) \/ DeleteProject(p)
    /\ UNCHANGED <<group, now, columns, opening, alerts, work, keyed>>

--------------------------------------------------------------------------------
(* The inbox and the silences, at a clock that goes on.                        *)
Tick == now < MaxTime /\ now' = now + 1 /\ UNCHANGED <<alerts, work, keyed>>

Item(i) == IF i \in DOMAIN inbox THEN inbox[i] ELSE [read |-> 0, resolved |-> 0, action |-> None, updated |-> 0]
(* Mutant: reading an item again replaces the time.                            *)
LastRead(i) == now
FirstRead(i) == IF Item(i).read # 0 THEN Item(i).read ELSE now

MarkInboxRead(ids) ==
    /\ ids # {}
    /\ inbox' = [i \in DOMAIN inbox \cup ids |->
                   IF i \in ids THEN [Item(i) EXCEPT !.read = FirstRead(i), !.updated = now] ELSE inbox[i]]
    /\ UNCHANGED <<now, silences, work, keyed>>

ResolveInbox(i, action) ==
    /\ inbox' = Put(inbox, i, [read |-> FirstRead(i), resolved |-> now, action |-> action, updated |-> now])
    /\ UNCHANGED <<now, silences, work, keyed>>

GCInboxState(cutoff) ==
    /\ inbox' = Without(inbox, {i \in DOMAIN inbox : inbox[i].resolved # 0 /\ inbox[i].updated < cutoff})
    /\ UNCHANGED <<now, silences, work, keyed>>

InboxStates(ids) == [i \in ids \cap DOMAIN inbox |-> inbox[i]]

PutAlertSilence(k, until) ==
    /\ silences' = Put(silences, k, [until |-> until,
                           created |-> IF k \in DOMAIN silences THEN silences[k].created ELSE now])
    /\ UNCHANGED <<now, inbox, work, keyed>>
DeleteAlertSilence(k) == silences' = Without(silences, {k}) /\ UNCHANGED <<now, inbox, work, keyed>>
(* What is over is deleted on the way.                                         *)
AlertSilencesActive ==
    /\ silences' = Without(silences, {k \in DOMAIN silences : silences[k].until <= now})
    /\ UNCHANGED <<now, inbox, work, keyed>>

Inbox ==
    /\ group = "inbox"
    /\ \/ Tick \/ AlertSilencesActive
       \/ \E ids \in SUBSET Ids : MarkInboxRead(ids)
       \/ \E i \in Ids : \/ ResolveInbox(i, "ack") \/ ResolveInbox(i, "silence") \/ DeleteAlertSilence(i)
                         \/ \E t \in 1..MaxTime : PutAlertSilence(i, t)
       \/ \E t \in 1..MaxTime : GCInboxState(t)
    /\ UNCHANGED <<group, columns, opening, content, journals>>

--------------------------------------------------------------------------------
(* Action jobs and their events.                                               *)
CreateActionJob(j) ==
    /\ j \notin DOMAIN jobs
    /\ jobs' = Put(jobs, j, "queued") /\ jobEvents' = Put(jobEvents, j, {})
    /\ UNCHANGED <<now, alerts, keyed>>
UpdateActionJob(j, status) ==
    /\ j \in DOMAIN jobs
    /\ jobs' = [jobs EXCEPT ![j] = status]
    /\ UNCHANGED <<now, alerts, jobEvents, keyed>>
AppendActionJobEvent(j) ==
    /\ j \in DOMAIN jobs /\ Cardinality(jobEvents[j]) < MaxEvents
    /\ jobEvents' = [jobEvents EXCEPT ![j] = @ \cup {NextSeq(@)}]
    /\ UNCHANGED <<now, alerts, jobs, keyed>>
ActionJobEvents(j) == IF j \in DOMAIN jobEvents THEN jobEvents[j] ELSE {}

Jobs ==
    /\ group = "jobs"
    /\ \E j \in Ids : CreateActionJob(j) \/ UpdateActionJob(j, "done") \/ AppendActionJobEvent(j)
    /\ UNCHANGED <<group, columns, opening, content, journals>>

--------------------------------------------------------------------------------
(* The maps but the diff summaries of one project.                             *)
DeleteKey(table, k) == keyed' = Without(keyed, {<<table, k>>}) /\ UNCHANGED <<now, alerts, work>>

PutPushDevice(k) == Upsert("push_devices", k)
DeletePushDevice(k) == DeleteKey("push_devices", k)
PutProviderCredential(k) == Upsert("provider_credentials", k)
DeleteProviderCredential(k) == DeleteKey("provider_credentials", k)
PutAlertAck(k) == Upsert("alert_acks", k)
PutNotificationPref(k) == Upsert("notification_prefs", k)
DeleteNotificationPref(k) == DeleteKey("notification_prefs", k)
PutAgentSetting(k) == Upsert("agent_settings", k)
PutInfraAlertRule(k) == Upsert("infra_alert_rules", k)
PutInfraCost(k) == Upsert("infra_cost", k)

Keyed ==
    /\ group = "keyed"
    /\ \/ Tick
       \/ \E k \in Ids : \/ PutPushDevice(k) \/ DeletePushDevice(k)
                         \/ PutProviderCredential(k) \/ DeleteProviderCredential(k)
                         \/ \E p \in Projects : PutDiffSummary(p, k)
                         \/ PutAlertAck(k) \/ PutNotificationPref(k)
                         \/ DeleteNotificationPref(k) \/ PutAgentSetting(k) \/ PutInfraAlertRule(k)
                         \/ PutInfraCost(k)
    /\ UNCHANGED <<group, columns, opening, content, journals>>

Next == Schema \/ Content \/ Journal \/ Inbox \/ Jobs \/ Keyed
(* A process that opens its store goes on with it.                             *)
Migrate == addColumns /\ UNCHANGED <<group, now, content, journals, alerts, work, keyed>>

Spec == Init /\ [][Next]_vars /\ WF_vars(Migrate)

--------------------------------------------------------------------------------
(* Whatever version of the agent wrote the database, and however often the     *)
(* agent died while it migrated it, the store opens in the end, with all its   *)
(* columns ("making migration safe to run on every boot", store.go).           *)
StoreOpens == <>[](group = "schema" => opening = 0 /\ columns = ToSet(addedColumns))

(* The tables with a foreign key (ON DELETE CASCADE): a project that was       *)
(* deleted leaves no session, session event, preview, memory or journal entry  *)
(* behind, sessions take their events with them, and a restart finds only      *)
(* previews and sessions of projects that are there. It says nothing of the    *)
(* tables that name a project without one: its diff summaries stay, and so do  *)
(* its audit rows and its confirmation tokens.                                 *)
NoOrphans ==
    /\ \A p \in Projects \ ListProjects :
          /\ ListSessions(p) \cup ListPreviews(p) \cup ListMemory(p) = {}
          /\ Selected(p, "", <<>>) = {}
    /\ DOMAIN events = ListSessions("")
    /\ \A s \in Ids : SessionEventsAfter(s, 0) # {} => s \in ListSessions("")
    /\ ActiveSessions \cup ActivePreviews # {} => ListProjects # {}

(* However many entries are added while a client reads the journal page by     *)
(* page, backdated ones too, it sees what was there when it began once, sees   *)
(* nothing twice, and newest first.                                            *)
PagesAreComplete ==
    /\ \A i, j \in DOMAIN pager.seen : i < j => Newer(pager.seen[i], pager.seen[j])
    /\ pager.pc = "done" => pager.start \cap journal \subseteq ToSet(pager.seen)

(* What happened stays on record: an item that was read keeps the time it was  *)
(* first read until it is resolved and collected, a device, a credential or a  *)
(* silence the time it was first stored, and no event of a job or a session    *)
(* goes while the job or session is there.                                     *)
HistoryIsKept ==
    [][/\ \A i \in DOMAIN InboxStates(Ids) : inbox[i].read # 0 /\ inbox[i].resolved = 0 =>
             i \in DOMAIN inbox' /\ inbox'[i].read = inbox[i].read
       /\ \A k \in DOMAIN keyed \cap DOMAIN keyed' : k[1] \in KeepsCreated =>
             keyed'[k].created = keyed[k].created
       /\ \A k \in DOMAIN silences \cap DOMAIN silences' : silences'[k].created = silences[k].created
       /\ \A j \in Ids : ActionJobEvents(j) \subseteq ActionJobEvents(j)'
       /\ \A s \in DOMAIN events \cap DOMAIN events' : events[s] \subseteq events'[s]]_vars
================================================================================
