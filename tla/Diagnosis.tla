----------------------------- MODULE Diagnosis ------------------------------
(***************************************************************************)
(* One diagnosis (internal/diagnose): the collector gathers a bounded      *)
(* bundle of evidence, source by source, Match finds known signatures in   *)
(* it and Assess picks the headline.  Any source may be missing, fail, or  *)
(* time out, and the bundle may fill up at any point.                      *)
(*                                                                         *)
(* Redaction and wording are left out: a log is the newest lines it keeps, *)
(* each either naming an upstream failure or not.                          *)
(***************************************************************************)
EXTENDS Integers, Sequences, SequencesExt, FiniteSetsExt, Slices

CONSTANT MaxBudget   \* bound: the largest item budget configured

VARIABLES
    target,     \* the monitor kind of the incident
    budget,     \* MaxItems of this collection
    phase,      \* "own" -> "infra" -> "webserver" -> "match" -> "done"
    bundle,     \* the evidence gathered so far
    culprit,    \* history: the failed component the incident is about, once seen
    assessment  \* what Run returns

vars == <<target, budget, phase, bundle, culprit, assessment>>

Targets == {"docker", "systemd", "disk", "pm2", "process", "cert", "proxy", "other"}

NoItem == [kind |-> "none"]
NoAssessment == [sigs |-> {}, top |-> {}, confidence |-> 0, uncertain |-> TRUE]

\* Zero fields of a budget take the default, here the bound.
withDefaults(items) == IF items <= 0 THEN MaxBudget ELSE items

maxLogLines     == 1      \* 200
largestDirCount == 2      \* 5

-----------------------------------------------------------------------------
(* The bundle.                                                             *)

EmptyBundle == [items |-> <<>>, dropped |-> 0, warnings |-> 0, used |-> [base \in {} |-> 0]]

Warn(b) == [b EXCEPT !.warnings = @ + 1]

itemBudgetOK(b) == Len(b.items) < budget

\* Evidence ids: the base itself, and base_2, base_3, ... for the same base
\* again.  A base is a kind and a sanitized name, <<stem, n>> standing for a
\* name that ends in _n itself (n = 1: it does not).
id(b, base) ==
    LET n == 1 + (IF base \in DOMAIN b.used THEN b.used[base] ELSE 0)
    IN CASE n = 1 -> base
         [] n > 1 /\ base.name[2] = 1 -> [base EXCEPT !.name = <<@[1], n>>]
         [] OTHER -> [base EXCEPT !.name = Append(@, n)]

\* The next item, or one more dropped when the budget is spent.
Add(b, item) ==
    LET base == [kind |-> item.kind, name |-> item.name]
        n == 1 + (IF base \in DOMAIN b.used THEN b.used[base] ELSE 0)
    IN IF itemBudgetOK(b)
       THEN [b EXCEPT !.items = Append(@, [item EXCEPT !.id = id(b, base)]),
                      !.used = (base :> n) @@ @]
       ELSE [b EXCEPT !.dropped = @ + 1]

AddEach(b, items) ==
    LET added[n \in 0 .. Len(items)] == IF n = 0 THEN b ELSE Add(added[n - 1], items[n])
    IN added[Len(items)]

\* The collectors' loops stop at the first item that does not fit.
AddUntilFull(b, items) ==
    LET room == budget - Len(b.items)
    IN AddEach(b, SubSeq(items, 1, Min({Len(items), room + 1})))

Item(kind, name, state) ==
    [kind |-> kind, name |-> <<name, 1>>, state |-> state, id |-> NoItem]

-----------------------------------------------------------------------------
(* Logs.                                                                   *)

\* The newest bytes of a text, from the start of a line.
keepEnd(lines, max) == SubSeq(lines, Max({1, Len(lines) + 1 - max}), Len(lines))

\* An excerpt keeps the newest lines; the lines left out count as dropped.
buildLog(b, source, lines) ==
    LET kept == keepEnd(lines, maxLogLines)
        added == Add(b, Item("log", source, IF "upstream" \in ToSet(kept)
                                            THEN "upstream" ELSE "plain"))
    IN IF itemBudgetOK(b)
       THEN [added EXCEPT !.dropped = @ + Len(lines) - Len(kept)] ELSE added

Logs == {<<"plain">>, <<"upstream">>, <<"upstream", "plain">>, <<"plain", "upstream">>}

\* A log read fails with a warning, or adds an excerpt.
LogRead(b, source) == {Warn(b)} \cup {buildLog(b, source, l) : l \in Logs}

-----------------------------------------------------------------------------
(* What the incident is about: one collector per monitor kind.             *)

Collects(kinds) == phase = "own" /\ target \in kinds

\* The end of a collector: the collection goes on with the host unless its
\* time has run out.
Collected(b, own) ==
    /\ \/ bundle' = b /\ phase' = "infra"
       \/ bundle' = Warn(b) /\ phase' = "match"
    /\ culprit' = own
    /\ UNCHANGED <<target, budget, assessment>>

\* dockerStatus and buildDockerComponent.
Containers == {"running", "exited", "dead", "restarting"}
buildDockerComponent(name, state) ==
    [kind |-> "container", name |-> name, state |-> state, id |-> NoItem]

\* The container, the others of its compose project, its log, and from its
\* details the restarts as a signal and as a recent change.
collectDocker ==
    /\ Collects({"docker"})
    /\ \/ Collected(Warn(bundle), NoItem)    \* no source, no listing, not listed
       \/ \E state \in Containers, detailed \in BOOLEAN, restarts \in {0, 1, 3},
             siblings \in {<<>>, <<1>>, <<1, 2>>} :
             LET own == buildDockerComponent(<<"web", 1>>, state)
                 Sibling(n) == buildDockerComponent(<<"web", n>>, "running")
                 b1 == Add(IF detailed THEN bundle ELSE Warn(bundle), own)
                 b2 == AddUntilFull(b1, [i \in DOMAIN siblings |-> Sibling(siblings[i])])
             IN \E b3 \in LogRead(b2, "web") :
                   LET b4 == IF detailed /\ restarts >= 3
                             THEN Add(b3, Item("restart_loop", "web", "signal")) ELSE b3
                       b5 == IF detailed /\ restarts > 0
                             THEN Add(b4, Item("container_restart", "web", "change")) ELSE b4
                   IN Collected(b5, own)

UnitStates == {"active", "activating", "failed", "inactive"}
buildSystemdComponent(state) == Item("unit", "web.service", state)

\* A unit that cannot be read leaves the section empty.
collectSystemd ==
    /\ Collects({"systemd"})
    /\ \/ Collected(Warn(bundle), NoItem)
       \/ \E state \in UnitStates :
             LET own == buildSystemdComponent(state)
             IN \E b \in LogRead(Add(bundle, own), "web.service") : Collected(b, own)

\* The largest directories, those found before an error included.
collectDisk ==
    /\ Collects({"disk"})
    /\ \E found \in 0 .. largestDirCount, failed \in BOOLEAN :
          Collected(AddUntilFull(IF failed THEN Warn(bundle) ELSE bundle,
                                 [i \in 1 .. found |-> Item("large_directory", "dir", "signal")]),
                    NoItem)

\* Of a pm2_app incident the app alone, "restarting" when it is not stopped;
\* of a process incident every stopped app.
collectPM2 ==
    /\ Collects({"pm2", "process"})
    /\ \/ Collected(Warn(bundle), NoItem)    \* no stack source
       \/ \E web, other \in {"online", "stopped", "errored", "missing"} :
             LET Shown(state) == IF target = "pm2" /\ state = "online" THEN "restarting" ELSE state
                 apps == <<Item("pm2_app", "other", other), Item("pm2_app", "web", Shown(web))>>
                 listed == Keep(apps, {a \in ToSet(apps) :
                                         /\ a.state \notin {"online", "missing"}
                                         /\ target = "pm2" => a.name[1] = "web"})
             IN Collected(AddUntilFull(bundle, listed),
                          IF listed = <<>> THEN NoItem ELSE Head(listed))

\* Those of the certificates that are of the target's name, or of a domain above it.
Matching(certs) == Keep(certs, {c \in ToSet(certs) : c.name[1] = "web"})

\* The certificates that match the target, all when none does; of these the
\* ones that expire.
collectCerts ==
    /\ Collects({"cert"})
    /\ \/ Collected(Warn(bundle), NoItem)
       \/ \E web, other \in {"expired", "expiring", "valid", "missing"} :
             LET certs == <<Item("certificate", "other", other), Item("certificate", "web", web)>>
                 all == Keep(certs, {c \in ToSet(certs) : c.state # "missing"})
                 matched == IF Matching(all) # <<>> THEN Matching(all) ELSE all
                 listed == Keep(matched, {c \in ToSet(matched) : c.state # "valid"})
             IN Collected(AddUntilFull(bundle, listed),
                          IF listed = <<>> THEN NoItem ELSE Head(listed))

\* The monitor's own summary, the proxy's error log and the backends.
collectProxy ==
    /\ Collects({"proxy"})
    /\ \E summary \in {<<>>, <<"plain">>, <<"upstream">>},
          backends \in {<<>>, <<"upstream_unit">>, <<"upstream_address", "upstream_container">>} :
          LET b1 == IF summary = <<>> THEN bundle ELSE buildLog(bundle, "summary", summary)
              Backend(i) == Item(backends[i], "backend", "unknown")
          IN \E b2 \in LogRead(b1, "proxy") \cup {b1} :      \* an empty log adds nothing
                Collected(IF backends = <<>> THEN Warn(b2)
                          ELSE AddUntilFull(b2, [i \in DOMAIN backends |-> Backend(i)]),
                          NoItem)

\* A kind without a collector of its own.
collectNothing == Collects({"other"}) /\ Collected(bundle, NoItem)

-----------------------------------------------------------------------------
(* The host and its web servers, for every incident.                       *)

\* The metrics a sample has, each against the budget.
addInfraMetrics(b, sample) ==
    LET Metric(name, state) == IF state = "none" THEN <<>>
                               ELSE <<Item(name, "host", state)>>
    IN AddEach(b, Metric("cpu", sample.cpu) \o Metric("memory", sample.memory)
                  \o Metric("disk", sample.disk) \o Metric("inode", sample.inode))

Samples == [cpu : {"none", "ok"}, memory : {"none", "ok", "pressure"},
            disk : {"none", "ok", "full"}, inode : {"none", "full"}]

collectInfra ==
    /\ phase = "infra"
    /\ \E b1 \in {Warn(bundle)} \cup {addInfraMetrics(bundle, s) : s \in Samples} :
          bundle' \in {b1, Warn(b1), Add(b1, Item("oom_kill", "host", "signal"))}
    /\ phase' = "webserver"
    /\ UNCHANGED <<target, budget, culprit, assessment>>

collectWebserver ==
    /\ phase = "webserver"
    /\ \/ bundle' = Warn(bundle)
       \/ \E n \in 0 .. 2 :
             bundle' = AddUntilFull(bundle, [i \in 1 .. n |-> Item("webserver", "nginx", "active")])
    /\ phase' = "match"
    /\ UNCHANGED <<target, budget, culprit, assessment>>

-----------------------------------------------------------------------------
(* Match and Assess.  Confidences are percentages.                         *)

Sig(type, i, confidence) ==
    [type |-> type, evidence |-> {bundle.items[i].id}, confidence |-> confidence]

Is(i, kind, states) == bundle.items[i].kind = kind /\ bundle.items[i].state \in states

\* Signals.
signalSignature(i) ==
    CASE Is(i, "restart_loop", {"signal"}) -> {Sig("container_restart_loop", i, 80)}
      [] Is(i, "oom_kill", {"signal"}) -> {Sig("oom_kill", i, 100)}
      [] OTHER -> {}

\* The states in which a component counts as down.
isStoppedState  == {"exited", "dead", "created", "removing"}
isDownUnitState == {"failed", "inactive", "deactivating"}
isStoppedPM2    == {"stopped", "errored", "restarting"}

\* Mutant: a container that is only "exited" counts as stopped.
componentSignatureExited(i) ==
    IF Is(i, "container", {"exited"}) THEN {Sig("container_stopped", i, 85)} ELSE {}

\* Components.
componentSignature(i) ==
    CASE Is(i, "container", isStoppedState) -> {Sig("container_stopped", i, 85)}
      [] Is(i, "unit", {"failed"}) -> {Sig("unit_failed", i, 90)}
      [] Is(i, "unit", isDownUnitState \ {"failed"}) -> {Sig("unit_failed", i, 85)}
      [] Is(i, "pm2_app", isStoppedPM2) -> {Sig("pm2_app_stopped", i, 90)}
      [] Is(i, "certificate", {"expired"}) -> {Sig("cert_expiring", i, 95)}
      [] Is(i, "certificate", {"expiring"}) -> {Sig("cert_expiring", i, 90)}
      [] OTHER -> {}

\* Metrics past their limit; how far past, the confidence says, from 70 up.
metricSignature(i) ==
    CASE Is(i, "disk", {"full"}) -> {Sig("disk_exhausted", i, 75)}
      [] Is(i, "inode", {"full"}) -> {Sig("inode_exhausted", i, 75)}
      [] Is(i, "memory", {"pressure"}) -> {Sig("memory_pressure", i, 85)}
      [] OTHER -> {}

changeSignature(i) ==
    IF Is(i, "container_restart", {"change"}) THEN {Sig("recent_deployment", i, 50)} ELSE {}

\* All logs that name an upstream failure make one signature, about the first
\* backend that is a service of this host.
proxySignature ==
    LET logs == {i \in DOMAIN bundle.items : Is(i, "log", {"upstream"})}
    IN IF logs = {} THEN {}
       ELSE {[type |-> "proxy_upstream_error", confidence |-> 80,
              evidence |-> {bundle.items[i].id : i \in logs}]}

Match ==
    proxySignature \cup UNION {signalSignature(i) \cup componentSignature(i)
                               \cup metricSignature(i) \cup changeSignature(i)
                               : i \in DOMAIN bundle.items}

confidenceThreshold == 60

\* The most confident signature is the headline (among equals the one with the
\* smaller id, left open here); too little confidence is said to be uncertain.
Run ==
    /\ phase = "match"
    /\ phase' = "done"
    /\ LET best == Max({s.confidence : s \in Match} \cup {0})
       IN \E top \in IF Match = {} THEN {{}}
                     ELSE {{s} : s \in {s \in Match : s.confidence = best}} :
             assessment' = [sigs |-> Match, top |-> top, confidence |-> best,
                            uncertain |-> best < confidenceThreshold]
    /\ UNCHANGED <<target, budget, bundle, culprit>>

-----------------------------------------------------------------------------

Init ==
    /\ target \in Targets
    /\ budget \in {withDefaults(n) : n \in 0 .. MaxBudget}
    /\ phase = "own"
    /\ bundle = EmptyBundle
    /\ culprit = NoItem
    /\ assessment = NoAssessment

Collect ==
    \/ collectDocker \/ collectSystemd \/ collectDisk \/ collectPM2 \/ collectCerts
    \/ collectProxy \/ collectNothing \/ collectInfra \/ collectWebserver

Next == Collect \/ Run

Spec == Init /\ [][Next]_vars

-----------------------------------------------------------------------------
(* Properties.                                                             *)

Down == [container |-> isStoppedState, unit |-> isDownUnitState, pm2_app |-> isStoppedPM2,
         certificate |-> {"expired", "expiring"}]

\* However small the budget, whichever sources fail and wherever the time runs
\* out: a component the collector saw down is in the bundle, is named by a
\* signature that cites it, and the headline is at least as sure and not called
\* uncertain (Collect's order, itemBudgetOK, Match and Assess).
CulpritIsNamed ==
    (phase = "done" /\ culprit # NoItem /\ culprit.kind \in DOMAIN Down
       /\ culprit.state \in Down[culprit.kind])
      => /\ bundle.items # <<>> /\ Len(bundle.items) <= budget
         /\ \E s \in assessment.sigs :
               /\ s.evidence = {bundle.items[1].id}
               /\ bundle.items[1].name = culprit.name
               /\ assessment.confidence >= s.confidence
         /\ ~assessment.uncertain
=============================================================================
