----------------------------- MODULE PlaybookRules -----------------------------
(* The fixed rules that turn the signatures of an incident into a playbook     *)
(* (rules.go), the check every playbook passes before it is proposed           *)
(* (validate.go) and what becomes of a draft of the relay (generate.go), over  *)
(* the names on a small host.                                                  *)
(* Names, mounts and addresses are abstract; titles and manual texts are left  *)
(* out, but for how many manual steps there are and whether one has a command. *)
EXTENDS Integers, FiniteSets, FiniteSetsExt, SequencesExt, Slices

CONSTANT MaxSteps  \* playbook.MaxSteps

None == "none"

(* The names: units (ssh and systemd-journald are protected), a container that *)
(* is the service of a Compose project, a PM2 app, a certificate, addresses.   *)
Units == {"php-fpm", "mysql", "mariadb", "ssh", "systemd-journald"}
Mounts == {"/", "/data"}
DiskSteps == {"disk.journal_vacuum", "disk.docker_prune", "disk.apt_clean"}

(* What discovery reports, of a host that runs ssh and journald, and what else *)
(* the rules look at.                                                          *)
Reports == [units : {{"ssh", "systemd-journald"} \cup u : u \in
                        {{}, {"php-fpm"}, {"mysql"}, {"php-fpm", "mysql", "mariadb"}}},
            container : {"absent", "plain", "compose"},
            apt : BOOLEAN,     \* the distribution is Ubuntu or Debian
            others : BOOLEAN]  \* the PM2 app, the certificate and the addresses
DiskMounts == {[s \in DiskSteps |-> "/"],
               [s \in DiskSteps |-> IF s = "disk.docker_prune" THEN "/data" ELSE "/"],
               [s \in DiskSteps |-> IF s = "disk.apt_clean" THEN None ELSE "/"]}
Service(name, kind, target) == [name |-> name, kind |-> kind, target |-> target]
Services == {Service("mysql", "systemd", ""), Service("web", "external_http", "https://shop/x"),
             Service("/", "disk_capacity", "/"), Service("", "memory_pressure", "https://shop")}
Sig(t, s) == [type |-> t, subject |-> s]
Signatures ==
    {Sig("unit_failed", u) : u \in {"mysql", "php-fpm", "ssh"}}
    \cup {Sig("oom_kill", p) : p \in {"mysqld", "php-fpm", ""}}
    \cup {Sig("disk_exhausted", m) : m \in Mounts} \cup {Sig("inode_exhausted", "")}
    \cup {Sig("proxy_upstream_error", s) : s \in {"unit:mysql", "unit:ssh", "container:web", ""}}
    \cup {Sig("container_stopped", "web"), Sig("container_restart_loop", "ghost"),
          Sig("cert_expiring", "shop"), Sig("pm2_app_stopped", "app"), Sig("recent_deployment", "")}

(* Most confident first; the second is one that another may hide.              *)
Others == {Sig("unit_failed", "mysql"), Sig("oom_kill", "mysqld"), Sig("disk_exhausted", "/"),
           Sig("disk_exhausted", "/data"), Sig("recent_deployment", "")}
SignatureSeqs == {<<>>} \cup {<<s>> : s \in Signatures}
                 \cup {<<s, t>> : s \in Signatures, t \in Others}

--------------------------------------------------------------------------------
(* The inventory a step may name (playbookInventory).                          *)
CheckUnitAllowed(u) == u \notin {"ssh", "systemd-journald"}

playbookInventory(report) ==
    [units      |-> {u \in report.units : CheckUnitAllowed(u)},
     containers |-> IF report.container = "absent" THEN {} ELSE {"web"},
     compose    |-> IF report.container = "compose" THEN {"shop/web"} ELSE {},
     pm2        |-> IF report.others THEN {"app"} ELSE {},
     certs      |-> IF report.others THEN {"shop"} ELSE {},
     urls       |-> IF report.others THEN {"https://shop", "https://shop:8443"} ELSE {}]

--------------------------------------------------------------------------------
(* rules.go. A rule returns a playbook, or NoPlaybook.                         *)
Step(id, target) == [id |-> id, target |-> target]
Playbook(steps, manual) == [source |-> "catalog", steps |-> steps, manual |-> manual,
                            command |-> FALSE]
NoPlaybook == [source |-> None, steps |-> <<>>, manual |-> 0, command |-> FALSE]

restartStep(u) == Step(IF u = "php-fpm" THEN "phpfpm.restart" ELSE "service.restart", u)

(* The container as a Compose service when the evidence and the inventory say  *)
(* so. A manual step for a restart loop and for a recent deployment.           *)
containerPlaybook(sig, f) ==
    IF sig.subject \notin f.inv.containers THEN NoPlaybook
    ELSE [Playbook(<<IF f.inv.compose # {} THEN Step("compose.up", "shop/web")
                     ELSE Step("container.restart", "web")>>,
                   (IF sig.type = "container_restart_loop" THEN 1 ELSE 0)
                   + (IF \E i \in DOMAIN f.sigs : f.sigs[i].type = "recent_deployment"
                      THEN 1 ELSE 0))
          EXCEPT !.command = (sig.type = "container_restart_loop")]

unitPlaybook(sig, f) ==
    IF sig.subject \in f.inv.units /\ CheckUnitAllowed(sig.subject)
    THEN Playbook(<<restartStep(sig.subject)>>, 0) ELSE NoPlaybook

(* The unit a killed process belongs to, when exactly one may be meant.        *)
unitForProcess(proc, inv) ==
    LET found == {u \in inv.units : \/ proc = "mysqld" /\ u \in {"mysql", "mariadb"}
                                    \/ proc = "php-fpm" /\ u = "php-fpm"}
    IN  IF Cardinality(found) = 1 THEN found ELSE {}

oomPlaybook(sig, f) ==
    LET units == {u \in unitForProcess(sig.subject, f.inv) : CheckUnitAllowed(u)}
        steps == IF units = {} THEN <<>> ELSE <<restartStep(CHOOSE u \in units : TRUE)>>
    IN  [Playbook(steps, 1) EXCEPT !.command = TRUE]

(* Each clean-up is offered only on the disk that ran out.                     *)
Mount(sig) == IF sig.subject = "" THEN "/" ELSE sig.subject

diskPlaybook(sig, f) ==
    LET applies == {d \in DiskSteps :
                      CASE d = "disk.journal_vacuum" -> "systemd-journald" \in f.inv.units
                        [] d = "disk.docker_prune" -> f.inv.containers # {}
                        [] d = "disk.apt_clean" -> f.report.apt}
        offer(d) == IF d \in applies /\ f.mounts[d] = Mount(sig) THEN <<Step(d, None)>> ELSE <<>>
        offered == offer("disk.journal_vacuum") \o offer("disk.docker_prune")
                   \o offer("disk.apt_clean")
        elsewhere == IF offered = <<>> /\ applies # {} THEN 1 ELSE 0
    IN  [Playbook(offered, 1 + elsewhere) EXCEPT !.command = TRUE]

certPlaybook(sig, f) ==
    IF sig.subject \in f.inv.certs THEN Playbook(<<Step("cert.renew", sig.subject)>>, 0)
    ELSE NoPlaybook

(* The incident's own address if known, else one of the same host.             *)
checkURL(f) == IF f.service.target \in f.inv.urls THEN {f.service.target}
               ELSE IF f.service.target = "https://shop/x" THEN f.inv.urls ELSE {}

proxyPlaybook(sig, f) ==
    LET fix == CASE sig.subject = "unit:mysql" /\ "mysql" \in f.inv.units -> <<restartStep("mysql")>>
                 [] sig.subject = "unit:ssh" /\ "ssh" \in f.inv.units /\ CheckUnitAllowed("ssh")
                        -> <<restartStep("ssh")>>
                 [] sig.subject = "container:web" /\ f.inv.containers # {}
                        -> <<Step("container.restart", "web")>>
                 [] OTHER -> <<>>
        check == IF checkURL(f) = {} THEN <<>>
                 ELSE <<Step("check.http", CHOOSE u \in checkURL(f) : TRUE)>>
    IN  IF fix = <<>> THEN NoPlaybook ELSE Playbook(fix \o check, 0)

pm2Playbook(sig, f) ==
    IF f.inv.pm2 # {} THEN Playbook(<<Step("pm2.restart", sig.subject)>>, 0) ELSE NoPlaybook

FromSignature(sig, f) ==
    CASE sig.type \in {"container_restart_loop", "container_stopped"} -> containerPlaybook(sig, f)
      [] sig.type = "unit_failed" -> unitPlaybook(sig, f)
      [] sig.type = "oom_kill" -> oomPlaybook(sig, f)
      [] sig.type \in {"disk_exhausted", "inode_exhausted"} -> diskPlaybook(sig, f)
      [] sig.type = "cert_expiring" -> certPlaybook(sig, f)
      [] sig.type = "proxy_upstream_error" -> proxyPlaybook(sig, f)
      [] sig.type = "pm2_app_stopped" -> pm2Playbook(sig, f)
      [] OTHER -> NoPlaybook

(* About the incident's own subject: named by it, the very resource its        *)
(* monitor watches, or not host-wide at all.                                   *)
relevantToIncident(sig, svc) ==
    \/ svc.name # "" /\ sig.subject = svc.name
    \/ CASE sig.type = "oom_kill" -> svc.kind = "memory_pressure"
         [] sig.type = "disk_exhausted" -> svc.kind \in {"disk_capacity", "disk_fill_rate"}
         [] sig.type = "inode_exhausted" -> svc.kind = "inode_capacity"
         [] OTHER -> TRUE

(* The first of some of the signatures that has a rule.                        *)
First(candidates, f) ==
    LET fitting == {i \in candidates : FromSignature(f.sigs[i], f) # NoPlaybook}
    IN  IF fitting = {} THEN NoPlaybook ELSE FromSignature(f.sigs[Min(fitting)], f)

(* Host-wide signatures only count when none is relevant.                      *)
FromBundle(f) ==
    LET relevant == {i \in DOMAIN f.sigs : relevantToIncident(f.sigs[i], f.service)}
    IN  First(IF relevant # {} THEN relevant ELSE DOMAIN f.sigs, f)

--------------------------------------------------------------------------------
(* validate.go                                                                 *)
ServiceSteps == {"service.restart", "service.start", "service.stop", "service.reload", "phpfpm.restart"}
Catalog == ServiceSteps \cup DiskSteps \cup
    {"container.restart", "compose.up", "pm2.restart", "cert.renew", "process.stop", "check.http"}

(* The parameters are the catalog's, with values of the right shape.           *)
checkParam(s) == s.target # "malformed" /\ (s.id = "phpfpm.restart" => s.target = "php-fpm")

(* Mutant: names are not looked up in the inventory.                           *)
checkNoSource(s, inv) == TRUE

(* Every name must be in the inventory.                                        *)
checkSource(s, inv) ==
    CASE s.id \in ServiceSteps -> s.target \in inv.units
      [] s.id = "container.restart" -> s.target \in inv.containers
      [] s.id = "compose.up" -> s.target \in inv.compose
      [] s.id = "pm2.restart" -> s.target \in inv.pm2
      [] s.id = "cert.renew" -> s.target \in inv.certs
      [] s.id = "check.http" -> s.target \in inv.urls
      [] OTHER -> TRUE

checkStep(s, inv) == s.id \in Catalog /\ checkParam(s) /\ checkSource(s, inv)

(* Without a validator of the live host, which may refuse more.                *)
Check(pb, inv) ==
    /\ Len(pb.steps) <= MaxSteps
    /\ pb.steps # <<>> \/ pb.manual > 0
    /\ \A i \in DOMAIN pb.steps : checkStep(pb.steps[i], inv)

--------------------------------------------------------------------------------
(* generate.go: a draft of the relay, which may say anything.                  *)
DraftSteps ==
    {Step("service.restart", u) : u \in {"mysql", "ssh", "ghost", "malformed"}}
    \cup {Step("phpfpm.restart", u) : u \in {"php-fpm", "ssh"}}
    \cup {Step("container.restart", "web"), Step("compose.up", "shop/web"), Step("compose.up", "ghost"),
          Step("check.http", "https://elsewhere"), Step("process.stop", None), Step("shell.run", None)}
    \cup {Step(d, None) : d \in DiskSteps}

(* The mounts that ran out.                                                    *)
Full(f) == {Mount(f.sigs[i]) : i \in
              {j \in DOMAIN f.sigs : f.sigs[j].type \in {"disk_exhausted", "inode_exhausted"}}}

(* Mutant: the draft's clean-ups all stay.                                     *)
dropNothing(pb, f) == pb

(* Clean-ups of another disk than the full one are dropped, and a manual step  *)
(* says so.                                                                    *)
dropWrongDisk(pb, f) ==
    LET helping == {s \in ToSet(pb.steps) : s.id \in DiskSteps => f.mounts[s.id] \in Full(f)}
        kept == Keep(pb.steps, helping)
    IN  IF Full(f) = {} THEN pb
        ELSE [pb EXCEPT !.steps = kept,
                        !.manual = IF kept = pb.steps THEN @ ELSE @ + 1]

(* The relay's draft as it is checked and proposed.                            *)
fromDraft(draft) == [NoPlaybook EXCEPT !.source = "generated", !.steps = draft, !.command = TRUE]

Generate(draft, f) ==
    LET pb == dropWrongDisk(fromDraft(draft), f)
    IN  IF Check(pb, f.inv) THEN pb ELSE NoPlaybook

(* prepare: a catalog playbook that passes its check, else the relay's.        *)
Prepared(f, draft) ==
    LET pb == FromBundle(f)
    IN  IF pb # NoPlaybook /\ Check(pb, f.inv) THEN pb ELSE Generate(draft, f)

--------------------------------------------------------------------------------
(* An incident: what was discovered and found, and what the relay would draft. *)
VARIABLE incident

Facts(report, sigs, service, mounts) ==
    [report |-> report, inv |-> playbookInventory(report), sigs |-> sigs, service |-> service,
     mounts |-> mounts, draft |-> <<>>]

NoIncident == [report |-> None]

Init == incident = NoIncident

(* The relay is asked when no rule fits. It drafts a step, one with a clean-up *)
(* after it, or too many.                                                      *)
Drafts == {<<s>> : s \in DraftSteps} \cup {<<s, Step(d, None)>> : s \in DraftSteps, d \in DiskSteps}
          \cup {[i \in 1..(MaxSteps + 1) |-> Step("process.stop", None)]}

Incident ==
    /\ incident = NoIncident
    /\ \E report \in Reports, service \in Services, mounts \in DiskMounts,
          sigs \in SignatureSeqs :
          LET facts == Facts(report, sigs, service, mounts)
              asked == FromBundle(facts) = NoPlaybook /\ report.others
          IN  \E draft \in {<<>>} \cup (IF asked THEN Drafts ELSE {}) :
                 incident' = [facts EXCEPT !.draft = draft]

Next == Incident \/ (incident # NoIncident /\ incident' = NoIncident)
Spec == Init /\ [][Next]_incident

--------------------------------------------------------------------------------
(* What the host showed that a step may be about, by any of its names.         *)
Discovered(report) ==
    (report.units \ {"ssh", "systemd-journald"})
    \cup (CASE report.container = "absent" -> {}
            [] report.container = "plain" -> {"web"}
            [] report.container = "compose" -> {"web", "shop/web"})
    \cup (IF report.others THEN {"app", "shop", "https://shop", "https://shop:8443"} ELSE {})

(* Whatever the relay drafts, what is proposed touches no protected unit, no   *)
(* unit, container, Compose service, app, certificate or address that was not  *)
(* discovered, and runs no step outside the catalog.                           *)
ProtectedIsNeverTouched ==
    incident # NoIncident =>
        LET pb == Prepared(incident, incident.draft)
        IN  \A i \in DOMAIN pb.steps :
              /\ pb.steps[i].id \in Catalog
              /\ pb.steps[i].id \in ServiceSteps => pb.steps[i].target \in incident.report.units
              /\ pb.steps[i].target \in Discovered(incident.report) \cup {None}

(* A clean-up that is proposed for an incident with a full disk frees space on *)
(* a disk that is full, whoever proposed it.                                   *)
CleanUpsHelp ==
    incident # NoIncident /\ Full(incident) # {} =>
        LET pb == Prepared(incident, incident.draft)
        IN  \A i \in DOMAIN pb.steps :
              pb.steps[i].id \in DiskSteps => incident.mounts[pb.steps[i].id] \in Full(incident)

(* "Disk or inodes full: disk.journal_vacuum, disk.docker_prune and            *)
(* disk.apt_clean where they apply" (README.md): journald runs on the host and *)
(* its logs are on the full disk, so shrinking them is offered.                *)
JournalIsOffered ==
    incident # NoIncident =>
        LET pb == FromBundle(incident)
        IN  \A i \in DOMAIN incident.sigs :
              /\ incident.sigs[i].type = "disk_exhausted" /\ Len(incident.sigs) = 1
              /\ "systemd-journald" \in incident.report.units
              /\ incident.mounts["disk.journal_vacuum"] = Mount(incident.sigs[i])
              => \E j \in DOMAIN pb.steps : pb.steps[j].id = "disk.journal_vacuum"
================================================================================
