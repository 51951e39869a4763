------------------------------- MODULE HostSteps -------------------------------
(* One step of the catalog from Validate to Verify (steps/step.go), the        *)
(* privileged helper that does its work as root (steps/helper.go) and the      *)
(* firewall manager behind it (firewall/firewall.go), on a host that goes on   *)
(* by itself: programs crash and are restarted by their supervisor, process    *)
(* numbers are reused, sshd comes to use another port. A step names one thing: *)
(* a program kept running by systemd, Docker, PM2 or Supervisor, a process, or *)
(* a port. Commands may fail; texts and outputs are left out.                  *)
EXTENDS Integers, FiniteSets

CONSTANTS MaxEvents,  \* bound: what the host does by itself
          MaxPolls    \* polls of a container that is starting (composeHealthPolls)

Programs == {"service.restart", "service.start", "service.stop", "service.reload", "phpfpm.restart",
             "nginx.reload", "container.restart", "compose.up", "pm2.restart", "supervisor.restart"}
UnitSteps == {"service.restart", "service.start", "service.stop", "service.reload", "phpfpm.restart"}
FirewallSteps == {"firewall.allow", "firewall.remove"}
DockerSteps == {"container.restart", "compose.up"}
DiskSteps == {"disk.journal_vacuum", "disk.docker_prune", "disk.apt_clean"}
Catalog == Programs \cup DiskSteps
           \cup FirewallSteps \cup {"cert.renew", "process.stop", "check.http"}

(* The name a step gives: a program's, a protected one's, or an alias of that; *)
(* of a firewall step a port, sshd's usual one or another.                     *)
Names == {"app", "ssh", "alias"}
Ports == {"22", "8022"}
None == "none"

VARIABLES step,      \* its id, the name it gives, and whether the agent runs as root
          pc,        \* where it is, "verified" or "failed" at the end
          program,   \* what it names: there, state, restarts, mixed labels
          look,      \* what Verify saw first: restarts, or -1
          polls,     \* polls of Verify so far
          steady,    \* history: no automatic restart since that look
          blind,     \* history: looks that found no count of restarts
          process,   \* who has the process number: the one meant ("meant"), another, nobody
          pinned,    \* the process the helper opened
          signalled, \* history: who got a signal
          open,      \* the port is open: in the running rules, in the saved ones
          sshd,      \* how sshd uses the port
          sshAlways, \* history: sshd has used the port all along
          unread,    \* history: the lookups of sshd's ports that failed
          answers,   \* the check at the end passes: disk below 85%, certificate new, address answers
          events     \* what the host did by itself so far

hostVars == <<program, process, open, sshd, answers>>
stepVars == <<step, pc, look, polls, steady, blind, pinned, signalled, unread>>
vars == <<hostVars, stepVars, sshAlways, events>>

States == {"running", "starting", "unhealthy", "stopped"}
SSHUses == {"listening", "activated", "established", "configured"}

Init ==
    /\ step \in [id : Catalog, name : Names \cup Ports, root : BOOLEAN]
    /\ step.name \in (CASE step.id \in UnitSteps -> Names
                        [] step.id \in FirewallSteps -> Ports
                        [] OTHER -> {"app"})
    /\ step.id \notin UnitSteps => ~step.root   \* the others go through the helper
    /\ pc = "validate"
    /\ program \in [there : BOOLEAN, state : States, restarts : {0}, mixed : BOOLEAN]
    /\ step.id \notin DockerSteps => program.state \in {"running", "stopped"} /\ ~program.mixed
    /\ step.id \notin Programs => program.there /\ program.state = "running"
    /\ look = -1 /\ polls = 0 /\ steady = TRUE /\ blind = 0
    /\ process \in (IF step.id = "process.stop" THEN {"meant", "protected", "other", None} ELSE {None})
    /\ pinned = None /\ signalled = {}
    /\ open \in [running : BOOLEAN, saved : BOOLEAN]
    /\ sshd \in SUBSET SSHUses
    /\ step.id \notin FirewallSteps => open = [running |-> TRUE, saved |-> TRUE] /\ sshd = {}
    /\ sshAlways = (sshd # {}) /\ unread = {}
    /\ answers \in (IF step.id \in DiskSteps \cup {"cert.renew", "check.http"} THEN BOOLEAN ELSE {TRUE})
    /\ events = 0

Goto(p) == pc' = p
Keep == UNCHANGED <<step, look, polls, steady, blind, pinned, signalled, sshAlways, unread, events>>

--------------------------------------------------------------------------------
(* Validate (Runner.Execute).                                                  *)
IsProtectedUnit(n) == n = "ssh"
CheckUnitAllowed(n) == ~IsProtectedUnit(n)
Canonical(n) == IF n = "alias" THEN "ssh" ELSE n

validateUnitExists == CheckUnitAllowed(step.name) /\ program.there
findContainer == program.there
(* All containers of the service come from one Compose configuration.          *)
composeTargets == program.there /\ ~program.mixed
pm2Find == program.there
supervisorRunning == program.there /\ program.state = "running"

Validates ==
    CASE step.id \in UnitSteps -> validateUnitExists
      [] step.id = "nginx.reload" -> program.there
      [] step.id = "container.restart" -> findContainer
      [] step.id = "compose.up" -> composeTargets
      [] step.id = "pm2.restart" -> pm2Find
      [] step.id = "supervisor.restart" -> program.there
      [] step.id = "process.stop" -> process \in {"meant", "protected"}
      [] OTHER -> TRUE

Validate ==
    /\ pc = "validate"
    /\ Goto(IF Validates THEN "run" ELSE "failed")
    /\ UNCHANGED hostVars /\ Keep

--------------------------------------------------------------------------------
(* Run. The helper checks again, as root, what Validate checked.               *)
Fails == pc' = "failed" /\ UNCHANGED hostVars

(* The canonical name is checked too, so that an alias protects nothing.       *)
checkUnit == CheckUnitAllowed(step.name) /\ program.there /\ CheckUnitAllowed(Canonical(step.name))

(* The command succeeds, with what it does to the program, or fails.           *)
Command(allowed, state) ==
    /\ \/ allowed /\ program' = [program EXCEPT !.state = state] /\ Goto("verify")
          /\ UNCHANGED <<process, open, sshd, answers>>
       \/ Fails
    /\ Keep

(* An agent that runs as root calls systemctl itself (systemctl_client.go),    *)
(* without the helper and its check of the canonical name; but for php-fpm.    *)
runUnitAction ==
    IF step.root /\ step.id # "phpfpm.restart"
    THEN CheckUnitAllowed(step.name) /\ program.there ELSE checkUnit

serviceAction ==
    /\ pc = "run" /\ step.id \in UnitSteps
    /\ Command(runUnitAction, CASE step.id = "service.stop" -> "stopped"
                                [] step.id = "service.reload" -> program.state
                                [] OTHER -> "running")
(* The settings are tested first, and nothing is reloaded when that fails.     *)
reloadNginx == pc = "run" /\ step.id = "nginx.reload" /\ Command(program.there, program.state)
ContainerRestart == pc = "run" /\ step.id = "container.restart" /\ Command(findContainer, "running")
(* What runs and is not unhealthy is left alone, the rest started. A health    *)
(* check begins with "starting".                                               *)
ComposeUp ==
    /\ pc = "run" /\ step.id = "compose.up"
    /\ \/ Command(composeTargets, IF program.state \in {"running", "starting"} THEN program.state ELSE "running")
       \/ Command(composeTargets /\ program.state \in {"stopped", "unhealthy"}, "starting")
pm2Restart == pc = "run" /\ step.id = "pm2.restart" /\ Command(pm2Find, "running")
supervisorRestart == pc = "run" /\ step.id = "supervisor.restart" /\ Command(program.there, "running")

(* journalctl, docker, apt-get, certbot: enough or not, and they may fail with *)
(* the work done (nginx is reloaded after the certificate was renewed).        *)
Cleanup ==
    /\ pc = "run" /\ step.id \in DiskSteps \cup {"cert.renew"}
    /\ answers' \in {answers, TRUE} /\ pc' \in {"verify", "failed"}
    /\ UNCHANGED <<program, process, open, sshd>> /\ Keep

CheckHTTP ==
    /\ pc = "run" /\ step.id = "check.http"
    /\ Goto(IF answers THEN "verify" ELSE "failed")
    /\ UNCHANGED hostVars /\ Keep

RunProgram == \/ serviceAction \/ reloadNginx \/ ContainerRestart \/ ComposeUp \/ pm2Restart
              \/ supervisorRestart \/ Cleanup \/ CheckHTTP

--------------------------------------------------------------------------------
(* process.stop: the process is pinned, then its start time and whether it is  *)
(* protected are checked, then it gets SIGTERM, and SIGKILL if it stays.       *)
OpenProcess ==
    /\ pc = "run" /\ step.id = "process.stop"
    /\ Goto(IF process = None THEN "failed" ELSE "pinned")
    /\ pinned' = process
    /\ UNCHANGED <<hostVars, step, look, polls, steady, blind, signalled, sshAlways, unread, events>>

(* The start time of the one meant; protectedPID knows the protected.          *)
protectedPID == process = "protected"

CheckProcess ==
    /\ pc = "pinned"
    /\ Goto(IF process \notin {"meant", "protected"} \/ protectedPID THEN "failed" ELSE "term")
    /\ UNCHANGED hostVars /\ Keep

(* A signal reaches the pinned process, if it still runs, and may end it.      *)
Reach(target, ends) ==
    /\ signalled' = signalled \cup ({target} \ {None})
    /\ process' = IF ends /\ target = process THEN None ELSE process
    /\ UNCHANGED <<program, open, sshd, answers, step, look, polls, steady, blind, pinned, sshAlways, unread, events>>

(* Mutant: kill(pid) reaches whoever has the number now.                       *)
SignalByNumber(from, to) ==
    /\ pc = from
    /\ Goto(to)
    /\ \E ends \in BOOLEAN : Reach(process, ends)

Signal(from, to) ==
    /\ pc = from
    /\ Goto(to)
    /\ \E ends \in BOOLEAN : Reach(IF pinned = process THEN pinned ELSE None, ends)

Gone == process # "meant"

(* Ten seconds after SIGTERM, three after SIGKILL.                             *)
AwaitExit ==
    /\ \/ pc = "termed" /\ Goto(IF Gone THEN "verify" ELSE "kill")
       \/ pc = "killed" /\ Goto(IF Gone THEN "verify" ELSE "failed")
    /\ UNCHANGED hostVars /\ Keep

processStop == OpenProcess \/ CheckProcess \/ Signal("term", "termed") \/ Signal("kill", "killed") \/ AwaitExit

--------------------------------------------------------------------------------
(* The firewall. RuleRemove asks the host for the ports of sshd first.         *)
(* Mutant: only the sockets of a running sshd are looked at.                   *)
SSHListens(failed, elsewhere) == "listening" \in sshd \ failed

(* The port is among those sshd listens on, systemd activates it by, it has    *)
(* connections on, or sshd_config names. A lookup that fails finds nothing, and*)
(* port 22 stands in when none finds a port, here or elsewhere.                *)
SSHPorts(failed, elsewhere) ==
    \/ sshd \ failed # {}
    \/ step.name = "22" /\ ~elsewhere

RuleAdd ==
    /\ pc = "run" /\ step.id = "firewall.allow"
    /\ open' = [open EXCEPT !.running = TRUE]
    /\ Goto("saveRule")
    /\ UNCHANGED <<program, process, sshd, answers>> /\ Keep

RuleRemove ==
    /\ pc = "run" /\ step.id = "firewall.remove"
    /\ \E failed \in SUBSET SSHUses, elsewhere \in BOOLEAN :
          /\ failed = SSHUses => ~elsewhere
          /\ Goto(IF SSHPorts(failed, elsewhere) THEN "failed" ELSE "removeRule")
          /\ unread' = failed
    /\ UNCHANGED <<hostVars, step, look, polls, steady, blind, pinned, signalled, sshAlways, events>>

Remove ==
    /\ pc = "removeRule"
    /\ open' = [open EXCEPT !.running = FALSE]
    /\ Goto("saveRule")
    /\ UNCHANGED <<program, process, sshd, answers>> /\ Keep

(* firewalld keeps the saved rules apart (ufw does both at once).              *)
SaveRule ==
    /\ pc = "saveRule"
    /\ open' = [open EXCEPT !.saved = (step.id = "firewall.allow")]
    /\ Goto("verify")
    /\ UNCHANGED <<program, process, sshd, answers>> /\ Keep

FirewallFails ==
    /\ pc \in {"removeRule", "saveRule"} \/ (pc = "run" /\ step.id \in FirewallSteps)
    /\ Fails /\ Keep

firewallChange == RuleAdd \/ RuleRemove \/ Remove \/ SaveRule \/ FirewallFails

--------------------------------------------------------------------------------
(* Verify.                                                                     *)
(* A restarted container need only run, whatever its health check says.        *)
Active == /\ program.there
          /\ \/ program.state = "running"
             \/ step.id = "container.restart" /\ program.state # "stopped"
Twice == {"service.restart", "container.restart", "pm2.restart", "supervisor.restart"}

(* The steps that look once.                                                   *)
VerifyOnce ==
    /\ pc = "verify" /\ step.id \notin Twice \cup {"compose.up"}
    /\ Goto(IF CASE step.id = "service.stop" -> program.state = "stopped"
                 [] step.id \in Programs -> Active
                 [] step.id = "process.stop" -> Gone
                 [] step.id = "firewall.allow" -> open.running
                 [] step.id = "firewall.remove" -> ~open.running
                 [] OTHER -> answers
            THEN "verified" ELSE "failed")
    /\ UNCHANGED hostVars /\ Keep

(* The number of restarts: 0 of a container whose inspection fails, and of a   *)
(* unit when systemctl prints no NRestarts.                                    *)
Counts == DockerSteps \cup {"service.restart"}
Restarts(counted) == IF step.id \in Counts /\ ~counted THEN 0 ELSE program.restarts
Saw(counted) == blind' = IF step.id \in Counts /\ ~counted THEN blind + 1 ELSE blind

(* verifyActiveStable, ContainerRestart and PM2Restart: active now, and after  *)
(* a while, with as many restarts. Supervisor's programs count none.           *)
FirstLook(counted) ==
    /\ pc = "verify" /\ step.id \in Twice
    /\ Goto(IF Active THEN "settle" ELSE "failed")
    /\ look' = Restarts(counted) /\ steady' = TRUE /\ Saw(counted)
    /\ UNCHANGED <<hostVars, step, polls, pinned, signalled, sshAlways, unread, events>>

(* Mutant: what is active the second time is fine.                             *)
StillActive(counted) == Active

KeptRunning(counted) ==
    Active /\ (step.id # "supervisor.restart" => Restarts(counted) = look)

SecondLook(counted) ==
    /\ pc = "settle" /\ step.id \in Twice
    /\ Goto(IF KeptRunning(counted) THEN "verified" ELSE "failed")
    /\ Saw(counted)
    /\ UNCHANGED <<hostVars, step, look, polls, steady, pinned, signalled, sshAlways, unread, events>>

(* ComposeUp: containers that are starting are polled; once none is, a second  *)
(* look must find the same restarts.                                           *)
Poll(counted) ==
    /\ pc \in {"verify", "settle"} /\ step.id = "compose.up"
    /\ polls' = polls + 1 /\ Saw(counted)
    /\ CASE ~program.there \/ program.state \in {"stopped", "unhealthy"} ->
                Goto("failed") /\ UNCHANGED <<look, steady>>
         [] program.there /\ program.state = "starting" ->
                Goto(IF polls >= MaxPolls THEN "failed" ELSE "verify") /\ look' = -1 /\ UNCHANGED steady
         [] Active /\ look = -1 ->
                Goto("settle") /\ look' = Restarts(counted) /\ steady' = TRUE
         [] OTHER ->
                Goto(IF KeptRunning(counted) THEN "verified" ELSE "failed") /\ UNCHANGED <<look, steady>>
    /\ UNCHANGED <<hostVars, step, pinned, signalled, sshAlways, unread, events>>

(* The caller gives up, or the status cannot be read.                          *)
VerifyFails == pc \in {"verify", "settle"} /\ Fails /\ Keep

Verify == VerifyOnce \/ VerifyFails
          \/ \E counted \in BOOLEAN : FirstLook(counted) \/ SecondLook(counted) \/ Poll(counted)

--------------------------------------------------------------------------------
(* The host.                                                                   *)
Happens == events < MaxEvents /\ events' = events + 1 /\ pc \notin {"verified", "failed"}
           /\ UNCHANGED <<step, pc, look, polls, blind, pinned, signalled, unread>>

(* A program dies; its supervisor starts it again and counts, or gives up.     *)
Crash(state) ==
    /\ Happens /\ step.id \in Programs /\ program.state # "stopped"
    /\ program' = [program EXCEPT !.state = state, !.restarts = IF state = "stopped" THEN @ ELSE @ + 1]
    /\ steady' = (steady /\ state = "stopped")
    /\ UNCHANGED <<process, open, sshd, sshAlways, answers>>

(* A container's health check comes to a result; a container or unit goes.     *)
Changes(new) ==
    /\ Happens /\ step.id \in Programs
    /\ \/ step.id \in DockerSteps /\ program.state \in {"starting", "running"}
          /\ new \in {"running", "unhealthy"} /\ program' = [program EXCEPT !.state = new]
       \/ program' = [program EXCEPT !.there = FALSE]
    /\ UNCHANGED <<process, open, sshd, sshAlways, answers, steady>>

(* The process ends, and its number may be given to another.                   *)
Reuse(who) ==
    /\ Happens /\ step.id = "process.stop"
    /\ process' = IF process = None THEN who ELSE None
    /\ UNCHANGED <<program, open, sshd, sshAlways, answers, steady>>

SSHChanges(uses) ==
    /\ Happens /\ step.id = "firewall.remove"
    /\ sshd' = uses /\ sshAlways' = (sshAlways /\ uses # {})
    /\ UNCHANGED <<program, process, open, answers, steady>>

Host == \/ \E s \in States : Crash(s) \/ Changes(s)
        \/ Reuse("other") \/ (\E uses \in SUBSET SSHUses : SSHChanges(uses))

Next == Validate \/ RunProgram \/ processStop \/ firewallChange \/ Verify \/ Host
Spec == Init /\ [][Next]_vars

--------------------------------------------------------------------------------
(* What is verified as running steadily ("has not restarted for 30 seconds",   *)
(* step.go) was not restarted by its supervisor between the two looks, so that *)
(* a program in a crash loop is never reported as fixed; unless one of the     *)
(* looks found no count of restarts: the inspection of a container failed, or  *)
(* systemctl printed none of a unit.                                           *)
VerifiedIsSteady ==
    pc = "verified" /\ step.id \in (Twice \ {"supervisor.restart"}) \cup {"compose.up"} =>
        steady \/ blind >= 1

(* The catalog says of container.restart: "The container is running and has    *)
(* not restarted for 60 seconds" (step.go).                                    *)
RestartedContainerStays == pc = "verified" /\ step.id = "container.restart" => steady

(* "From here on a signal can only reach the process that was opened"          *)
(* (helper.go): however the process ends and its number is reused while the    *)
(* step waits for approval and while it runs, only the process that was meant  *)
(* is signalled, and never a protected one.                                    *)
OnlyTheMeantIsSignalled == signalled \subseteq {"meant"}

(* A port that sshd uses, listening, activated, established or configured, is  *)
(* not closed behind its back. The check lets a removal go on only when every  *)
(* use of the port is one it could not look up; so a port that sshd has used   *)
(* all along, up to the removal and the saving of the rules, stays open unless *)
(* a lookup failed, and port 22 even when all of them did. And a protected     *)
(* service is never changed under its own name, nor under an alias unless the  *)
(* agent runs as root and calls systemctl without the helper.                  *)
Closes == (open.running /\ ~open.running') \/ (open.saved /\ ~open.saved')
AccessIsKept ==
    [][/\ pc = "run" /\ pc' = "removeRule" => sshd \subseteq unread'
       /\ sshAlways /\ Closes => unread # {} /\ (step.name = "22" => unread # SSHUses)
       /\ serviceAction /\ pc' = "verify" => step.name = "app" \/ (step.root /\ step.name = "alias")]_vars
================================================================================
