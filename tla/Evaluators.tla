----------------------------- MODULE Evaluators -----------------------------
(***************************************************************************)
(* The monitor evaluators (internal/monitor): how one look at the host     *)
(* becomes a verdict about one target.  A behaviour follows one evaluator  *)
(* and one target; the engine that turns verdicts into pages is module     *)
(* MonitorEngine, here only its in-episode flag, which the evaluators ask  *)
(* for (Held.WasFailing), is kept.                                         *)
(*                                                                         *)
(* The clock counts minutes and several evaluations may fall into one.     *)
(* Percentages, days and hours are small levels; the windows of the code   *)
(* are scaled down with the clock.                                         *)
(***************************************************************************)
EXTENDS Integers, Sequences, SequencesExt, FiniteSetsExt, Functions, Slices

CONSTANTS
    MaxTime,    \* bound: minutes a behaviour lasts
    MaxLevel,   \* bound: the highest level a source reports
    MaxBoots    \* bound: boots of the host

VARIABLES
    kind,       \* which evaluator this behaviour follows
    def,        \* the target's definition, as Resolve returns it
    named,      \* the definition names the target (it is not the wildcard's)
    now,        \* the clock
    mem,        \* the evaluator's own memory, lost when the agent restarts
    host,       \* what outlives the agent: boot id, stored boot id
    inEpisode,  \* Manager.WasFailing
    verdict,    \* outcome of the last evaluation
    reading,    \* what it rested on: did the source answer, how bad was it
    opened,     \* history: the level that opened the episode
    announced   \* history: boots reported, in order

vars == <<kind, def, named, now, mem, host, inEpisode, verdict, reading,
          opened, announced>>

HigherIsWorse == {"cpu", "load", "log"}
LowerIsWorse  == {"fill", "cert", "certfile"}
Raw           == {"disk", "inode", "memory"}   \* take the definition as it is
Plain         == {"docker", "systemd", "timer", "job", "port", "process",
                  "pm2", "reboot"}
Kinds == HigherIsWorse \cup LowerIsWorse \cup Raw \cup Plain

Levels   == 0 .. MaxLevel
Verdicts == {"none", "fail", "ok", "hold", "error", "absent"}

\* A level worse than any a source reports, and one better.
Worst == 1000
Best  == -1000

-----------------------------------------------------------------------------
(* Windows and counts of the code, scaled to the clock.                    *)

crashLoopWindow   == 3     \* 5 minutes
crashLoopRestarts == 2     \* 3 restarts
pm2LoopQuiet      == 1     \* 60 seconds
fillSampleEvery   == 1     \* a minute
fillWindowMax     == 4     \* 3 hours
fillMinWindow     == 3     \* 30 minutes
fillReset         == 1     \* 2% of the capacity
fillMinGrowth     == 1     \* 64 MiB and 0.2% of the capacity
logReadEvery      == 1     \* a minute
logWindow         == 2     \* 5 minutes
logBaselineMin    == 1     \* 3 samples
logBaselineMax    == 2     \* 12 samples
logReadMax        == 2     \* 4 MiB
certCheckEvery    == 3
certRetryEvery    == 1

-----------------------------------------------------------------------------
(* The memory an evaluator starts with.                                    *)

NoContainer == [known |-> FALSE, last |-> 0, increases |-> <<>>, ran |-> FALSE]
NoApp == [known |-> FALSE, last |-> 0, increases |-> <<>>, looping |-> FALSE,
          lastIncrease |-> 0]

memOf(k) ==
    CASE k = "docker" -> NoContainer
      [] k = "pm2"    -> NoApp
      [] k = "fill"   -> [samples |-> <<>>, reset |-> FALSE]
      [] k = "cert"   -> [checkedAt |-> -1, err |-> FALSE, have |-> FALSE, notAfter |-> 0]
      [] k = "log"    -> [started |-> FALSE, lastRead |-> -1, offset |-> 0,
                          events |-> <<>>, history |-> <<>>, lastHistory |-> -1]
      [] OTHER        -> <<>>

-----------------------------------------------------------------------------
(* What every evaluation ends in.                                          *)

\* Manager.Evaluate: a failing verdict opens or keeps an episode; a healthy
\* one, or the target left out of the report (retireAbsent), may end it once
\* the recovery threshold is met; a hold or an error changes nothing.
Report(v, seen, level, m) ==
    /\ verdict' = v
    /\ reading' = [seen |-> seen, level |-> level]
    /\ mem' = m
    /\ CASE v = "fail" -> inEpisode' = TRUE
         [] v \in {"ok", "absent"} -> inEpisode' \in {FALSE, inEpisode}
         [] OTHER -> UNCHANGED inEpisode
    /\ opened' = IF v = "fail" /\ ~inEpisode THEN level ELSE opened
    /\ UNCHANGED <<kind, def, named, now>>

Unanswered(v) == Report(v, FALSE, 0, mem) /\ UNCHANGED <<host, announced>>
Judge(fails, level, m) ==
    /\ Report(IF fails THEN "fail" ELSE "ok", TRUE, level, m)
    /\ UNCHANGED <<host, announced>>

Evaluates(k) == kind = k /\ def.enabled

\* A definition that is switched off: no observation for the target, whose
\* restart count is forgotten (of a container, once the listing answers).
Skip ==
    /\ ~def.enabled
    /\ \/ Report("absent", FALSE, 0, IF kind \in {"docker", "pm2"} THEN memOf(kind) ELSE mem)
          /\ UNCHANGED <<host, announced>>
       \/ kind = "docker" /\ Unanswered("error")

-----------------------------------------------------------------------------
(* Definitions.                                                            *)

\* Mutant: a recovery value on the wrong side of the firing value is kept.
thresholdsUnclamped(d, defFire, defRecover, higherIsWorse) ==
    [fire    |-> IF d.fire <= 0 THEN defFire ELSE d.fire,
     recover |-> IF d.recover <= 0 THEN defRecover ELSE d.recover]

\* Unset sides take the kind's default; the recovery value is clamped to the
\* firing value when it lies on its wrong side.
thresholds(d, defFire, defRecover, higherIsWorse) ==
    LET fire == IF d.fire <= 0 THEN defFire ELSE d.fire
        recover == IF d.recover <= 0 THEN defRecover ELSE d.recover
    IN [fire    |-> fire,
        recover |-> IF higherIsWorse THEN Min({recover, fire})
                                     ELSE Max({recover, fire})]

\* A parameter that is unset, does not parse or is not positive is its default.
param(default) == IF def.param > 0 THEN def.param ELSE default

\* Hysteresis: the firing value opens an episode, the recovery value ends it.
evalThreshold(value, fire, recover) ==
    value >= (IF inEpisode THEN recover ELSE fire)

\* The same for hours and days, of which fewer are worse.
runsOut(value, t) == value < (IF inEpisode THEN t.recover ELSE t.fire)

-----------------------------------------------------------------------------
(* disk_capacity, inode_capacity, memory_pressure, cpu_pressure and         *)
(* load_per_core: one sample against the hysteresis band.                   *)

\* Disk usage covers every mount that can be read; inodes, and mounts with a
\* definition of their own, are reported even when they cannot.
Disk ==
    /\ kind \in {"disk", "inode"} /\ def.enabled
    /\ \/ Unanswered(IF named THEN "hold" ELSE "absent")
       \/ /\ named \/ kind = "disk"
          /\ \E v \in Levels : Judge(evalThreshold(v, def.fire, def.recover), v, mem)

\* The worse of memory and swap (0 without swap), or any recent OOM kill.
Memory ==
    /\ Evaluates("memory")
    /\ \/ Unanswered("hold")
       \/ Unanswered("error")      \* OOMEvents failed
       \/ \E used, swap \in Levels, oom \in BOOLEAN :
             LET value == Max({used, swap})
             IN Judge(evalThreshold(value, def.fire, def.recover) \/ oom,
                      IF oom THEN Worst ELSE value, mem)

CPU ==
    /\ Evaluates("cpu")
    /\ \/ Unanswered("hold")
       \/ LET t == thresholds(def, 2, 1, TRUE)
          IN \E v \in Levels : Judge(evalThreshold(v, t.fire, t.recover), v, mem)

\* The five-minute load over the number of cores, at least one: compared
\* without dividing.
Load ==
    /\ Evaluates("load")
    /\ \/ Unanswered("hold")
       \/ LET t == thresholds(def, 2, 1, TRUE)
          IN \E five \in Levels, cores \in {0, 1, 2} :
                LET n == Max({cores, 1})
                IN Judge(evalThreshold(five, n * t.fire, n * t.recover),
                         five \div n, mem)

-----------------------------------------------------------------------------
(* disk_fill_rate: a least-squares trend over a window of samples.          *)

Sum(s, Of(_)) == Total([i \in DOMAIN s |-> Of(s[i])])

\* Slope num/den and the two terms of its R^2 (num^2 over den * varY).
fitSlope(s) ==
    LET n   == Len(s)
        X(p) == p.at - s[1].at
        XX(p) == X(p) * X(p)
        Y(p) == p.used
        YY(p) == p.used * p.used
        XY(p) == X(p) * p.used
    IN [num  |-> n * Sum(s, XY) - Sum(s, X) * Sum(s, Y),
        den  |-> n * Sum(s, XX) - Sum(s, X) * Sum(s, X),
        varY |-> n * Sum(s, YY) - Sum(s, Y) * Sum(s, Y)]

Rises(f) == f.den # 0 /\ f.num > 0

\* A trend: a good fit (R^2 of 0.6), growth that matters, and both halves of
\* the window growing.
trending(s) ==
    LET f == fitSlope(s)
        mid == Len(s) \div 2
        span == s[Len(s)].at - s[1].at
    IN /\ Len(s) >= 4
       /\ Rises(f) /\ f.varY > 0 /\ 10 * f.num * f.num >= 6 * f.den * f.varY
       /\ f.num * span >= fillMinGrowth * f.den
       /\ Rises(fitSlope(SubSeq(s, 1, mid + 1)))
       /\ Rises(fitSlope(SubSeq(s, mid + 1, Len(s))))

\* Whole hours until the free space is used up.
timeToFull(s, avail) == LET f == fitSlope(s) IN (avail * f.den) \div f.num

\* One sample a minute at most; a large drop discards the history, and what
\* is older than the window falls out.
record(w, used) ==
    LET last == w.samples[Len(w.samples)]
        drop == w.samples # <<>> /\ last.used - used > fillReset
        kept == IF drop THEN <<>> ELSE w.samples
        added == Append(kept, [at |-> now, used |-> used])
        Old(p) == now - p.at > fillWindowMax
    IN IF w.samples # <<>> /\ ~drop /\ now - last.at < fillSampleEvery
       THEN w
       ELSE [samples |-> SubSeq(added, 1 + Cardinality({i \in 1 .. Len(added) - 1 :
                                                           Old(added[i])}), Len(added)),
             reset   |-> w.reset \/ drop]

\* Too short a window holds, unless a purge has just restarted it.
DiskFill ==
    /\ Evaluates("fill")
    /\ \/ Unanswered("hold")
       \/ \E used \in Levels :
             LET w == record(mem, used)
                 s == w.samples
                 t == thresholds(def, 2, 3, FALSE)
                 hours == timeToFull(s, MaxLevel - used)
             IN IF s[Len(s)].at - s[1].at < fillMinWindow
                THEN /\ Report(IF w.reset THEN "ok" ELSE "hold", TRUE, Best, w)
                     /\ UNCHANGED <<host, announced>>
                ELSE Judge(trending(s) /\ runsOut(hours, t),
                           IF trending(s) THEN -hours ELSE Best,
                           [w EXCEPT !.reset = FALSE])

-----------------------------------------------------------------------------
(* log_error_spike: matching lines in a trailing window against a baseline. *)

\* What one read of the file returns: from the last offset, or from the start
\* of a file that shrank, and never more than the newest max bytes.
ReadFrom(size, offset, max) ==
    Min({size - (IF size < offset THEN 0 ELSE offset), max})

\* The first read of a file only notes its size; the first read of a journal
\* covers the trailing window, which "named" tells apart here.
read(size) ==
    IF mem.started \/ ~named
    THEN ReadFrom(size, mem.offset, logReadMax) ELSE 0

CountIn(events) == Total([i \in DOMAIN events |-> events[i].n])

\* The counting half of Evaluate: read at most once a minute, keep the events
\* of the window, then sample the count into the history.
logSample(size) ==
    LET due == mem.lastRead = -1 \/ now - mem.lastRead >= logReadEvery
        n == read(size)
        added == IF due /\ n > 0 THEN Append(mem.events, [at |-> now, n |-> n])
                                 ELSE mem.events
        events == Keep(added, {e \in ToSet(added) : e.at > now - logWindow})
        closes == mem.lastHistory = -1 \/ now - mem.lastHistory >= logWindow
        history == Append(mem.history, CountIn(events))
    IN [started     |-> mem.started \/ due,
        lastRead    |-> IF due THEN now ELSE mem.lastRead,
        offset      |-> IF due THEN size ELSE mem.offset,
        events      |-> events,
        history     |-> IF ~closes THEN mem.history
                        ELSE SubSeq(history, Max({1, Len(history) + 1 - logBaselineMax}),
                                    Len(history)),
        lastHistory |-> IF closes THEN now ELSE mem.lastHistory]

\* A spike opens above the firing value and above a multiple of the baseline
\* (at least one line); it ends below the recovery value.  The baseline is the
\* history before this sample joined it.
LogSpike ==
    /\ Evaluates("log")
    /\ \/ Unanswered("hold")     \* the pattern does not compile
       \/ Unanswered("error")    \* the file or the journal cannot be read
       \/ \E size \in Levels :       \* lines written, or a rotated log
          LET m == logSample(size)
              count == CountIn(m.events)
              t == thresholds(def, 2, 1, TRUE)
              len == Len(mem.history)
              total == Total(mem.history)
              spikes == /\ count > t.fire
                        /\ count * len > param(1) * Max({total, len})
          IN IF len < logBaselineMin
             THEN /\ Report("hold", TRUE, count, m)
                  /\ UNCHANGED <<host, announced>>
             ELSE Judge(IF inEpisode THEN count >= t.recover ELSE spikes, count, m)

-----------------------------------------------------------------------------
(* cert_expiry: an endpoint asked seldom, or a file read every time.        *)

\* The days left of the first certificate among the blocks of a PEM file (keys
\* are passed over); a block that does not parse has none.
Key     == Best
Garbled == Worst
fileNotAfter(blocks) ==
    LET certs == Keep(blocks, ToSet(blocks) \ {Key})
    IN IF certs = <<>> THEN Garbled ELSE Head(certs)

\* A file that cannot be read, or holds no certificate, fails.
CertFile ==
    /\ Evaluates("certfile")
    /\ \/ Report("fail", FALSE, Worst, mem) /\ UNCHANGED <<host, announced>>
       \/ \E a, b \in {Key, Garbled} \cup -1 .. MaxLevel :
             LET days == fileNotAfter(<<a, b>>)
             IN IF days = Garbled
                THEN Report("fail", FALSE, Worst, mem) /\ UNCHANGED <<host, announced>>
                ELSE Judge(runsOut(days, thresholds(def, 1, 2, FALSE)), -days, mem)

\* The dates an endpoint may present: the handshake verifies nothing, so that
\* an expired certificate can be reported.
CertNotAfter == now - 1 .. now + MaxLevel

\* A failed dial keeps the last known date, or holds when there is none.
Cert ==
    /\ Evaluates("cert")
    /\ \E dial \in BOOLEAN, date \in CertNotAfter :
          LET every == IF mem.err THEN certRetryEvery ELSE certCheckEvery
              due == mem.checkedAt = -1 \/ now - mem.checkedAt >= every
              m == IF ~due THEN mem
                   ELSE [checkedAt |-> now, err |-> ~dial,
                         have      |-> mem.have \/ dial,
                         notAfter  |-> IF dial THEN date ELSE mem.notAfter]
              days == m.notAfter - now
              fails == runsOut(days, thresholds(def, 1, 2, FALSE))
              verdictOf == IF ~m.have THEN "hold" ELSE IF fails THEN "fail" ELSE "ok"
          IN /\ Report(verdictOf, due /\ dial, -days, m)
             /\ UNCHANGED <<host, announced>>

-----------------------------------------------------------------------------
(* docker_container and pm2_app: a state and a restart count.               *)

\* A container that is not running pages for a restart loop, an OOM kill, or
\* an exit code that is neither clean nor a signal's of a container that was
\* seen running or should have been kept up.
containerDown(state, detail, ranBefore) ==
    \/ state = "restarting"
    \/ /\ state = "exited"
       /\ \/ detail.oom
          \/ /\ detail.exit = "error"     \* not 0, 137 or 143
             /\ ranBefore \/ detail.policy # "no"

\* One time stamp per restart; those inside the window count.
trackCrashLoop(track, count) ==
    LET t == IF track.known THEN track ELSE [track EXCEPT !.known = TRUE, !.last = count]
        delta == Max({count - t.last, 0})
        Recent(at) == at > now - crashLoopWindow
    IN [t EXCEPT !.last = Max({@, count}),
                 !.increases = SelectSeq(@ \o [i \in 1 .. delta |-> now], Recent)]

Details == [count : 0 .. 2, oom : BOOLEAN, exit : {"zero", "signal", "error"},
            policy : {"no", "always"}]
NoDetail == [count |-> 0, oom |-> FALSE, exit |-> "zero", policy |-> "no"]

\* Without its exit code a stopped container is held; a running one is judged
\* by the listing.  A container the listing lacks is forgotten.
Docker ==
    /\ Evaluates("docker")
    /\ \/ Unanswered("error")
       \/ Report("absent", TRUE, Best, NoContainer) /\ UNCHANGED <<host, announced>>
       \/ \E state \in {"running", "created", "paused", "restarting", "exited"},
             unhealthy, inspected \in BOOLEAN, d \in Details :
             LET detail == IF inspected THEN d ELSE NoDetail
                 m == [mem EXCEPT !.ran = @ \/ state = "running"]
                 tracked == trackCrashLoop(m, detail.count)
                 loop == Len(tracked.increases) >= crashLoopRestarts
                 down == containerDown(state, detail, m.ran)
             IN IF ~inspected /\ state \notin {"running", "restarting"}
                THEN Report("hold", FALSE, 0, m) /\ UNCHANGED <<host, announced>>
                ELSE Judge(down \/ unhealthy \/ loop, 0, tracked)

\* pm2Track.observe: a loop starts with enough restarts inside the window and
\* ends once the count has been still for a while; a smaller count is a reset.
observe(track, count) ==
    LET t == IF ~track.known THEN [track EXCEPT !.known = TRUE, !.last = count]
             ELSE IF count < track.last THEN [track EXCEPT !.last = count, !.increases = <<>>]
             ELSE track
        delta == count - t.last
        Recent(at) == at > now - crashLoopWindow
        increases == SelectSeq(t.increases \o [i \in 1 .. delta |-> now], Recent)
        last == IF delta > 0 THEN now ELSE t.lastIncrease
        looping == t.looping \/ Len(increases) >= crashLoopRestarts
        quiet == looping /\ now - last >= pm2LoopQuiet
    IN [t EXCEPT !.last = count, !.lastIncrease = last,
                 !.looping = looping /\ ~quiet,
                 !.increases = IF quiet THEN <<>> ELSE increases]

\* What pm2-list tells of the app: its status and its restart count, which a
\* PM2 restart sets back.
Apps == [status : {"online", "stopped", "errored"}, restarts : 0 .. 2]

\* A user whose apps cannot be listed holds; an app that is missing fails and
\* its track is dropped.
PM2 ==
    /\ Evaluates("pm2")
    /\ \/ Unanswered("hold")
       \/ Judge(TRUE, 0, NoApp)
       \/ \E app \in Apps : LET m == observe(mem, app.restarts)
                          IN Judge(app.status # "online" \/ m.looping, 0, m)

-----------------------------------------------------------------------------
(* systemd_unit, systemd_timer_failed, job_freshness, port_listening and    *)
(* process_running: no memory, one look.                                    *)

States == {"active", "inactive", "failed"}

\* A unit picked by name should be running; the others page on failure only.
\* Oneshot and transient units are left out.
Systemd ==
    /\ Evaluates("systemd")
    /\ \/ Unanswered("error")          \* no systemd, or the listing failed
       \/ \E active, sub \in States, ignored \in BOOLEAN :
             IF ignored
             THEN Report("absent", TRUE, Best, mem) /\ UNCHANGED <<host, announced>>
             ELSE Judge("failed" \in {active, sub} \/ (named /\ active = "inactive"),
                        0, mem)

\* The properties "systemctl show" prints of a service, a block per unit.
show == [state : States, result : {"", "success", "exit-code"}]

\* Three commands, any of which may fail; a timer that is not listed, or beyond
\* the first 200, is left out, and a service "systemctl show" does not answer
\* for is held.
Timer ==
    /\ Evaluates("timer")
    /\ \/ Unanswered("error")
       \/ Report("absent", TRUE, Best, mem) /\ UNCHANGED <<host, announced>>
       \/ Unanswered("hold")
       \/ \E p \in show :
             Judge(\/ p.state = "failed"
                   \/ p.state = "inactive" /\ p.result \notin {"", "success"}, 0, mem)

\* The newest file that matches; one that cannot be read is as good as absent.
JobFreshness ==
    /\ Evaluates("job")
    /\ \/ Unanswered("error")          \* a malformed pattern
       \/ \E files \in SUBSET [age : Levels, size : {0, 2}] :
             LET newest == Min({f.age : f \in files})
                 Ties == {f \in files : f.age = newest}
             IN IF files = {}
                THEN Report("fail", FALSE, 0, mem) /\ UNCHANGED <<host, announced>>
                ELSE \E f \in Ties :
                        Judge(f.age > param(2) \/ f.size < def.param, 0, mem)

\* The highest port there is.
maxPort == 65535

Sockets == [addr : {"any", "loopback", "ip", "other"}, proto : {"tcp", "udp"},
            port : {80, maxPort}]

\* A wildcard serves every host; a name that is no address cannot be told
\* apart from any.
socketMatchesHost(addr, h) ==
    \/ h \in {"", "name"} \/ addr = "any"
    \/ h = "localhost" /\ addr = "loopback"
    \/ h = "ip" /\ addr = "ip"

\* "host:port", ":port" or "port", with a port that exists.
ParsePortTarget(port) == port \in 1 .. maxPort

\* Some socket has the port and the protocol, and serves the host.
listening(socks, h, port, proto) ==
    \E s \in socks : /\ s.port = port
                     /\ proto \in {"any", s.proto}
                     /\ socketMatchesHost(s.addr, h)

\* A target that does not parse is held.
Port ==
    /\ Evaluates("port")
    /\ \/ Unanswered("error")
       \/ \E port \in {0, maxPort + 1} : ~ParsePortTarget(port) /\ Unanswered("hold")
       \/ \E h \in {"", "localhost", "ip", "name"}, proto \in {"tcp", "udp", "any"},
             socks \in kSubset(1, Sockets) \cup {{}}, port \in {80, maxPort} :
             /\ ParsePortTarget(port)
             /\ Judge(~listening(socks, h, port, proto), 0, mem)

\* By the base name of the executable or of the first word, or by any part of
\* the command line.
processMatches(p, contains) ==
    IF contains THEN p.mentions ELSE p.exe = "name" \/ p.first = "name"

Process ==
    /\ Evaluates("process")
    /\ \/ Unanswered("error")
       \/ \E contains \in BOOLEAN,
             procs \in SUBSET [exe : {"", "name"}, first : {"name", "other"},
                               mentions : BOOLEAN] :
             Judge({p \in procs : processMatches(p, contains)} = {}, 0, mem)

-----------------------------------------------------------------------------
(* reboot_detected: one failing verdict for every new boot id.              *)

\* The id the kernel gives this boot.
BootID == host.boot

BootReport(v, seen) ==
    /\ Report(v, seen, 0, mem)
    /\ announced' = IF v = "fail" THEN Append(announced, BootID) ELSE announced

\* Mutant: the boot is announced even when it could not be stored.
RebootUnstored ==
    /\ Evaluates("reboot")
    /\ \/ BootReport("error", FALSE) /\ UNCHANGED host
       \/ /\ BootReport(IF host.stored \in {0, host.boot} THEN "ok" ELSE "fail", TRUE)
          /\ \/ host' = [host EXCEPT !.stored = host.boot]
             \/ host.stored # 0 /\ UNCHANGED host

\* The id is stored before it is announced; the first one ever seen is not
\* announced.  Reading the id, the setting or writing it may fail.
Reboot ==
    /\ Evaluates("reboot")
    /\ \/ BootReport("error", FALSE) /\ UNCHANGED host
       \/ /\ host.stored \in {0, BootID}
          /\ BootReport("ok", TRUE)
          /\ host' = [host EXCEPT !.stored = BootID]
       \/ /\ host.stored \notin {0, BootID}
          /\ BootReport("fail", TRUE)
          /\ host' = [host EXCEPT !.stored = BootID]

-----------------------------------------------------------------------------
(* The world around the evaluator.                                         *)

Minute ==
    /\ now < MaxTime
    /\ now' = now + 1
    /\ UNCHANGED <<kind, def, named, mem, host, inEpisode, verdict, reading,
                   opened, announced>>

\* A definition is switched off or on again by the relay.
Toggle ==
    /\ def' = [def EXCEPT !.enabled = ~@]
    /\ UNCHANGED <<kind, named, now, mem, host, inEpisode, verdict, reading,
                   opened, announced>>

\* The agent restarts, alone or with the host.
Restart ==
    /\ mem' = memOf(kind)
    /\ \/ UNCHANGED host
       \/ /\ kind = "reboot" /\ host.boot < MaxBoots
          /\ host' = [host EXCEPT !.boot = @ + 1]
    /\ UNCHANGED <<kind, def, named, now, inEpisode, verdict, reading, opened,
                   announced>>

-----------------------------------------------------------------------------

\* Definitions the relay and the defaults send: any pair of thresholds, in the
\* right order or not.
Definitions(k) ==
    {d \in [fire : Levels, recover : Levels, param : 0 .. 1, enabled : {TRUE}] :
        /\ k \in Plain => d.fire = 0 /\ d.recover = 0
        /\ k # "job" => d.param = 0}

Init ==
    /\ kind \in Kinds
    /\ def \in Definitions(kind)
    /\ named \in (IF kind \in {"disk", "inode", "systemd", "log"} THEN BOOLEAN ELSE {TRUE})
    /\ now = 0
    /\ mem = memOf(kind)
    /\ host = [boot |-> 1, stored |-> 0]
    /\ inEpisode = FALSE
    /\ verdict = "none"
    /\ reading = [seen |-> TRUE, level |-> 0]
    /\ opened = 0
    /\ announced = <<>>

Evaluate ==
    \/ Skip \/ Disk \/ Memory \/ CPU \/ Load \/ DiskFill \/ LogSpike \/ CertFile
    \/ Cert \/ Docker \/ PM2 \/ Systemd \/ Timer \/ JobFreshness \/ Port
    \/ Process \/ Reboot

Next == Evaluate \/ Minute \/ Toggle \/ Restart

Spec == Init /\ [][Next]_vars

-----------------------------------------------------------------------------
(* Properties.                                                             *)

\* The hysteresis band is not upside down.  Only the Raw kinds can have it so:
\* they compare with the relay's values as they come, without thresholds.
Ordered == kind \in Raw => def.recover <= def.fire

\* Only evidence ends an episode.  A healthy verdict on a measured kind rests on
\* a reading better than the one that opened it, so that a value inside the
\* hysteresis band does not make the monitor flap: for cpu, load, log, disk fill
\* and certificates whatever thresholds the relay sends, for disk, inode and
\* memory when it sends a recovery value that is not beyond the firing value.
\* And for every kind and definition, a source that does not answer never makes
\* a target healthy that was not (evalThreshold, thresholds, and the hold, fail
\* or error of every evaluator).
EpisodeEndsOnEvidence ==
    [][(inEpisode /\ verdict' = "ok")
          => /\ kind \notin Plain /\ Ordered => reading'.level < opened
             /\ reading'.seen \/ verdict \in {"ok", "absent"}]_vars

\* A reboot is announced at most once, and the first boot the agent sees not at
\* all, however often storing the boot id fails or the agent restarts.
RebootAnnouncedOnce ==
    IsInjective(announced) /\ 1 \notin Range(announced)

\* The target of an episode is never left out of the report because its source
\* failed: "A failed collector is not a healthy reading".
SilenceNeverHeals ==
    [][(inEpisode /\ def.enabled /\ ~reading'.seen /\ reading' # reading)
          => verdict' # "absent"]_vars
=============================================================================
