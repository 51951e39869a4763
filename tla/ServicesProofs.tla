----------------------------- MODULE ServicesProofs ----------------------------
(* What a step of the catalog may do to its host, what the request-id cache    *)
(* keeps apart, and what the tables of the store keep: the promises of         *)
(* HostSteps, ReplayCache and StoreTables, the modules MCServices instantiates *)
(* as Steps, Cache and Tables, for any number of happenings on the host and    *)
(* polls, any request ids, any room and TTL of the cache, and any projects.    *)
(* At the end, that the composition of all services, ServicesSpec, keeps what  *)
(* is proved here and in ClientProofs and MonitorEngineProofs of its parts.    *)
EXTENDS ClientProofs, MonitorEngineProofs, WellFoundedInduction

--------------------------------------------------------------------------------
(* A step of the catalog: the inductive invariant.                             *)

StepTyped ==
    /\ step \in [id : Steps!Catalog, name : Steps!Names \cup Steps!Ports, root : BOOLEAN]
    /\ step.id \in Steps!UnitSteps => step.name \in Steps!Names
    /\ program \in [there : BOOLEAN, state : Steps!States, restarts : Nat, mixed : BOOLEAN]
    /\ look \in Int /\ blind \in Nat /\ steady \in BOOLEAN
    /\ open \in [running : BOOLEAN, saved : BOOLEAN]
    /\ sshAlways \in BOOLEAN

Compared == Steps!Twice \cup {"compose.up"}

(* Between the two looks at a program, no restart since the first is a count   *)
(* that has not grown; and there is a first look only then.                    *)
LooksInv ==
    /\ pc \notin {"settle", "verified", "failed"} => look = -1
    /\ pc = "settle" => /\ step.id \in Compared
                        /\ blind = 0 => /\ look \in Nat /\ program.restarts >= look
                                        /\ steady \/ program.restarts > look
    /\ Steps!VerifiedIsSteady

(* A process number is never the meant one's again, and what is signalled was  *)
(* pinned while it was.                                                        *)
SignalsInv ==
    /\ pc = "pinned" /\ process = "meant" => pinned = "meant"
    /\ pc \in {"term", "termed", "kill", "killed"} => pinned = "meant"
    /\ Steps!OnlyTheMeantIsSignalled

(* A rule of sshd's port is only removed after a lookup failed; of port 22, not *)
(* when all did.                                                               *)
Unseen == unread # {} /\ (step.name = "22" => unread # Steps!SSHUses)
AccessInv ==
    /\ sshAlways => sshd # {}
    /\ pc = "removeRule" => (sshAlways => Unseen) /\ step.id = "firewall.remove"
    /\ pc = "saveRule" /\ step.id = "firewall.remove" => (sshAlways => Unseen)
    /\ pc = "saveRule" => step.id \in {"firewall.allow", "firewall.remove"}

StepInv == StepTyped /\ LooksInv /\ SignalsInv /\ AccessInv

--------------------------------------------------------------------------------
(* A step of the catalog: the proof.                                           *)

(* A step begins without a look, a signal or a rule.                           *)
LEMMA InitStep == Steps!Init => StepInv
  <1> SUFFICES ASSUME Steps!Init PROVE StepInv
    OBVIOUS
  <1> USE DEF Steps!Init
  <1>1. StepTyped
    <2>1. step \in [id : Steps!Catalog, name : Steps!Names \cup Steps!Ports, root : BOOLEAN]
      OBVIOUS
    <2>2. step.id \in Steps!UnitSteps => step.name \in Steps!Names
      <3>1. step.id \in Steps!UnitSteps => step.id \notin Steps!FirewallSteps
        BY DEF Steps!UnitSteps, Steps!FirewallSteps
      <3> QED BY <3>1
    <2>3. program \in [there : BOOLEAN, state : Steps!States, restarts : Nat, mixed : BOOLEAN]
      <3>1. program \in [there : BOOLEAN, state : Steps!States, restarts : {0}, mixed : BOOLEAN]
        OBVIOUS
      <3> QED BY <3>1
    <2>4. open \in [running : BOOLEAN, saved : BOOLEAN]
      OBVIOUS
    <2>5. look \in Int /\ blind \in Nat /\ steady \in BOOLEAN /\ sshAlways \in BOOLEAN
      OBVIOUS
    <2> QED BY <2>1, <2>2, <2>3, <2>4, <2>5 DEF StepTyped
  <1>2. LooksInv /\ SignalsInv /\ AccessInv
    BY DEF LooksInv, SignalsInv, AccessInv, Unseen, Steps!VerifiedIsSteady, Steps!OnlyTheMeantIsSignalled
  <1> QED BY <1>1, <1>2 DEF StepInv

(* Validation moves on, whatever it finds.                                     *)
LEMMA ValidateKeeps ==
    ASSUME StepInv, Steps!Validate
    PROVE  StepInv'
  <1>1. /\ pc = "validate" /\ pc' \in {"run", "failed"}
        /\ UNCHANGED <<step, program, look, blind, steady, open, sshAlways, sshd, process,
                       pinned, signalled, unread>>
    BY DEF Steps!Validate, Steps!Goto, Steps!Keep, Steps!hostVars
  <1> QED
    BY <1>1 DEF StepInv, StepTyped, LooksInv, SignalsInv, AccessInv, Unseen, Steps!VerifiedIsSteady,
       Steps!OnlyTheMeantIsSignalled

(* A command that changes its program, and a clean-up, look at nothing yet.    *)
LEMMA RunKeeps ==
    ASSUME StepInv, Steps!RunProgram
    PROVE  StepInv'
  <1>1. /\ pc = "run" /\ pc' \in {"verify", "failed"}
        /\ \/ program' = program
           \/ \E s \in Steps!States : program' = [program EXCEPT !.state = s]
        /\ UNCHANGED <<step, look, blind, steady, open, sshAlways, sshd, process,
                       pinned, signalled, unread>>
    <2>1. program.state \in Steps!States
      BY DEF StepInv, StepTyped
    <2>2. ASSUME NEW allowed, NEW s \in Steps!States, Steps!Command(allowed, s)
          PROVE  /\ pc' \in {"verify", "failed"}
                 /\ program' = program \/ program' = [program EXCEPT !.state = s]
                 /\ UNCHANGED <<step, look, blind, steady, open, sshAlways, sshd, process,
                                pinned, signalled, unread>>
      BY <2>2 DEF Steps!Command, Steps!Goto, Steps!Keep, Steps!Fails, Steps!hostVars
    <2>3. CASE Steps!serviceAction
      BY <2>1, <2>2, <2>3 DEF Steps!serviceAction, Steps!States
    <2>4. CASE Steps!reloadNginx
      BY <2>1, <2>2, <2>4 DEF Steps!reloadNginx
    <2>5. CASE Steps!ContainerRestart
      BY <2>2, <2>5 DEF Steps!ContainerRestart, Steps!States
    <2>6. CASE Steps!ComposeUp
      BY <2>1, <2>2, <2>6 DEF Steps!ComposeUp, Steps!States
    <2>7. CASE Steps!pm2Restart
      BY <2>2, <2>7 DEF Steps!pm2Restart, Steps!States
    <2>8. CASE Steps!supervisorRestart
      BY <2>2, <2>8 DEF Steps!supervisorRestart, Steps!States
    <2>9. CASE Steps!Cleanup
      BY <2>9 DEF Steps!Cleanup, Steps!Keep
    <2>10. CASE Steps!CheckHTTP
      BY <2>10 DEF Steps!CheckHTTP, Steps!Goto, Steps!Keep, Steps!hostVars
    <2> QED BY <2>3, <2>4, <2>5, <2>6, <2>7, <2>8, <2>9, <2>10 DEF Steps!RunProgram
  <1>2. program' \in [there : BOOLEAN, state : Steps!States, restarts : Nat, mixed : BOOLEAN]
    BY <1>1 DEF StepInv, StepTyped
  <1> QED
    BY <1>1, <1>2 DEF StepInv, StepTyped, LooksInv, SignalsInv, AccessInv,
       Unseen, Steps!VerifiedIsSteady, Steps!OnlyTheMeantIsSignalled

(* process.stop signals what it pinned, while that is the one that was meant.  *)
LEMMA StopKeeps ==
    ASSUME StepInv, Steps!processStop
    PROVE  StepInv'
  <1> USE DEF StepInv
  <1>0. UNCHANGED <<step, program, look, blind, steady, open, sshAlways, sshd, unread>>
    BY DEF Steps!processStop, Steps!OpenProcess, Steps!CheckProcess, Steps!Signal,
       Steps!Reach, Steps!AwaitExit, Steps!Keep, Steps!hostVars
  <1>1. /\ pc \in {"run", "pinned", "term", "termed", "kill", "killed"}
        /\ pc' \in {"pinned", "term", "termed", "kill", "killed", "failed", "verify"}
        /\ pc # "run" => pc' # "pinned"
    BY DEF Steps!processStop, Steps!OpenProcess, Steps!CheckProcess, Steps!Signal,
       Steps!AwaitExit, Steps!Goto
  <1>2. StepTyped' /\ LooksInv' /\ AccessInv'
    BY <1>0, <1>1 DEF StepTyped, LooksInv, AccessInv, Unseen, Steps!VerifiedIsSteady
  <1>3. SignalsInv'
    <2> USE DEF SignalsInv, Steps!OnlyTheMeantIsSignalled
    <2>1. CASE Steps!OpenProcess
      BY <2>1 DEF Steps!OpenProcess, Steps!Goto, Steps!hostVars
    <2>2. CASE Steps!CheckProcess
      BY <2>2 DEF Steps!CheckProcess, Steps!protectedPID, Steps!Goto, Steps!Keep, Steps!hostVars
    <2>3. CASE Steps!Signal("term", "termed") \/ Steps!Signal("kill", "killed")
      BY <2>3 DEF Steps!Signal, Steps!Reach, Steps!Goto
    <2>4. CASE Steps!AwaitExit
      BY <2>4 DEF Steps!AwaitExit, Steps!Goto, Steps!Keep, Steps!hostVars
    <2> QED BY <2>1, <2>2, <2>3, <2>4 DEF Steps!processStop
  <1> QED BY <1>2, <1>3

(* A rule is added, or removed after no lookup found sshd to use the port.     *)
LEMMA FirewallKeeps ==
    ASSUME StepInv, Steps!firewallChange
    PROVE  StepInv'
  <1> USE DEF StepInv
  <1>0. /\ UNCHANGED <<step, program, look, blind, steady, sshAlways, sshd, process, pinned,
                       signalled>>
        /\ open' \in [running : BOOLEAN, saved : BOOLEAN]
    BY DEF Steps!firewallChange, Steps!RuleAdd, Steps!RuleRemove, Steps!Remove, Steps!SaveRule,
       Steps!FirewallFails, Steps!Fails, Steps!Keep, Steps!hostVars, StepTyped
  <1>1. /\ pc \in {"run", "removeRule", "saveRule"}
        /\ pc' \in {"removeRule", "saveRule", "failed", "verify"}
    BY DEF Steps!firewallChange, Steps!RuleAdd, Steps!RuleRemove, Steps!Remove, Steps!SaveRule,
       Steps!FirewallFails, Steps!Fails, Steps!Goto
  <1>2. StepTyped' /\ LooksInv' /\ SignalsInv'
    BY <1>0, <1>1 DEF StepTyped, LooksInv, SignalsInv, Steps!VerifiedIsSteady,
       Steps!OnlyTheMeantIsSignalled
  <1>3. AccessInv'
    <2>1. CASE Steps!RuleRemove
      <3>1. PICK failed \in SUBSET Steps!SSHUses, elsewhere \in BOOLEAN :
               /\ failed = Steps!SSHUses => ~elsewhere
               /\ pc' = IF Steps!SSHPorts(failed, elsewhere) THEN "failed" ELSE "removeRule"
               /\ unread' = failed
        BY <2>1 DEF Steps!RuleRemove, Steps!Goto
      <3>2. sshAlways /\ ~Steps!SSHPorts(failed, elsewhere) => Unseen'
        BY <1>0, <3>1 DEF AccessInv, Unseen, Steps!SSHPorts
      <3> QED BY <1>0, <2>1, <3>1, <3>2 DEF AccessInv, Unseen, Steps!RuleRemove
    <2>2. CASE Steps!RuleAdd \/ Steps!Remove \/ Steps!SaveRule \/ Steps!FirewallFails
      BY <1>0, <2>2 DEF AccessInv, Unseen, Steps!RuleAdd, Steps!Remove, Steps!SaveRule,
         Steps!FirewallFails, Steps!Fails, Steps!Goto, Steps!Keep
    <2> QED BY <2>1, <2>2 DEF Steps!firewallChange
  <1> QED BY <1>2, <1>3

(* A step that found the count of restarts twice saw no restart.               *)
LEMMA VerifyKeeps ==
    ASSUME StepInv, Steps!Verify
    PROVE  StepInv'
  <1> USE DEF StepInv
  <1>0. /\ UNCHANGED <<step, program, open, sshAlways, sshd, process, pinned, signalled, unread>>
        /\ pc \in {"verify", "settle"}
        /\ pc' \in {"verify", "settle", "verified", "failed"}
    BY DEF Steps!Verify, Steps!VerifyOnce, Steps!VerifyFails, Steps!FirstLook, Steps!SecondLook,
       Steps!Poll, Steps!Fails, Steps!Keep, Steps!Goto, Steps!hostVars
  <1>1. SignalsInv' /\ AccessInv'
    BY <1>0 DEF SignalsInv, AccessInv, Unseen, Steps!OnlyTheMeantIsSignalled
  <1>2. ASSUME NEW counted \in BOOLEAN
        PROVE  /\ Steps!Restarts(counted) \in Nat
               /\ Steps!Saw(counted) => blind' \in Nat
               /\ Steps!Saw(counted) /\ blind' = 0 =>
                     blind = 0 /\ Steps!Restarts(counted) = program.restarts
    BY DEF StepTyped, Steps!Restarts, Steps!Saw
  <1>3. StepTyped' /\ LooksInv'
    <2>1. CASE Steps!VerifyOnce \/ Steps!VerifyFails
      <3>1. UNCHANGED <<look, blind, steady>>
            /\ \/ pc' = "failed"
               \/ pc' \in {"verified", "failed"} /\ step.id \notin Compared
        BY <2>1 DEF Steps!VerifyOnce, Steps!VerifyFails, Steps!Fails, Steps!Keep, Steps!Goto,
           Compared
      <3> QED
        BY <1>0, <3>1 DEF StepTyped, LooksInv, Steps!VerifiedIsSteady, Compared
    <2>2. ASSUME NEW counted \in BOOLEAN, Steps!FirstLook(counted)
          PROVE  StepTyped' /\ LooksInv'
      <3>1. /\ pc' \in {"settle", "failed"} /\ step.id \in Compared
            /\ look' = Steps!Restarts(counted) /\ steady' = TRUE /\ Steps!Saw(counted)
        BY <2>2 DEF Steps!FirstLook, Steps!Goto, Compared
      <3> QED
        BY <1>0, <1>2, <3>1 DEF StepTyped, LooksInv, Steps!VerifiedIsSteady
    <2>3. ASSUME NEW counted \in BOOLEAN, Steps!SecondLook(counted)
          PROVE  StepTyped' /\ LooksInv'
      <3>1. /\ pc = "settle" /\ pc' \in {"verified", "failed"} /\ UNCHANGED <<look, steady>>
            /\ pc' = "verified" /\ step.id # "supervisor.restart" => Steps!Restarts(counted) = look
            /\ Steps!Saw(counted)
        BY <2>3 DEF Steps!SecondLook, Steps!Goto, Steps!KeptRunning
      <3> QED
        BY <1>0, <1>2, <3>1 DEF StepTyped, LooksInv, Steps!VerifiedIsSteady, Steps!Twice
    <2>4. ASSUME NEW counted \in BOOLEAN, Steps!Poll(counted)
          PROVE  StepTyped' /\ LooksInv'
      <3>1. /\ step.id = "compose.up" /\ Steps!Saw(counted)
            /\ \/ pc' = "failed" /\ UNCHANGED <<look, steady>>
               \/ pc' \in {"failed", "verify"} /\ look' = -1 /\ UNCHANGED steady
               \/ pc' = "settle" /\ look' = Steps!Restarts(counted) /\ steady' = TRUE
               \/ /\ look # -1 /\ pc' \in {"verified", "failed"} /\ UNCHANGED <<look, steady>>
                  /\ pc' = "verified" => Steps!Restarts(counted) = look
        BY <2>4 DEF Steps!Poll, Steps!Goto, Steps!KeptRunning, Steps!Active, StepTyped, Steps!States
      <3>2. look # -1 => pc = "settle"
        BY <1>0 DEF LooksInv
      <3> QED
        <4>1. CASE pc' = "failed" /\ UNCHANGED <<look, steady>>
          BY <1>0, <1>2, <3>1, <4>1 DEF StepTyped, LooksInv, Steps!VerifiedIsSteady
        <4>2. CASE pc' \in {"failed", "verify"} /\ look' = -1 /\ UNCHANGED steady
          BY <1>0, <1>2, <3>1, <4>2 DEF StepTyped, LooksInv, Steps!VerifiedIsSteady
        <4>3. CASE pc' = "settle" /\ look' = Steps!Restarts(counted) /\ steady' = TRUE
          <5>1. blind' = 0 => look' = program.restarts
            BY <1>2, <3>1, <4>3
          <5>2. look' \in Nat /\ blind' \in Nat /\ steady' = TRUE /\ step'.id \in Compared
            BY <1>0, <1>2, <3>1, <4>3 DEF Compared
          <5> QED
            BY <1>0, <4>3, <5>1, <5>2 DEF StepTyped, LooksInv, Steps!VerifiedIsSteady
        <4>4. CASE /\ look # -1 /\ pc' \in {"verified", "failed"} /\ UNCHANGED <<look, steady>>
                   /\ pc' = "verified" => Steps!Restarts(counted) = look
          <5>1. blind' = 0 => blind = 0 /\ (pc' = "verified" => look = program.restarts)
            BY <1>2, <3>1, <4>4
          <5>2. blind' \in Nat /\ pc = "settle"
            BY <1>2, <3>1, <3>2, <4>4
          <5> QED
            BY <1>0, <4>4, <5>1, <5>2 DEF StepTyped, LooksInv, Steps!VerifiedIsSteady
        <4> QED BY <3>1, <4>1, <4>2, <4>3, <4>4
    <2> QED BY <2>1, <2>2, <2>3, <2>4 DEF Steps!Verify
  <1> QED BY <1>1, <1>3

(* What the host does by itself: a restart between the looks is counted, and a *)
(* process number goes to somebody else.                                       *)
LEMMA HostKeeps ==
    ASSUME StepInv, Steps!Host
    PROVE  StepInv'
  <1> USE DEF StepInv
  <1>0. /\ UNCHANGED <<step, pc, look, blind, pinned, signalled, open, unread>>
        /\ pc \notin {"verified", "failed"}
    BY DEF Steps!Host, Steps!Happens, Steps!Crash, Steps!Changes, Steps!Reuse, Steps!SSHChanges
  <1>1. \/ UNCHANGED <<program, steady>>
        \/ /\ program' \in [there : BOOLEAN, state : Steps!States, restarts : Nat, mixed : BOOLEAN]
           /\ program'.restarts = program.restarts /\ steady' = steady
        \/ /\ program' \in [there : BOOLEAN, state : Steps!States, restarts : Nat, mixed : BOOLEAN]
           /\ program'.restarts = program.restarts + 1 /\ steady' = FALSE
    <2>1. ASSUME NEW s \in Steps!States, Steps!Crash(s)
          PROVE  /\ program' \in [there : BOOLEAN, state : Steps!States, restarts : Nat, mixed : BOOLEAN]
                 /\ \/ program'.restarts = program.restarts /\ steady' = steady
                    \/ program'.restarts = program.restarts + 1 /\ steady' = FALSE
      <3> DEFINE n == IF s = "stopped" THEN program.restarts ELSE program.restarts + 1
      <3>1. /\ n \in Nat /\ program' = [program EXCEPT !.state = s, !.restarts = n]
            /\ steady' = (steady /\ s = "stopped")
        BY <2>1 DEF Steps!Crash, StepTyped
      <3>2. \/ n = program.restarts /\ s = "stopped"
            \/ n = program.restarts + 1 /\ s # "stopped"
        OBVIOUS
      <3> HIDE DEF n
      <3>3. program'.restarts = n
            /\ program' \in [there : BOOLEAN, state : Steps!States, restarts : Nat, mixed : BOOLEAN]
        BY <3>1 DEF StepTyped
      <3>4. steady' = IF s = "stopped" THEN steady ELSE FALSE
        BY <3>1 DEF StepTyped
      <3> QED BY <3>2, <3>3, <3>4
    <2>2. ASSUME NEW s \in Steps!States, Steps!Changes(s)
          PROVE  /\ program' \in [there : BOOLEAN, state : Steps!States, restarts : Nat, mixed : BOOLEAN]
                 /\ program'.restarts = program.restarts /\ steady' = steady
      BY <2>2 DEF Steps!Changes, StepTyped
    <2>3. ASSUME Steps!Reuse("other") \/ \E uses \in SUBSET Steps!SSHUses : Steps!SSHChanges(uses)
          PROVE  UNCHANGED <<program, steady>>
      BY <2>3 DEF Steps!Reuse, Steps!SSHChanges
    <2> QED BY <2>1, <2>2, <2>3 DEF Steps!Host
  <1>2. StepTyped' /\ LooksInv'
    <2>1. program.restarts \in Nat /\ steady' \in BOOLEAN /\ sshAlways' \in BOOLEAN
      BY <1>1 DEF StepTyped, Steps!Host, Steps!Crash, Steps!Changes, Steps!Reuse, Steps!SSHChanges
    <2> QED BY <1>0, <1>1, <2>1 DEF StepTyped, LooksInv, Steps!VerifiedIsSteady
  <1>3. SignalsInv'
    <2>1. process' \in {process, "other", None}
      BY DEF Steps!Host, Steps!Crash, Steps!Changes, Steps!Reuse, Steps!SSHChanges, Steps!None, None
    <2> QED BY <1>0, <2>1 DEF SignalsInv, Steps!OnlyTheMeantIsSignalled, None
  <1>4. AccessInv'
    <2>1. \/ UNCHANGED <<sshd, sshAlways>>
          \/ sshAlways' => sshAlways /\ sshd' # {}
      BY DEF Steps!Host, Steps!Crash, Steps!Changes, Steps!Reuse, Steps!SSHChanges
    <2> QED BY <1>0, <2>1 DEF AccessInv, Unseen
  <1> QED BY <1>2, <1>3, <1>4

(* Every step preserves the inductive invariant.                               *)
LEMMA StepNext ==
    ASSUME StepInv, [Steps!Next]_(Steps!vars)
    PROVE  StepInv'
  <1>1. CASE UNCHANGED Steps!vars
    BY <1>1 DEF Steps!vars, Steps!hostVars, Steps!stepVars, StepInv, StepTyped, LooksInv,
       SignalsInv, AccessInv, Unseen, Steps!VerifiedIsSteady, Steps!OnlyTheMeantIsSignalled
  <1> QED
    BY <1>1, ValidateKeeps, RunKeeps, StopKeeps, FirewallKeeps, VerifyKeeps, HostKeeps
    DEF Steps!Next

(* Types, and the strengthening, for any number of happenings and polls.       *)
THEOREM StepInductive == Steps!Spec => []StepInv
  BY InitStep, StepNext, PTL DEF Steps!Spec

(* VerifiedIsSteady: what is verified after two looks was not restarted by its *)
(* supervisor in between, unless a look found no count of restarts.            *)
THEOREM SteadyIsSteady == Steps!Spec => []VerifiedIsSteady
  <1>1. StepInv => VerifiedIsSteady
    BY DEF StepInv, LooksInv, VerifiedIsSteady
  <1> QED BY <1>1, StepInductive, PTL

(* OnlyTheMeantIsSignalled: a signal reaches only the process that was meant,  *)
(* however often its number is given to another.                               *)
THEOREM SignalsReachTheMeant == Steps!Spec => []OnlyTheMeantIsSignalled
  <1>1. StepInv => OnlyTheMeantIsSignalled
    BY DEF StepInv, SignalsInv, OnlyTheMeantIsSignalled
  <1> QED BY <1>1, StepInductive, PTL

(* AccessIsKept: no use of the port by sshd that could be looked up is passed   *)
(* over (RuleRemove), so that a port it has used all along stays open unless a *)
(* lookup failed; and a protected unit is left alone, but for an alias of one  *)
(* when the agent runs as root.                                                *)
THEOREM AccessStays == Steps!Spec => AccessIsKept
  <1> DEFINE Kept == /\ pc = "run" /\ pc' = "removeRule" => sshd \subseteq unread'
                     /\ sshAlways /\ Steps!Closes =>
                           unread # {} /\ (step.name = "22" => unread # Steps!SSHUses)
                     /\ Steps!serviceAction /\ pc' = "verify" =>
                           step.name = "app" \/ (step.root /\ step.name = "alias")
  <1>1. ASSUME StepInv, [Steps!Next]_(Steps!vars)
        PROVE  [Kept]_(Steps!vars)
    <2> USE DEF StepInv
    <2>1. Steps!serviceAction /\ pc' = "verify" => step.name = "app" \/ (step.root /\ step.name = "alias")
      <3>1. ASSUME NEW allowed, NEW s, Steps!Command(allowed, s), pc' = "verify"
            PROVE  allowed
        BY <3>1 DEF Steps!Command, Steps!Fails
      <3>2. step.id \in Steps!UnitSteps /\ Steps!runUnitAction =>
               step.name = "app" \/ (step.root /\ step.name = "alias")
        BY <1>1 DEF Steps!runUnitAction, Steps!checkUnit, Steps!CheckUnitAllowed,
           Steps!IsProtectedUnit, Steps!Canonical, StepTyped, Steps!Names
      <3> QED BY <3>1, <3>2 DEF Steps!serviceAction
    <2>3. pc = "run" /\ pc' = "removeRule" => sshd \subseteq unread'
      <3>1. pc = "run" /\ pc' = "removeRule" => Steps!RuleRemove
        BY <1>1 DEF Steps!Next, Steps!Validate, Steps!RunProgram, Steps!serviceAction,
           Steps!reloadNginx, Steps!ContainerRestart, Steps!ComposeUp, Steps!pm2Restart,
           Steps!supervisorRestart, Steps!Cleanup, Steps!CheckHTTP, Steps!Command, Steps!Fails,
           Steps!processStop, Steps!OpenProcess, Steps!CheckProcess, Steps!Signal, Steps!Goto,
           Steps!AwaitExit, Steps!Verify, Steps!VerifyOnce, Steps!VerifyFails, Steps!FirstLook,
           Steps!SecondLook, Steps!Poll, Steps!Host, Steps!Happens, Steps!Crash, Steps!Changes,
           Steps!Reuse, Steps!SSHChanges, Steps!vars, Steps!stepVars, Steps!firewallChange,
           Steps!RuleAdd, Steps!Remove, Steps!SaveRule, Steps!FirewallFails
      <3>2. Steps!RuleRemove /\ pc' = "removeRule" => sshd \subseteq unread'
        <4>1. ASSUME NEW failed, NEW elsewhere, ~Steps!SSHPorts(failed, elsewhere)
              PROVE  sshd \subseteq failed
          BY <4>1 DEF Steps!SSHPorts
        <4> QED BY <4>1 DEF Steps!RuleRemove, Steps!Goto
      <3> QED BY <3>1, <3>2
    <2>2. sshAlways /\ Steps!Closes => Unseen
      <3>1. CASE UNCHANGED open
        BY <3>1 DEF Steps!Closes
      <3>2. CASE Steps!firewallChange
        <4>1. CASE Steps!SaveRule
          <5>1. step.id = "firewall.allow" \/ ~sshAlways \/ Unseen
            BY <1>1, <4>1 DEF AccessInv, Steps!SaveRule
          <5>2. step.id = "firewall.allow" => open'.running = open.running /\ open'.saved = TRUE
            BY <1>1, <4>1 DEF Steps!SaveRule, StepTyped
          <5> QED BY <5>1, <5>2 DEF Steps!Closes
        <4>2. CASE Steps!Remove
          BY <1>1, <4>2 DEF Steps!Remove, AccessInv
        <4>3. CASE Steps!RuleAdd
          <5>1. open'.running = TRUE /\ open'.saved = open.saved
            BY <1>1, <4>3 DEF Steps!RuleAdd, StepTyped
          <5> QED BY <5>1 DEF Steps!Closes
        <4>4. CASE Steps!RuleRemove \/ Steps!FirewallFails
          <5>1. UNCHANGED open
            BY <4>4 DEF Steps!RuleRemove, Steps!FirewallFails, Steps!Fails, Steps!hostVars
          <5> QED BY <5>1 DEF Steps!Closes
        <4> QED BY <3>2, <4>1, <4>2, <4>3, <4>4 DEF Steps!firewallChange
      <3>3. Steps!Next /\ ~Steps!firewallChange => UNCHANGED open
        BY DEF Steps!Next, Steps!Validate, Steps!RunProgram, Steps!serviceAction,
           Steps!reloadNginx, Steps!ContainerRestart, Steps!ComposeUp, Steps!pm2Restart,
           Steps!supervisorRestart, Steps!Cleanup, Steps!CheckHTTP, Steps!Command, Steps!Fails,
           Steps!processStop, Steps!OpenProcess, Steps!CheckProcess, Steps!Signal, Steps!Reach,
           Steps!AwaitExit, Steps!Verify, Steps!VerifyOnce, Steps!VerifyFails, Steps!FirstLook,
           Steps!SecondLook, Steps!Poll, Steps!Host, Steps!Happens, Steps!Crash, Steps!Changes,
           Steps!Reuse, Steps!SSHChanges, Steps!hostVars
      <3>4. UNCHANGED Steps!vars => UNCHANGED open
        BY DEF Steps!vars, Steps!hostVars
      <3> QED BY <1>1, <3>1, <3>2, <3>3, <3>4
    <2> QED BY <2>1, <2>2, <2>3 DEF Unseen
  <1> QED BY <1>1, StepInductive, PTL DEF Steps!Spec, AccessIsKept, Steps!AccessIsKept

--------------------------------------------------------------------------------
(* The request-id cache: the inductive invariant.                              *)

CacheTyped ==
    /\ seen \in [Requests -> -1..(TTL + 1)]
    /\ last \in [Requests -> -1..(TTL + 1)]

(* The ids that ever came, and those that came since i's last frame.           *)
Known(l) == {j \in Requests : l[j] # -1}
Since(l, i) == {j \in Requests \ {i} : l[j] \in 0..l[i]}

(* An entry is as old as its id's last frame, and a recent id without one had  *)
(* to make room for as many others as there is room for.                       *)
CacheInv ==
    /\ CacheTyped
    /\ IsFiniteSet(Known(last))
    /\ \A i \in Requests :
          /\ seen[i] # -1 => seen[i] = last[i]
          /\ last[i] \in 0..TTL =>
                seen[i] = last[i] \/ Cap <= Cardinality(Since(last, i))

--------------------------------------------------------------------------------
(* The request-id cache: the proof.                                            *)

(* The cache counts as everybody does.                                         *)
LEMMA Counts == \A S : Cache!Cardinality(S) = Cardinality(S)
  BY DEF Cache!Cardinality, Cardinality

(* A set of ids that came since another did not shrink.                        *)
LEMMA MoreSince ==
    ASSUME NEW S, NEW T, IsFiniteSet(T), S \subseteq T, Cap <= Cardinality(S)
    PROVE  Cap <= Cardinality(T)
  <1>1. IsFiniteSet(S) /\ Cardinality(S) <= Cardinality(T)
    BY FS_Subset
  <1>2. Cardinality(S) \in Nat /\ Cardinality(T) \in Nat
    BY <1>1, FS_CardinalityType
  <1> QED BY <1>1, <1>2, CacheAssumption

(* Only ids that came count.                                                   *)
LEMMA SinceIsFinite ==
    ASSUME NEW l, IsFiniteSet(Known(l)), NEW i
    PROVE  IsFiniteSet(Since(l, i))
  <1>1. Since(l, i) \subseteq Known(l)
    BY DEF Since, Known
  <1> QED BY <1>1, FS_Subset

(* An empty cache has seen nothing.                                            *)
LEMMA InitCache == Cache!Init => CacheInv
  <1> SUFFICES ASSUME Cache!Init PROVE CacheInv
    OBVIOUS
  <1>1. /\ seen = [i \in Requests |-> -1] /\ last = [i \in Requests |-> -1]
    BY DEF Cache!Init, Cache!None
  <1>2. Known(last) = {}
    BY <1>1 DEF Known
  <1> QED BY <1>1, <1>2, FS_EmptySet, CacheAssumption DEF CacheInv, CacheTyped

(* Entries and frames age alike.                                               *)
LEMMA TickKeeps ==
    ASSUME CacheInv, Cache!Tick
    PROVE  CacheInv'
  <1>0. TTL \in Nat /\ CacheTyped
    BY CacheAssumption DEF CacheInv
  <1>1. ASSUME NEW a \in -1..(TTL + 1)
        PROVE  /\ Cache!Older(a) \in -1..(TTL + 1)
               /\ Cache!Older(a) = IF a = -1 \/ a = TTL + 1 THEN a ELSE a + 1
    BY <1>0, <1>1 DEF Cache!Older, Cache!None
  <1>2. \A i \in Requests :
           /\ seen'[i] = Cache!Older(seen[i]) /\ seen[i] \in -1..(TTL + 1)
           /\ last'[i] = Cache!Older(last[i]) /\ last[i] \in -1..(TTL + 1)
    BY <1>0 DEF Cache!Tick, CacheTyped
  <1>3. CacheTyped'
    BY <1>0, <1>1 DEF Cache!Tick, CacheTyped
  <1>4. \A i \in Requests : last'[i] = -1 <=> last[i] = -1
    BY <1>0, <1>1, <1>2
  <1>5. Known(last)' = Known(last)
    BY <1>4 DEF Known
  <1>6. IsFiniteSet(Known(last))'
    BY <1>5 DEF CacheInv
  <1>7. ASSUME NEW i \in Requests
        PROVE  /\ seen'[i] # -1 => seen'[i] = last'[i]
               /\ last'[i] \in 0..TTL =>
                     seen'[i] = last'[i] \/ Cap <= Cardinality(Since(last, i)')
    <2>1. seen'[i] # -1 => seen[i] # -1
      BY <1>0, <1>1, <1>2
    <2>2. seen[i] = last[i] => seen'[i] = last'[i]
      BY <1>2
    <2>3. ASSUME last'[i] \in 0..TTL, Cap <= Cardinality(Since(last, i))
          PROVE  Cap <= Cardinality(Since(last, i)')
      <3>1. Since(last, i) \subseteq Since(last, i)'
        <4> SUFFICES ASSUME NEW j \in Requests \ {i}, last[j] \in 0..last[i]
                     PROVE  last'[j] \in 0..last'[i]
          BY DEF Since
        <4>1. /\ last'[i] = (IF last[i] = -1 \/ last[i] = TTL + 1 THEN last[i] ELSE last[i] + 1)
              /\ last'[j] = (IF last[j] = -1 \/ last[j] = TTL + 1 THEN last[j] ELSE last[j] + 1)
              /\ last[i] \in -1..(TTL + 1) /\ last[j] \in -1..(TTL + 1)
          BY <1>1, <1>2
        <4> QED BY <1>0, <2>3, <4>1
      <3>2. IsFiniteSet(Since(last, i)')
        BY <1>6, SinceIsFinite
      <3> QED BY <2>3, <3>1, <3>2, MoreSince
    <2>4. last'[i] \in 0..TTL => last[i] \in 0..TTL
      BY <1>0, <1>1, <1>2
    <2> QED BY <2>1, <2>2, <2>3, <2>4 DEF CacheInv
  <1> QED BY <1>3, <1>6, <1>7 DEF CacheInv

(* A frame: what it evicts is older than all that stays, and there are as many *)
(* of those as there is room for.                                              *)
LEMMA AddKeeps ==
    ASSUME CacheInv, NEW id \in Requests, Cache!handleWS(id)
    PROVE  CacheInv'
  <1> DEFINE s == Cache!Swept
             H == {j \in Requests : s[j] # -1}
  <1>0. TTL \in Nat /\ Cap \in Nat /\ CacheTyped
    BY CacheAssumption DEF CacheInv
  <1>1. /\ s \in [Requests -> -1..(TTL + 1)]
        /\ \A j \in Requests : /\ s[j] \in {-1, seen[j]}
                               /\ seen[j] \in 0..TTL => s[j] = seen[j]
    <2>1. \A j \in Requests : seen[j] \in -1..(TTL + 1)
      BY <1>0 DEF CacheTyped
    <2>2. CASE Cache!Collect
      <3>1. s = [j \in Requests |-> IF seen[j] > TTL THEN -1 ELSE seen[j]]
        BY <2>2 DEF Cache!Swept, Cache!None
      <3> HIDE DEF s
      <3> QED BY <1>0, <2>1, <3>1
    <2>3. CASE ~Cache!Collect
      <3>1. s = seen
        BY <2>3 DEF Cache!Swept
      <3> QED BY <1>0, <3>1 DEF CacheTyped
    <2> QED BY <2>2, <2>3
  <1>2. /\ last' = [last EXCEPT ![id] = 0]
        /\ \/ seen' = [s EXCEPT ![id] = 0]
           \/ /\ s[id] \notin 0..TTL /\ Cardinality(H) >= Cap
              /\ \E old \in H : /\ \A j \in H : s[j] <= s[old]
                               /\ seen' = [s EXCEPT ![old] = -1, ![id] = 0]
    <2>1. /\ last' = [last EXCEPT ![id] = 0] /\ H = Cache!Held(s)
          /\ IF ~Cache!Replay(id) /\ Cardinality(Cache!Held(s)) >= Cap
             THEN \E old \in Cache!Evicted(s) : seen' = [s EXCEPT ![old] = -1, ![id] = 0]
             ELSE seen' = [s EXCEPT ![id] = 0]
      BY Counts DEF Cache!handleWS, Cache!add, Cache!Held, Cache!None
    <2>2. Cache!Replay(id) <=> s[id] \in 0..TTL
      BY DEF Cache!Replay
    <2> HIDE DEF s
    <2>3. Cache!Evicted(s) = {i \in H : \A j \in H : s[j] <= s[i]}
      BY <2>1 DEF Cache!Evicted
    <2> QED BY <2>1, <2>2, <2>3
  <1> HIDE DEF s
  <1>3. /\ last'[id] = 0 /\ seen'[id] = 0
        /\ \A j \in Requests \ {id} : last'[j] = last[j] /\ seen'[j] \in {-1, s[j]}
    BY <1>0, <1>1, <1>2 DEF CacheTyped
  <1>4. CacheTyped'
    <2>1. 0 \in -1..(TTL + 1) /\ -1 \in -1..(TTL + 1)
      BY <1>0
    <2> QED BY <1>0, <1>1, <1>2, <2>1 DEF CacheTyped
  <1>5. IsFiniteSet(Known(last)) /\ IsFiniteSet(Known(last)')
    <2>1. Known(last)' \subseteq Known(last) \cup {id}
      BY <1>3 DEF Known
    <2>2. IsFiniteSet(Known(last) \cup {id})
      BY FS_AddElement DEF CacheInv
    <2> QED BY <2>1, <2>2, FS_Subset DEF CacheInv
  <1>6. ASSUME NEW i \in Requests, i # id, last[i] \in 0..TTL
        PROVE  seen'[i] = last[i] \/ Cap <= Cardinality(Since(last, i)')
    <2>1. IsFiniteSet(Since(last, i)')
      BY <1>5, SinceIsFinite
    <2>2. CASE Cap <= Cardinality(Since(last, i))
      <3>1. Since(last, i) \subseteq Since(last, i)'
        BY <1>3, <1>6 DEF Since
      <3> QED BY <2>1, <2>2, <3>1, MoreSince
    <2>3. CASE seen[i] = last[i]
      <3>1. s[i] = last[i]
        BY <1>1, <1>6, <2>3
      <3>2. CASE seen'[i] = s[i]
        BY <3>1, <3>2
      <3>3. CASE seen'[i] # s[i]
        <4>1. /\ s[id] \notin 0..TTL /\ Cardinality(H) >= Cap
              /\ i \in H /\ \A j \in H : s[j] <= s[i]
          BY <1>1, <1>2, <1>6, <3>3
        <4>2. id \notin H
          BY <1>0, <1>1, <1>6, <3>1, <4>1
        <4>3. (H \ {i}) \cup {id} \subseteq Since(last, i)'
          <5>1. id \in Since(last, i)'
            BY <1>3, <1>6 DEF Since
          <5>2. ASSUME NEW j \in H \ {i}
                PROVE  j \in Since(last, i)'
            <6>1. j # id /\ s[j] = last[j] /\ s[j] # -1
              BY <1>1, <4>2 DEF CacheInv
            <6>2. last[j] \in 0..last[i]
              BY <1>0, <1>1, <1>6, <3>1, <4>1, <6>1
            <6> QED BY <1>3, <1>6, <6>1, <6>2 DEF Since
          <5> QED BY <5>1, <5>2
        <4>4. IsFiniteSet(H)
          <5>1. H \subseteq Known(last)
            BY <1>1 DEF CacheInv, Known
          <5> QED BY <1>5, <5>1, FS_Subset
        <4>5. Cap <= Cardinality((H \ {i}) \cup {id})
          <5>1. Cardinality(H \ {i}) = Cardinality(H) - 1 /\ IsFiniteSet(H \ {i})
            BY <4>1, <4>4, FS_RemoveElement
          <5>2. Cardinality((H \ {i}) \cup {id}) = Cardinality(H \ {i}) + 1
            BY <4>2, <5>1, FS_AddElement
          <5>3. Cardinality(H) \in Nat
            BY <4>4, FS_CardinalityType
          <5> QED BY <1>0, <4>1, <5>1, <5>2, <5>3
        <4> QED BY <2>1, <4>3, <4>5, MoreSince
      <3> QED BY <3>2, <3>3
    <2> QED BY <1>6, <2>2, <2>3 DEF CacheInv
  <1>7. ASSUME NEW i \in Requests
        PROVE  seen'[i] # -1 => seen'[i] = last'[i]
    BY <1>1, <1>3 DEF CacheInv
  <1> QED BY <1>3, <1>4, <1>5, <1>6, <1>7 DEF CacheInv

(* Types, and the strengthening, for any ids, room and lifetime.               *)
THEOREM CacheInductive == Cache!Spec => []CacheInv
  <1>1. ASSUME CacheInv, [Cache!Next]_(Cache!vars)
        PROVE  CacheInv'
    <2>1. CASE UNCHANGED Cache!vars
      BY <1>1, <2>1 DEF Cache!vars, CacheInv, CacheTyped, Known, Since
    <2> QED BY <1>1, <2>1, TickKeeps, AddKeeps DEF Cache!Next
  <1> QED BY <1>1, InitCache, PTL DEF Cache!Spec

(* NotDispatchedTwice: a request that comes again within the lifetime of its   *)
(* last frame is known, unless as many others as there is room for came since. *)
THEOREM RepeatsAreKnown == Cache!Spec => []NotDispatchedTwice
  <1>1. CacheInv => NotDispatchedTwice
    <2> SUFFICES ASSUME CacheInv, NEW id \in Requests, last[id] \in 0..TTL,
                        Cardinality(Since(last, id)) < Cap
                 PROVE  Cache!Replay(id)
      BY Counts DEF NotDispatchedTwice, Cache!NotDispatchedTwice, Since
    <2>1. seen[id] = last[id]
      <3>1. Cardinality(Since(last, id)) \in Nat
        BY SinceIsFinite, FS_CardinalityType DEF CacheInv
      <3> QED BY <3>1, CacheAssumption DEF CacheInv
    <2>2. CASE Cache!Collect
      <3>1. Cache!Swept[id] = IF seen[id] > TTL THEN Cache!None ELSE seen[id]
        BY <2>2 DEF Cache!Swept
      <3> QED BY <2>1, <3>1, CacheAssumption DEF Cache!Replay
    <2>3. CASE ~Cache!Collect
      BY <2>1, <2>3 DEF Cache!Swept, Cache!Replay
    <2> QED BY <2>2, <2>3
  <1> QED BY <1>1, CacheInductive, PTL

--------------------------------------------------------------------------------
(* The tables of the store: the inductive invariant.                           *)

SessionRows == [project : Projects, ended : BOOLEAN, calls : Nat, handle : BOOLEAN]
PreviewRows == [project : Projects, ended : BOOLEAN]
MemoryRows == [project : Projects, updated : {0, 1}]
InboxRows == [read : Nat, resolved : Nat, action : {None, "ack", "silence"}, updated : Nat]

StoreTyped ==
    /\ now \in Nat /\ projects \subseteq Projects
    /\ sessions \in [DOMAIN sessions -> SessionRows]
    /\ previews \in [DOMAIN previews -> PreviewRows]
    /\ memory \in [DOMAIN memory -> MemoryRows]
    /\ inbox \in [DOMAIN inbox -> InboxRows]
    /\ sessionEvents = [s \in DOMAIN sessions |-> sessionEvents[s]]
    /\ jobs = [j \in DOMAIN jobs |-> jobs[j]]
    /\ jobEvents = [j \in DOMAIN jobs |-> jobEvents[j]]

(* The foreign keys: a row's project is there.                                 *)
OwnersInv ==
    /\ \A s \in DOMAIN sessions : sessions[s].project \in projects
    /\ \A v \in DOMAIN previews : previews[v].project \in projects
    /\ \A m \in DOMAIN memory : memory[m].project \in projects
    /\ \A e \in journal : e.project \in projects

StoreInv == StoreTyped /\ OwnersInv

(* What HistoryIsKept says of a step.                                          *)
HistoryKept ==
    /\ \A i \in Ids \cap DOMAIN inbox : inbox[i].read # 0 /\ inbox[i].resolved = 0 =>
          i \in DOMAIN inbox' /\ inbox'[i].read = inbox[i].read
    /\ \A k \in DOMAIN keyed \cap DOMAIN keyed' : k[1] \in Tables!KeepsCreated =>
          keyed'[k].created = keyed[k].created
    /\ \A k \in DOMAIN silences \cap DOMAIN silences' : silences'[k].created = silences[k].created
    /\ \A j \in Ids : j \in DOMAIN jobEvents =>
          j \in DOMAIN jobEvents' /\ jobEvents[j] \subseteq jobEvents'[j]
    /\ \A s \in DOMAIN sessionEvents \cap DOMAIN sessionEvents' :
          sessionEvents[s] \subseteq sessionEvents'[s]

--------------------------------------------------------------------------------
(* The tables of the store: the proof.                                         *)

(* A new store is empty.                                                       *)
LEMMA InitStore == Tables!Init => StoreInv
  <1> SUFFICES ASSUME Tables!Init PROVE StoreInv
    OBVIOUS
  <1>1. /\ now = 1 /\ projects \subseteq Projects /\ journal = {}
        /\ \A t \in {sessions, previews, memory, inbox, jobs, jobEvents, sessionEvents} :
              t = [x \in {} |-> Tables!None]
    BY DEF Tables!Init, Tables!Empty
  <1> QED BY <1>1 DEF StoreInv, StoreTyped, OwnersInv

(* Nothing of the history is in a step that leaves its tables alone.           *)
LEMMA Untouched ==
    ASSUME UNCHANGED <<inbox, keyed, silences, jobEvents, sessionEvents>>
    PROVE  HistoryKept
  BY DEF HistoryKept

(* A row that keeps the time it was created keeps it when it is written again. *)
LEMMA UpsertKeeps ==
    ASSUME NEW table, NEW k, Tables!Upsert(table, k)
    PROVE  /\ \A r \in DOMAIN keyed \cap DOMAIN keyed' : r[1] \in Tables!KeepsCreated =>
                 keyed'[r].created = keyed[r].created
           /\ UNCHANGED <<now, inbox, silences, jobs, jobEvents>>
  <1>1. keyed' = Tables!Put(keyed, <<table, k>>,
                   [created |-> IF table \in Tables!KeepsCreated /\ <<table, k>> \in DOMAIN keyed
                                THEN keyed[<<table, k>>].created ELSE now,
                    updated |-> now])
    BY DEF Tables!Upsert
  <1> DEFINE row == [created |-> IF table \in Tables!KeepsCreated /\ <<table, k>> \in DOMAIN keyed
                                THEN keyed[<<table, k>>].created ELSE now,
                     updated |-> now]
             key == <<table, k>>
  <1>2. key \in DOMAIN keyed /\ key[1] \in Tables!KeepsCreated => row.created = keyed[key].created
    OBVIOUS
  <1>3. keyed' = [x \in DOMAIN keyed \cup {key} |-> IF x = key THEN row ELSE keyed[x]]
    BY <1>1 DEF Tables!Put
  <1> HIDE DEF row, key
  <1>4. UNCHANGED <<now, inbox, silences, jobs, jobEvents>>
    BY DEF Tables!Upsert, Tables!work, Tables!alerts
  <1> QED BY <1>2, <1>3, <1>4

(* The inbox, the silences, the jobs and the maps.                             *)
LEMMA SmallTablesKeep ==
    ASSUME StoreInv, Tables!Schema \/ Tables!Inbox \/ Tables!Jobs \/ Tables!Keyed
    PROVE  StoreInv' /\ HistoryKept
  <1> USE DEF StoreInv
  <1>1. CASE Tables!Schema
    BY <1>1 DEF Tables!Schema, Tables!Reopen, Tables!content, Tables!journals, Tables!alerts,
       Tables!work, HistoryKept, StoreTyped, OwnersInv
  <1>2. CASE Tables!Inbox
    <2>0. UNCHANGED <<projects, sessions, sessionEvents, previews, memory, journal, jobs, jobEvents, keyed>>
          /\ now' \in Nat
      <3>1. UNCHANGED <<projects, sessions, sessionEvents, previews, memory, journal>>
        BY <1>2 DEF Tables!Inbox, Tables!content, Tables!journals
      <3>2. Tables!Tick => now' = now + 1 /\ UNCHANGED <<jobs, jobEvents, keyed>>
        BY DEF Tables!Tick, Tables!work
      <3>3. ASSUME NEW i, NEW action, NEW t, NEW ids,
                   \/ Tables!AlertSilencesActive \/ Tables!MarkInboxRead(ids)
                   \/ Tables!ResolveInbox(i, action) \/ Tables!DeleteAlertSilence(i)
                   \/ Tables!PutAlertSilence(i, t) \/ Tables!GCInboxState(t)
            PROVE  UNCHANGED <<now, jobs, jobEvents, keyed>>
        BY <3>3 DEF Tables!AlertSilencesActive, Tables!MarkInboxRead, Tables!ResolveInbox,
           Tables!DeleteAlertSilence, Tables!PutAlertSilence, Tables!GCInboxState, Tables!work
      <3>4. UNCHANGED <<jobs, jobEvents, keyed>> /\ now' \in {now, now + 1}
        BY <1>2, <3>2, <3>3 DEF Tables!Inbox
      <3> QED BY <3>1, <3>4 DEF StoreTyped
    <2>1. ASSUME NEW i
          PROVE  /\ Tables!Item(i) \in InboxRows /\ Tables!FirstRead(i) \in Nat
                 /\ i \in DOMAIN inbox => Tables!Item(i) = inbox[i]
                 /\ Tables!Item(i).read # 0 => Tables!FirstRead(i) = Tables!Item(i).read
      BY DEF Tables!Item, Tables!FirstRead, StoreTyped, InboxRows, None, Tables!None
    <2>2. /\ inbox' \in [DOMAIN inbox' -> InboxRows]
          /\ \A i \in Ids \cap DOMAIN inbox : inbox[i].read # 0 /\ inbox[i].resolved = 0 =>
                i \in DOMAIN inbox' /\ inbox'[i].read = inbox[i].read
      <3>1. CASE UNCHANGED inbox
        BY <3>1 DEF StoreTyped
      <3>2. ASSUME NEW ids \in SUBSET Ids, Tables!MarkInboxRead(ids)
            PROVE  /\ inbox' \in [DOMAIN inbox' -> InboxRows]
                   /\ \A i \in Ids \cap DOMAIN inbox : inbox[i].read # 0 =>
                         i \in DOMAIN inbox' /\ inbox'[i].read = inbox[i].read
        <4> DEFINE row(i) == [Tables!Item(i) EXCEPT !.read = Tables!FirstRead(i), !.updated = now]
        <4>1. inbox' = [i \in DOMAIN inbox \cup ids |-> IF i \in ids THEN row(i) ELSE inbox[i]]
          BY <3>2 DEF Tables!MarkInboxRead
        <4>2. ASSUME NEW i
              PROVE  row(i) \in InboxRows /\ row(i).read = Tables!FirstRead(i)
          BY <2>1 DEF InboxRows, StoreTyped
        <4> HIDE DEF row
        <4> QED BY <2>1, <4>1, <4>2 DEF StoreTyped
      <3>3. ASSUME NEW i, NEW action \in {"ack", "silence"}, Tables!ResolveInbox(i, action)
            PROVE  /\ inbox' \in [DOMAIN inbox' -> InboxRows]
                   /\ \A j \in DOMAIN inbox : inbox[j].read # 0 =>
                         j \in DOMAIN inbox' /\ inbox'[j].read = inbox[j].read
        <4> DEFINE row == [read |-> Tables!FirstRead(i), resolved |-> now, action |-> action, updated |-> now]
        <4>1. inbox' = [x \in DOMAIN inbox \cup {i} |-> IF x = i THEN row ELSE inbox[x]]
          BY <3>3 DEF Tables!ResolveInbox, Tables!Put
        <4>2. row \in InboxRows /\ row.read = Tables!FirstRead(i)
          BY <2>1 DEF InboxRows, StoreTyped
        <4> HIDE DEF row
        <4> QED BY <2>1, <4>1, <4>2 DEF StoreTyped
      <3>4. ASSUME NEW t, Tables!GCInboxState(t)
            PROVE  /\ inbox' \in [DOMAIN inbox' -> InboxRows]
                   /\ \A i \in DOMAIN inbox : inbox[i].resolved = 0 =>
                         i \in DOMAIN inbox' /\ inbox'[i] = inbox[i]
        BY <3>4 DEF Tables!GCInboxState, Tables!Without, StoreTyped
      <3> QED
        BY <1>2, <3>1, <3>2, <3>3, <3>4
        DEF Tables!Inbox, Tables!Tick, Tables!AlertSilencesActive, Tables!DeleteAlertSilence,
            Tables!PutAlertSilence, Tables!alerts
    <2>3. \A k \in DOMAIN silences \cap DOMAIN silences' : silences'[k].created = silences[k].created
      <3>1. ASSUME NEW k, NEW t, Tables!PutAlertSilence(k, t)
            PROVE  \A j \in DOMAIN silences : silences'[j].created = silences[j].created
        <4> DEFINE row == [until |-> t, created |-> IF k \in DOMAIN silences THEN silences[k].created ELSE now]
        <4>1. silences' = [x \in DOMAIN silences \cup {k} |-> IF x = k THEN row ELSE silences[x]]
          BY <3>1 DEF Tables!PutAlertSilence, Tables!Put
        <4>2. k \in DOMAIN silences => row.created = silences[k].created
          OBVIOUS
        <4> HIDE DEF row
        <4> QED BY <4>1, <4>2
      <3>2. ASSUME NEW ks, silences' = Tables!Without(silences, ks)
            PROVE  \A k \in DOMAIN silences' : silences'[k] = silences[k]
        BY <3>2 DEF Tables!Without
      <3> QED
        BY <1>2, <3>1, <3>2 DEF Tables!Inbox, Tables!Tick, Tables!AlertSilencesActive,
           Tables!DeleteAlertSilence, Tables!MarkInboxRead, Tables!ResolveInbox,
           Tables!GCInboxState, Tables!alerts
    <2> QED BY <2>0, <2>2, <2>3 DEF StoreTyped, OwnersInv, HistoryKept
  <1>3. CASE Tables!Jobs
    <2>0. UNCHANGED <<now, projects, sessions, sessionEvents, previews, memory, journal, inbox, silences, keyed>>
      BY <1>3 DEF Tables!Jobs, Tables!content, Tables!journals, Tables!CreateActionJob,
         Tables!UpdateActionJob, Tables!AppendActionJobEvent, Tables!alerts
    <2>1. /\ jobs' = [j \in DOMAIN jobs' |-> jobs'[j]]
          /\ jobEvents' = [j \in DOMAIN jobs' |-> jobEvents'[j]]
          /\ \A j \in DOMAIN jobEvents : j \in DOMAIN jobEvents' /\ jobEvents[j] \subseteq jobEvents'[j]
      <3>0. DOMAIN jobEvents = DOMAIN jobs
        BY DEF StoreTyped
      <3>1. ASSUME NEW j, Tables!CreateActionJob(j)
            PROVE  <2>1!:
        BY <3>0, <3>1 DEF Tables!CreateActionJob, Tables!Put, StoreTyped
      <3>2. ASSUME NEW j, NEW status, Tables!UpdateActionJob(j, status)
            PROVE  <2>1!:
        BY <3>2 DEF Tables!UpdateActionJob, StoreTyped
      <3>3. ASSUME NEW j, Tables!AppendActionJobEvent(j)
            PROVE  <2>1!:
        BY <3>3 DEF Tables!AppendActionJobEvent, StoreTyped
      <3> QED BY <1>3, <3>1, <3>2, <3>3 DEF Tables!Jobs
    <2> QED BY <2>0, <2>1 DEF StoreTyped, OwnersInv, HistoryKept
  <1>4. CASE Tables!Keyed
    <2>0. UNCHANGED <<projects, sessions, sessionEvents, previews, memory, journal, inbox, silences, jobs, jobEvents>>
          /\ now' \in Nat
      <3>1. UNCHANGED <<projects, sessions, sessionEvents, previews, memory, journal>>
        BY <1>4 DEF Tables!Keyed, Tables!content, Tables!journals
      <3>2. Tables!Tick => now' = now + 1 /\ UNCHANGED <<inbox, silences, jobs, jobEvents>>
        BY DEF Tables!Tick, Tables!work, Tables!alerts
      <3>3. ASSUME NEW table, NEW k, Tables!Upsert(table, k) \/ Tables!DeleteKey(table, k)
            PROVE  UNCHANGED <<now, inbox, silences, jobs, jobEvents>>
        BY <3>3 DEF Tables!Upsert, Tables!DeleteKey, Tables!work, Tables!alerts
      <3>4. UNCHANGED <<inbox, silences, jobs, jobEvents>> /\ now' \in {now, now + 1}
        BY <1>4, <3>2, <3>3 DEF Tables!Keyed,
           Tables!PutPushDevice, Tables!DeletePushDevice, Tables!PutProviderCredential,
           Tables!DeleteProviderCredential, Tables!PutDiffSummary, Tables!PutAlertAck,
           Tables!PutNotificationPref, Tables!DeleteNotificationPref, Tables!PutAgentSetting,
           Tables!PutInfraAlertRule, Tables!PutInfraCost
      <3> QED BY <3>1, <3>4 DEF StoreTyped
    <2>1. \A k \in DOMAIN keyed \cap DOMAIN keyed' : k[1] \in Tables!KeepsCreated =>
             keyed'[k].created = keyed[k].created
      <3>1. ASSUME NEW table, NEW k, Tables!Upsert(table, k)
            PROVE  <2>1!:
        BY <3>1, UpsertKeeps
      <3>2. ASSUME NEW table, NEW k, Tables!DeleteKey(table, k)
            PROVE  <2>1!:
        BY <3>2 DEF Tables!DeleteKey, Tables!Without
      <3> QED
        BY <1>4, <3>1, <3>2 DEF Tables!Keyed, Tables!Tick,
           Tables!PutPushDevice, Tables!DeletePushDevice,
           Tables!PutProviderCredential, Tables!DeleteProviderCredential, Tables!PutDiffSummary,
           Tables!PutAlertAck, Tables!PutNotificationPref, Tables!DeleteNotificationPref,
           Tables!PutAgentSetting, Tables!PutInfraAlertRule, Tables!PutInfraCost
    <2> QED BY <2>0, <2>1 DEF StoreTyped, OwnersInv, HistoryKept
  <1> QED BY <1>1, <1>2, <1>3, <1>4

(* Projects and what belongs to them: the rows that stay keep their project,   *)
(* new ones have one that is there, and what a deleted one had goes with it;   *)
(* a diff summary needs no project.                                            *)
LEMMA ContentKeeps ==
    ASSUME StoreInv, Tables!Content
    PROVE  StoreInv' /\ HistoryKept
  <1> USE DEF StoreInv
  <1>0. /\ UNCHANGED <<now, inbox, silences, jobs, jobEvents>>
        /\ \A k \in DOMAIN keyed \cap DOMAIN keyed' : k[1] \in Tables!KeepsCreated =>
              keyed'[k].created = keyed[k].created
    <2>1. CASE Tables!OwnedRows
      BY <2>1 DEF Tables!OwnedRows, Tables!alerts, Tables!work
    <2>2. CASE Tables!DiffSummaries
      BY <2>2, UpsertKeeps DEF Tables!DiffSummaries, Tables!PutDiffSummary
    <2> QED BY <2>1, <2>2 DEF Tables!Content
  <1> DEFINE Goes == /\ projects' \subseteq Projects
                     /\ sessions' \in [DOMAIN sessions' -> SessionRows]
                     /\ previews' \in [DOMAIN previews' -> PreviewRows]
                     /\ memory' \in [DOMAIN memory' -> MemoryRows]
                     /\ sessionEvents' = [s \in DOMAIN sessions' |-> sessionEvents'[s]]
                     /\ OwnersInv'
                     /\ \A s \in DOMAIN sessionEvents \cap DOMAIN sessionEvents' :
                           sessionEvents[s] \subseteq sessionEvents'[s]
  <1> USE DEF OwnersInv, StoreTyped, Tables!journals
  <1>1. ASSUME NEW p \in Projects, Tables!CreateProject(p)
        PROVE  Goes
    BY <1>1 DEF Tables!CreateProject
  <1>2. ASSUME NEW p \in Projects, Tables!DeleteProject(p)
        PROVE  Goes
    BY <1>2 DEF Tables!DeleteProject, Tables!Without, Tables!Of
  <1>3. ASSUME NEW i, NEW p \in Projects, Tables!CreateSession(i, p)
        PROVE  Goes
    <2> DEFINE row == [project |-> p, ended |-> FALSE, calls |-> 0, handle |-> FALSE]
    <2>1. /\ i \notin DOMAIN sessions /\ p \in projects
          /\ sessions' = [x \in DOMAIN sessions \cup {i} |-> IF x = i THEN row ELSE sessions[x]]
          /\ sessionEvents' = [x \in DOMAIN sessionEvents \cup {i} |->
                                IF x = i THEN {} ELSE sessionEvents[x]]
          /\ UNCHANGED <<projects, previews, memory, journal>>
      BY <1>3 DEF Tables!CreateSession, Tables!Put
    <2>2. row \in SessionRows /\ row.project = p
      BY DEF SessionRows
    <2> HIDE DEF row
    <2> QED BY <2>1, <2>2
  <1>4. ASSUME NEW i, NEW p \in Projects, Tables!CreatePreview(i, p)
        PROVE  Goes
    <2> DEFINE row == [project |-> p, ended |-> FALSE]
    <2>1. /\ p \in projects
          /\ previews' = [x \in DOMAIN previews \cup {i} |-> IF x = i THEN row ELSE previews[x]]
          /\ UNCHANGED <<projects, sessions, sessionEvents, memory, journal>>
      BY <1>4 DEF Tables!CreatePreview, Tables!Put
    <2>2. row \in PreviewRows /\ row.project = p
      BY DEF PreviewRows
    <2> HIDE DEF row
    <2> QED BY <2>1, <2>2
  <1>5. ASSUME NEW i, NEW p \in Projects, Tables!CreateMemory(i, p)
        PROVE  Goes
    <2> DEFINE row == [project |-> p, updated |-> 0]
    <2>1. /\ p \in projects
          /\ memory' = [x \in DOMAIN memory \cup {i} |-> IF x = i THEN row ELSE memory[x]]
          /\ UNCHANGED <<projects, sessions, sessionEvents, previews, journal>>
      BY <1>5 DEF Tables!CreateMemory, Tables!Put
    <2>2. row \in MemoryRows /\ row.project = p
      BY DEF MemoryRows
    <2> HIDE DEF row
    <2> QED BY <2>1, <2>2
  <1>6. ASSUME NEW i, \/ Tables!EndSession(i) \/ Tables!ReopenSession(i)
                     \/ Tables!SetSessionAgentSessionID(i) \/ Tables!IncrSessionToolCalls(i)
                     \/ Tables!UpdateSessionUsage(i, 1)
        PROVE  Goes
    <2>1. /\ i \in DOMAIN sessions
          /\ \E row : sessions' = [sessions EXCEPT ![i] = row]
                      /\ row \in SessionRows /\ row.project = sessions[i].project
          /\ UNCHANGED <<projects, sessionEvents, previews, memory, journal>>
      <3>1. ASSUME NEW field \in {"ended", "calls", "handle"}, NEW value,
                   Tables!UpdateSession(i, field, value),
                   field = "calls" => value \in Nat, field # "calls" => value \in BOOLEAN
            PROVE  <2>1!:
        <4> DEFINE row == [sessions[i] EXCEPT ![field] = value]
        <4>1. /\ i \in DOMAIN sessions /\ sessions' = [sessions EXCEPT ![i] = row]
              /\ UNCHANGED <<projects, sessionEvents, previews, memory, journal>>
          BY <3>1 DEF Tables!UpdateSession
        <4>2. sessions[i] \in SessionRows
          BY <4>1
        <4>3. row \in SessionRows /\ row.project = sessions[i].project
          BY <3>1, <4>2 DEF SessionRows
        <4> QED BY <4>1, <4>3
      <3>2. Tables!IncrSessionToolCalls(i) =>
               sessions[i].calls + 1 \in Nat /\ Tables!UpdateSession(i, "calls", sessions[i].calls + 1)
        BY DEF Tables!IncrSessionToolCalls, SessionRows
      <3> QED
        BY <1>6, <3>1, <3>2 DEF Tables!EndSession, Tables!ReopenSession,
           Tables!SetSessionAgentSessionID, Tables!UpdateSessionUsage
    <2> QED BY <2>1
  <1>7. ASSUME NEW i, Tables!DeleteSession(i)
        PROVE  Goes
    BY <1>7 DEF Tables!DeleteSession, Tables!Without
  <1>8. ASSUME NEW i, Tables!AppendSessionEvent(i)
        PROVE  Goes
    BY <1>8 DEF Tables!AppendSessionEvent
  <1>9. ASSUME NEW i, NEW ended \in BOOLEAN, Tables!UpdatePreview(i, ended)
        PROVE  Goes
    BY <1>9 DEF Tables!UpdatePreview, PreviewRows
  <1>10. ASSUME NEW i, Tables!DeletePreview(i) \/ Tables!DeleteMemory(i)
         PROVE  Goes
    BY <1>10 DEF Tables!DeletePreview, Tables!DeleteMemory, Tables!Without
  <1>11. ASSUME NEW i, Tables!UpdateMemory(i)
         PROVE  Goes
    BY <1>11 DEF Tables!UpdateMemory, MemoryRows
  <1>12. ASSUME Tables!DiffSummaries
         PROVE  Goes
    <2>1. UNCHANGED <<projects, sessions, sessionEvents, previews, memory, journal>>
      BY <1>12 DEF Tables!DiffSummaries, Tables!content
    <2> QED BY <2>1
  <1>13. Goes
    <2> HIDE DEF Goes
    <2> QED BY <1>1, <1>2, <1>3, <1>4, <1>5, <1>6, <1>7, <1>8, <1>9, <1>10, <1>11, <1>12
            DEF Tables!Content, Tables!OwnedRows
  <1> QED BY <1>0, <1>13 DEF HistoryKept

(* The journal: an entry's project is there when it is added.                  *)
LEMMA JournalKeeps ==
    ASSUME StoreInv, Tables!Journal
    PROVE  StoreInv' /\ HistoryKept
  <1> USE DEF StoreInv
  <1>0. UNCHANGED <<now, inbox, silences, jobs, jobEvents, keyed>>
    BY DEF Tables!Journal, Tables!alerts, Tables!work
  <1>1. ASSUME NEW p \in Projects, NEW kind, NEW at, Tables!AppendJournalEntry(p, kind, at)
        PROVE  StoreInv' /\ HistoryKept
    <2>1. /\ p \in projects /\ \E e : e.project = p /\ journal' = journal \cup {e}
          /\ UNCHANGED <<projects, sessions, sessionEvents, previews, memory>>
      <3> DEFINE e == [id |-> lastId + 1, project |-> p, kind |-> kind, at |-> at]
      <3>1. e.project = p /\ journal' = journal \cup {e}
        BY <1>1 DEF Tables!AppendJournalEntry
      <3> HIDE DEF e
      <3> QED BY <1>1, <3>1 DEF Tables!AppendJournalEntry, Tables!content
    <2> QED BY <1>0, <2>1 DEF StoreTyped, OwnersInv, HistoryKept
  <1>2. ASSUME NEW p, NEW kind, NEW limit, Tables!ReadPage(p, kind, limit)
        PROVE  StoreInv' /\ HistoryKept
    <2>1. UNCHANGED <<projects, sessions, sessionEvents, previews, memory, journal>>
      BY <1>2 DEF Tables!ReadPage, Tables!content
    <2> QED BY <1>0, <2>1 DEF StoreTyped, OwnersInv, HistoryKept
  <1>3. ASSUME NEW p \in Projects, Tables!CreateProject(p)
        PROVE  StoreInv' /\ HistoryKept
    BY <1>0, <1>3 DEF Tables!CreateProject, Tables!journals, StoreTyped, OwnersInv, HistoryKept
  <1>4. ASSUME NEW p \in Projects, Tables!DeleteProject(p)
        PROVE  StoreInv' /\ HistoryKept
    BY <1>0, <1>4 DEF Tables!DeleteProject, Tables!Without, Tables!Of, StoreTyped, OwnersInv,
       HistoryKept
  <1> QED BY <1>1, <1>2, <1>3, <1>4 DEF Tables!Journal

(* Every step preserves the inductive invariant and the history.               *)
LEMMA StoreNext ==
    ASSUME StoreInv, [Tables!Next]_(Tables!vars)
    PROVE  StoreInv' /\ [HistoryKept]_(Tables!vars)
  <1>1. CASE UNCHANGED Tables!vars
    BY <1>1 DEF Tables!vars, Tables!content, Tables!journals, Tables!alerts, Tables!work,
       StoreInv, StoreTyped, OwnersInv
  <1> QED BY <1>1, SmallTablesKeep, ContentKeeps, JournalKeeps DEF Tables!Next

(* Types, and the foreign keys, for any projects, ids and bounds.              *)
THEOREM StoreInductive == Tables!Spec => []StoreInv
  BY InitStore, StoreNext, PTL DEF Tables!Spec

(* Rows whose projects are there leave nobody an orphan.                       *)
LEMMA StoreImplies == StoreInv => NoOrphans
  <1> SUFFICES ASSUME StoreInv PROVE NoOrphans
    OBVIOUS
  <1> USE DEF StoreInv, StoreTyped, OwnersInv, Tables!ListProjects, Tables!ListSessions,
         Tables!ListPreviews, Tables!ListMemory, Tables!Select
  <1>1. ASSUME NEW p \in Projects \ projects
        PROVE  /\ Tables!ListSessions(p) \cup Tables!ListPreviews(p) \cup Tables!ListMemory(p) = {}
               /\ Tables!Selected(p, "", <<>>) = {}
    BY ProjectsAssumption DEF Tables!Selected
  <1>2. DOMAIN sessionEvents = Tables!ListSessions("")
    OBVIOUS
  <1>3. ASSUME NEW s \in Ids, Tables!SessionEventsAfter(s, 0) # {}
        PROVE  s \in Tables!ListSessions("")
    BY <1>3 DEF Tables!SessionEventsAfter
  <1>4. Tables!ActiveSessions \cup Tables!ActivePreviews # {} => projects # {}
    BY DEF Tables!ActiveSessions, Tables!ActivePreviews
  <1> QED BY <1>1, <1>2, <1>3, <1>4 DEF NoOrphans, Tables!NoOrphans

(* NoOrphans: of the tables with a foreign key, a deleted project leaves no    *)
(* session, preview, memory or journal entry, and sessions take their events   *)
(* with them. Its diff summaries are outside the statement: they stay.         *)
THEOREM NobodyIsOrphaned == Tables!Spec => []NoOrphans
  BY StoreImplies, StoreInductive, PTL

(* What HistoryIsKept says of a step.                                          *)
Kept ==
    /\ \A i \in DOMAIN Tables!InboxStates(Ids) : inbox[i].read # 0 /\ inbox[i].resolved = 0 =>
          i \in DOMAIN inbox' /\ inbox'[i].read = inbox[i].read
    /\ \A k \in DOMAIN keyed \cap DOMAIN keyed' : k[1] \in Tables!KeepsCreated =>
          keyed'[k].created = keyed[k].created
    /\ \A k \in DOMAIN silences \cap DOMAIN silences' : silences'[k].created = silences[k].created
    /\ \A j \in Ids : Tables!ActionJobEvents(j) \subseteq Tables!ActionJobEvents(j)'
    /\ \A s \in DOMAIN sessionEvents \cap DOMAIN sessionEvents' :
          sessionEvents[s] \subseteq sessionEvents'[s]

(* Every step of the store keeps it.                                           *)
LEMMA HistoryNext ==
    ASSUME StoreInv, [Tables!Next]_(Tables!vars)
    PROVE  [Kept]_(Tables!vars)
  <1>1. HistoryKept => Kept
    <2> SUFFICES ASSUME HistoryKept PROVE Kept
      OBVIOUS
    <2>1. DOMAIN Tables!InboxStates(Ids) = Ids \cap DOMAIN inbox
      BY DEF Tables!InboxStates
    <2>2. \A j \in Ids : Tables!ActionJobEvents(j) \subseteq Tables!ActionJobEvents(j)'
      BY DEF HistoryKept, Tables!ActionJobEvents
    <2> QED BY <2>1, <2>2 DEF HistoryKept, Kept
  <1> QED BY <1>1, StoreNext

(* HistoryIsKept: first times and events stay on record.                       *)
THEOREM HistoryStays == Tables!Spec => HistoryIsKept
  BY HistoryNext, StoreInductive, PTL DEF Tables!Spec, HistoryIsKept, Tables!HistoryIsKept, Kept

--------------------------------------------------------------------------------
(* The pages of the journal: the inductive invariant.                          *)
Entries == [id : Nat, project : Projects, kind : {"pr", "note"}, at : Nat]

Sorted(s) == \A i, j \in DOMAIN s : i < j => Tables!Newer(s[i], s[j])

(* Ids tell entries apart, and an id is not given twice.                       *)
JournalTyped ==
    /\ lastId \in Nat /\ IsFiniteSet(journal) /\ journal \cup pager.start \subseteq Entries
    /\ \A e, f \in journal : e.id = f.id => e = f
    /\ \A e \in journal \cup pager.start : e.id <= lastId

(* What the client has seen is sorted, the cursor is its end, and what was     *)
(* there when it began and is not seen yet lies before the cursor.             *)
PagerInv ==
    /\ pager.pc \in {"idle", "reading", "done"} /\ pager.seen \in Seq(Entries)
    /\ Sorted(pager.seen)
    /\ pager.pc = "idle" => pager.seen = <<>> /\ pager.cursor = <<>> /\ pager.start = {}
    /\ pager.pc = "reading" =>
          /\ pager.seen # <<>>
          /\ pager.cursor = Tables!encodeJournalCursor(pager.seen[Len(pager.seen)])
          /\ \A e \in pager.start \cap journal :
                /\ e.project = pager.project /\ pager.kind \in {"", e.kind}
                /\ e \in Tables!ToSet(pager.seen) \/ Tables!before(e, pager.cursor)
    /\ pager.pc = "done" => pager.start \cap journal \subseteq Tables!ToSet(pager.seen)

PagesInv == JournalTyped /\ PagerInv

--------------------------------------------------------------------------------
(* The pages of the journal: the proof.                                        *)

(* A set of natural numbers that is not empty has a least member.              *)
LEMMA LeastMember ==
    ASSUME NEW T, T \subseteq Nat, T # {}
    PROVE  \E x \in T : \A y \in T : x <= y
  <1>1. PICK x \in T : \A y \in T : ~(<<y, x>> \in OpToRel(<, Nat))
    BY NatLessThanWellFounded, WFMin
  <1>2. OpToRel(<, Nat) = {p \in Nat \X Nat : p[1] < p[2]}
    BY Zenon DEF OpToRel
  <1>3. \A y \in T : <<y, x>> \in Nat \X Nat /\ <<y, x>>[1] = y /\ <<y, x>>[2] = x
    OBVIOUS
  <1>4. \A y \in T : ~(y < x)
    BY <1>1, <1>2, <1>3
  <1> QED BY <1>4

(* Newer is a total order of entries with different ids.                       *)
LEMMA NewerOrders ==
    ASSUME NEW e \in Entries, NEW f \in Entries, NEW g \in Entries
    PROVE  /\ Tables!Newer(e, f) /\ Tables!Newer(f, g) => Tables!Newer(e, g)
           /\ Tables!Newer(e, f) \/ Tables!Newer(f, e) \/ e.id = f.id
  BY DEF Entries, Tables!Newer

(* Entries have an oldest one.                                                 *)
LEMMA OldestEntry ==
    ASSUME NEW S, S \subseteq Entries, S # {}, \A e, f \in S : e.id = f.id => e = f
    PROVE  \E o \in S : \A e \in S \ {o} : Tables!Newer(e, o)
  <1>1. \A e \in S : e.at \in Nat /\ e.id \in Nat
    BY DEF Entries
  <1> DEFINE T == {e.at : e \in S}
  <1>2. PICK t \in T : \A u \in T : t <= u
    <2>1. T \subseteq Nat /\ T # {}
      BY <1>1
    <2> HIDE DEF T
    <2> QED BY <2>1, LeastMember
  <1> DEFINE I == {e.id : e \in {f \in S : f.at = t}}
  <1>3. PICK n \in I : \A k \in I : n <= k
    <2>1. I \subseteq Nat /\ I # {}
      BY <1>1, <1>2
    <2> HIDE DEF I
    <2> QED BY <2>1, LeastMember
  <1>4. PICK o \in S : o.at = t /\ o.id = n
    BY <1>3
  <1>5. ASSUME NEW e \in S \ {o} PROVE Tables!Newer(e, o)
    <2>1. e.at \in Nat /\ e.id \in Nat /\ t \in Nat /\ n \in Nat /\ e.id # n
      BY <1>1, <1>4
    <2>2. t <= e.at
      BY <1>2
    <2>3. e.at = t => n <= e.id
      BY <1>3
    <2> QED BY <1>4, <2>1, <2>2, <2>3 DEF Tables!Newer
  <1> QED BY <1>5

(* The rows of S, newest first.                                                *)
Lists(s, S) ==
    /\ s \in [1..Cardinality(S) -> S] /\ Sorted(s)
    /\ \A e \in S : \E i \in DOMAIN s : s[i] = e

(* Any finite set of entries can be sorted.                                    *)
LEMMA SortedExists ==
    ASSUME NEW R, R \subseteq Entries, IsFiniteSet(R), \A e, f \in R : e.id = f.id => e = f
    PROVE  \E s : Lists(s, R)
  <1> DEFINE Bad == {S \in SUBSET R : ~\E s : Lists(s, S)}
             T == {Cardinality(S) : S \in Bad}
  <1> SUFFICES ASSUME Bad # {} PROVE FALSE
    OBVIOUS
  <1>1. \A S \in SUBSET R : IsFiniteSet(S) /\ Cardinality(S) \in Nat
    BY FS_Subset, FS_CardinalityType
  <1>2. PICK S \in Bad : \A U \in Bad : Cardinality(S) <= Cardinality(U)
    <2>1. T \subseteq Nat /\ T # {}
      BY <1>1
    <2>2. PICK n \in T : \A m \in T : n <= m
      <3> HIDE DEF T
      <3> QED BY <2>1, LeastMember
    <2> QED BY <2>2
  <1>3. S # {}
    <2> SUFFICES ASSUME S = {} PROVE FALSE
      OBVIOUS
    <2> DEFINE s == [i \in 1..0 |-> 0]
    <2>1. Cardinality(S) = 0
      BY FS_EmptySet
    <2>2. Lists(s, S)
      BY <2>1 DEF Lists, Sorted
    <2> QED BY <2>2
  <1>4. PICK o \in S : \A e \in S \ {o} : Tables!Newer(e, o)
    BY <1>3, OldestEntry
  <1> DEFINE U == S \ {o}
             n == Cardinality(U)
  <1>5. Cardinality(S) = n + 1 /\ n \in Nat /\ U \in SUBSET R
    BY <1>1, FS_RemoveElement
  <1>6. PICK s : Lists(s, U)
    <2>1. S \in SUBSET R /\ \A V \in Bad : Cardinality(S) <= Cardinality(V)
      BY <1>2
    <2>2. U \notin Bad
      <3> SUFFICES ASSUME U \in Bad PROVE FALSE
        OBVIOUS
      <3>1. Cardinality(S) <= Cardinality(U)
        BY <2>1
      <3> HIDE DEF U
      <3> QED BY <1>5, <3>1
    <2> HIDE DEF U
    <2> QED BY <1>5, <2>2
  <1> DEFINE r == [i \in 1..(n + 1) |-> IF i = n + 1 THEN o ELSE s[i]]
  <1>7. s \in [1..n -> U] /\ DOMAIN s = 1..n
    BY <1>6 DEF Lists
  <1>8. r \in [1..(n + 1) -> S]
    <2>1. ASSUME NEW i \in 1..(n + 1) PROVE r[i] \in S
      <3>1. CASE i = n + 1
        BY <3>1
      <3>2. CASE i # n + 1
        <4>1. i \in 1..n
          <5> HIDE DEF n
          <5> QED BY <1>5, <3>2
        <4> QED BY <1>7, <3>2, <4>1
      <3> QED BY <3>1, <3>2
    <2> HIDE DEF n, U
    <2> QED BY <2>1
  <1>9. Sorted(r)
    <2>1. ASSUME NEW i \in 1..(n + 1), NEW j \in 1..(n + 1), i < j
          PROVE  Tables!Newer(r[i], r[j])
      <3>0. i \in 1..n /\ i # n + 1
        <4> HIDE DEF n
        <4> QED BY <1>5, <2>1
      <3>1. i \in 1..n /\ r[i] = s[i] /\ s[i] \in U
        BY <1>7, <3>0
      <3>2. CASE j = n + 1
        BY <1>4, <3>1, <3>2
      <3>3. CASE j # n + 1
        <4>1. j \in 1..n /\ r[j] = s[j]
          BY <1>5, <3>3
        <4> QED BY <1>6, <1>7, <2>1, <3>1, <4>1 DEF Lists, Sorted
      <3> QED BY <3>2, <3>3
    <2> HIDE DEF r
    <2> QED BY <1>8, <2>1 DEF Sorted
  <1>10. \A e \in S : \E i \in DOMAIN r : r[i] = e
    <2>1. DOMAIN r = 1..(n + 1) /\ r[n + 1] = o /\ n + 1 \in 1..(n + 1)
      BY <1>5
    <2>2. ASSUME NEW e \in U PROVE \E i \in DOMAIN r : r[i] = e
      <3>1. PICK i \in 1..n : s[i] = e
        BY <1>6, <1>7 DEF Lists
      <3>2. i \in 1..(n + 1) /\ r[i] = e
        BY <1>5, <3>1
      <3> QED BY <2>1, <3>2
    <2> HIDE DEF r
    <2> QED BY <2>1, <2>2
  <1>11. Lists(r, S)
    <2> HIDE DEF r, n
    <2> QED BY <1>5, <1>8, <1>9, <1>10 DEF Lists
  <1> QED BY <1>11

(* The rows of the query come newest first, each of them once.                 *)
LEMMA QueryIsSorted ==
    ASSUME JournalTyped, NEW R, R \subseteq journal
    PROVE  /\ Tables!NewestFirst(R) \in Seq(R) /\ Sorted(Tables!NewestFirst(R))
           /\ \A e \in R : \E i \in DOMAIN Tables!NewestFirst(R) : Tables!NewestFirst(R)[i] = e
  <1>1. \A S : Tables!Cardinality(S) = Cardinality(S)
    BY DEF Tables!Cardinality, Cardinality
  <1> DEFINE Right(s) == Tables!ToSet(s) = R
                         /\ \A i, j \in DOMAIN s : i < j => Tables!Newer(s[i], s[j])
             F == [1..Cardinality(R) -> R]
             rows == CHOOSE s \in F : Right(s)
  <1>2. IsFiniteSet(R) /\ Cardinality(R) \in Nat
    BY FS_Subset, FS_CardinalityType DEF JournalTyped
  <1>3. \E s \in F : Right(s)
    <2>1. PICK s : Lists(s, R)
      BY <1>2, SortedExists DEF JournalTyped
    <2>2. s \in F /\ DOMAIN s = 1..Cardinality(R)
      BY <2>1 DEF Lists
    <2>3. Tables!ToSet(s) = R
      BY <2>1, <2>2 DEF Lists, Tables!ToSet
    <2> QED BY <2>1, <2>2, <2>3 DEF Lists, Sorted
  <1>4. rows \in F /\ Right(rows)
    <2> HIDE DEF F, Right
    <2> QED BY <1>3
  <1>5. Tables!NewestFirst(R) = rows
    BY <1>1 DEF Tables!NewestFirst
  <1>6. rows \in Seq(R)
    <2> HIDE DEF rows
    <2> QED BY <1>2, <1>4
  <1>7. Sorted(rows) /\ \A e \in R : \E i \in DOMAIN rows : rows[i] = e
    <2> HIDE DEF rows
    <2> QED BY <1>4 DEF Sorted, Tables!ToSet
  <1> HIDE DEF rows
  <1> QED BY <1>5, <1>6, <1>7

(* An entry that comes after another one is before its cursor, and the other   *)
(* way around.                                                                 *)
LEMMA CursorOf ==
    ASSUME NEW e, NEW f
    PROVE  /\ Tables!encodeJournalCursor(f) # <<>>
           /\ Tables!before(e, Tables!encodeJournalCursor(f)) <=> Tables!Newer(f, e)
  BY DEF Tables!encodeJournalCursor, Tables!before, Tables!Newer

(* A page is sorted, and what it leaves out lies before its cursor.            *)
LEMMA PageIsSorted ==
    ASSUME JournalTyped, NEW p, NEW kind, NEW cursor, NEW limit \in Int,
           NEW page, page = Tables!ListJournal(p, kind, cursor, limit)
    PROVE  /\ page.entries \in Seq(Tables!Selected(p, kind, cursor)) /\ Sorted(page.entries)
           /\ page.next = <<>> => \A e \in Tables!Selected(p, kind, cursor) :
                                     \E i \in DOMAIN page.entries : page.entries[i] = e
           /\ page.next # <<>> =>
                 /\ page.entries # <<>>
                 /\ page.next = Tables!encodeJournalCursor(page.entries[Len(page.entries)])
                 /\ \A e \in Tables!Selected(p, kind, cursor) :
                       \/ \E i \in DOMAIN page.entries : page.entries[i] = e
                       \/ Tables!before(e, page.next)
  <1> DEFINE R == Tables!Selected(p, kind, cursor)
             size == IF limit <= 0 THEN DefaultPage ELSE IF limit > MaxPage THEN MaxPage ELSE limit
             rows == Tables!NewestFirst(R)
             more == Len(rows) > size
             out == IF more THEN SubSeq(rows, 1, size) ELSE rows
  <1>1. /\ page.entries = out
        /\ page.next = IF more THEN Tables!encodeJournalCursor(out[size]) ELSE <<>>
    BY DEF Tables!ListJournal
  <1>2. size \in Nat \ {0}
    BY PagesAssumption
  <1>3. /\ rows \in Seq(R) /\ Sorted(rows)
        /\ \A e \in R : \E i \in DOMAIN rows : rows[i] = e
    <2>1. R \subseteq journal
      BY DEF Tables!Selected
    <2> HIDE DEF R
    <2> QED BY <2>1, QueryIsSorted
  <1> HIDE DEF R, size, rows
  <1>4. CASE ~more
    <2>1. out = rows /\ page.next = <<>> /\ page.entries = rows
      BY <1>1, <1>4
    <2> HIDE DEF out, more
    <2> QED BY <1>3, <2>1 DEF R
  <1>5. CASE more
    <2>1. /\ out = SubSeq(rows, 1, size) /\ out \in Seq(R) /\ Len(out) = size
          /\ \A i \in 1..size : out[i] = rows[i]
      BY <1>2, <1>3, <1>5
    <2>2. /\ page.entries = out /\ page.next = Tables!encodeJournalCursor(out[size])
          /\ page.next # <<>>
      BY <1>1, <1>5, CursorOf
    <2>3. DOMAIN out = 1..size /\ DOMAIN rows = 1..Len(rows) /\ Len(rows) \in Nat /\ size < Len(rows)
      BY <1>2, <1>3, <1>5, <2>1
    <2> HIDE DEF out, more
    <2>4. Sorted(out)
      <3>1. \A i \in 1..size : i \in 1..Len(rows)
        BY <1>2, <2>3
      <3> QED BY <1>3, <2>1, <2>3, <3>1 DEF Sorted
    <2>5. ASSUME NEW e \in R
          PROVE  (\E i \in DOMAIN out : out[i] = e) \/ Tables!before(e, page.next)
      <3>1. PICK i \in 1..Len(rows) : rows[i] = e
        BY <1>3, <2>3
      <3>2. CASE i <= size
        BY <2>1, <2>3, <3>1, <3>2
      <3>3. CASE i > size
        <4>1. size \in 1..Len(rows) /\ size \in 1..size
          BY <1>2, <2>3
        <4>2. Tables!Newer(rows[size], rows[i])
          BY <1>3, <2>3, <3>1, <3>3, <4>1 DEF Sorted
        <4>3. Tables!Newer(out[size], e)
          BY <2>1, <3>1, <4>1, <4>2
        <4> QED BY <2>2, <4>3, CursorOf
      <3> QED BY <1>2, <2>3, <3>1, <3>2, <3>3
    <2>6. out # <<>>
      BY <1>2, <2>1
    <2> QED BY <2>1, <2>2, <2>4, <2>5, <2>6 DEF R
  <1> QED BY <1>4, <1>5

(* One sequence after another is sorted when the first ends before the second  *)
(* begins.                                                                     *)
LEMMA SortedConcat ==
    ASSUME NEW s \in Seq(Entries), NEW t \in Seq(Entries), Sorted(s), Sorted(t),
           s # <<>> => \A j \in DOMAIN t : Tables!Newer(s[Len(s)], t[j])
    PROVE  s \o t \in Seq(Entries) /\ Sorted(s \o t)
  <1> DEFINE m == Len(s)
             n == Len(t)
             u == s \o t
  <1>1. /\ m \in Nat /\ n \in Nat /\ DOMAIN s = 1..m /\ DOMAIN t = 1..n
        /\ u \in Seq(Entries) /\ DOMAIN u = 1..(m + n)
        /\ \A i \in 1..m : u[i] = s[i] /\ s[i] \in Entries
        /\ \A i \in (m + 1)..(m + n) : u[i] = t[i - m] /\ t[i - m] \in Entries /\ i - m \in 1..n
    OBVIOUS
  <1>2. m = 0 <=> s = <<>>
    OBVIOUS
  <1> HIDE DEF m, n, u
  <1>3. ASSUME NEW i \in 1..(m + n), NEW j \in 1..(m + n), i < j
        PROVE  Tables!Newer(u[i], u[j])
    <2>1. CASE j <= m
      <3>1. i \in 1..m /\ j \in 1..m
        BY <1>1, <1>3, <2>1
      <3> QED BY <1>1, <1>3, <3>1 DEF Sorted
    <2>2. CASE i > m
      <3>1. i \in (m + 1)..(m + n) /\ j \in (m + 1)..(m + n) /\ i - m < j - m
        BY <1>1, <1>3, <2>2
      <3> QED BY <1>1, <3>1 DEF Sorted
    <2>3. CASE i <= m /\ j > m
      <3>1. i \in 1..m /\ j \in (m + 1)..(m + n) /\ m \in 1..m
        BY <1>1, <1>3, <2>3
      <3>2. Tables!Newer(s[m], t[j - m])
        BY <1>1, <1>2, <3>1 DEF m
      <3>3. s[i] = s[m] \/ Tables!Newer(s[i], s[m])
        <4>1. i = m \/ i < m
          BY <1>1, <3>1
        <4> QED BY <1>1, <3>1, <4>1 DEF Sorted
      <3>4. Tables!Newer(s[i], t[j - m])
        BY <1>1, <3>1, <3>2, <3>3, NewerOrders
      <3> QED BY <1>1, <3>1, <3>4
    <2> QED BY <1>1, <2>1, <2>2, <2>3
  <1> QED BY <1>1, <1>3 DEF Sorted, u

(* And it has the elements of both, and ends as the second does.               *)
LEMMA ConcatHasBoth ==
    ASSUME NEW s \in Seq(Entries), NEW t \in Seq(Entries)
    PROVE  /\ Tables!ToSet(s) \subseteq Tables!ToSet(s \o t)
           /\ \A i \in DOMAIN t : t[i] \in Tables!ToSet(s \o t)
           /\ t # <<>> => s \o t # <<>> /\ (s \o t)[Len(s \o t)] = t[Len(t)]
  <1>1. /\ DOMAIN (s \o t) = 1..(Len(s) + Len(t)) /\ DOMAIN s = 1..Len(s) /\ DOMAIN t = 1..Len(t)
        /\ \A i \in 1..Len(s) : i \in 1..(Len(s) + Len(t)) /\ (s \o t)[i] = s[i]
        /\ \A i \in 1..Len(t) : i + Len(s) \in 1..(Len(s) + Len(t)) /\ (s \o t)[i + Len(s)] = t[i]
        /\ Len(s \o t) = Len(t) + Len(s)
    OBVIOUS
  <1>2. t # <<>> => Len(t) \in 1..Len(t)
    OBVIOUS
  <1>3. t # <<>> => s \o t # <<>>
    BY <1>1
  <1> QED BY <1>1, <1>2, <1>3 DEF Tables!ToSet

(* A client reads a page: what it had not seen is on it, or before its cursor. *)
LEMMA ReadKeeps ==
    ASSUME PagesInv, NEW p \in Projects, NEW kind, NEW limit \in Int,
           Tables!ReadPage(p, kind, limit)
    PROVE  PagesInv'
  <1> DEFINE page == Tables!ListJournal(p, kind, pager.cursor, limit)
             R == Tables!Selected(p, kind, pager.cursor)
             there == {e \in journal : e.project = p /\ kind \in {"", e.kind}}
  <1>1. /\ pager.pc = "idle" \/ (pager.pc = "reading" /\ pager.project = p /\ pager.kind = kind)
        /\ pager'.pc = (IF page.next = <<>> THEN "done" ELSE "reading")
        /\ pager'.project = p /\ pager'.kind = kind /\ pager'.cursor = page.next
        /\ pager'.seen = pager.seen \o page.entries
        /\ pager'.start = (IF pager.pc = "idle" THEN there ELSE pager.start)
        /\ UNCHANGED <<journal, lastId>>
    BY DEF Tables!ReadPage
  <1>2. /\ page.entries \in Seq(R) /\ Sorted(page.entries)
        /\ page.next = <<>> => \A e \in R : \E i \in DOMAIN page.entries : page.entries[i] = e
        /\ page.next # <<>> =>
              /\ page.entries # <<>>
              /\ page.next = Tables!encodeJournalCursor(page.entries[Len(page.entries)])
              /\ \A e \in R : \/ \E i \in DOMAIN page.entries : page.entries[i] = e
                              \/ Tables!before(e, page.next)
    BY PageIsSorted DEF PagesInv
  <1>3. R \subseteq Entries /\ R \subseteq journal /\ \A e \in R : Tables!before(e, pager.cursor)
    BY DEF PagesInv, JournalTyped, Tables!Selected
  <1>4. there \subseteq journal /\ (pager.pc = "idle" => there = R)
    BY DEF PagesInv, PagerInv, Tables!Selected, Tables!before
  <1>5. \A e \in pager.start \cap journal : pager.pc = "reading" => e \in Tables!ToSet(pager.seen) \cup R
    BY <1>1 DEF PagesInv, PagerInv, Tables!Selected
  <1>6. \A e \in pager.start \cap journal : pager.pc = "reading" =>
           e.project = p /\ kind \in {"", e.kind}
    BY <1>1 DEF PagesInv, PagerInv
  <1>7. \A e \in there : e.project = p /\ kind \in {"", e.kind}
    OBVIOUS
  <1> HIDE DEF page, R, there
  <1>8. /\ pager.seen \in Seq(Entries) /\ page.entries \in Seq(Entries)
        /\ \A i \in DOMAIN page.entries : page.entries[i] \in R
    <2>1. Seq(R) \subseteq Seq(Entries)
      BY <1>3
    <2>2. \A i \in DOMAIN page.entries : page.entries[i] \in R
      BY <1>2
    <2> QED BY <1>2, <2>1, <2>2 DEF PagesInv, PagerInv
  <1>9. pager.seen # <<>> => \A j \in DOMAIN page.entries :
           Tables!Newer(pager.seen[Len(pager.seen)], page.entries[j])
    BY <1>1, <1>3, <1>8, CursorOf DEF PagesInv, PagerInv
  <1>10. pager'.seen \in Seq(Entries) /\ Sorted(pager'.seen)
    BY <1>1, <1>2, <1>8, <1>9, SortedConcat DEF PagesInv, PagerInv
  <1>11. /\ Tables!ToSet(pager.seen) \subseteq Tables!ToSet(pager'.seen)
         /\ \A i \in DOMAIN page.entries : page.entries[i] \in Tables!ToSet(pager'.seen)
         /\ page.entries # <<>> => /\ pager'.seen # <<>>
                                   /\ pager'.seen[Len(pager'.seen)] = page.entries[Len(page.entries)]
    BY <1>1, <1>8, ConcatHasBoth
  <1>12. \A e \in pager'.start \cap journal :
            /\ e \in Tables!ToSet(pager.seen) \cup R
            /\ e.project = p /\ kind \in {"", e.kind}
    BY <1>1, <1>4, <1>5, <1>6, <1>7
  <1>13. page.next = <<>> => pager'.start \cap journal \subseteq Tables!ToSet(pager'.seen)
    <2> SUFFICES ASSUME page.next = <<>>, NEW e \in pager'.start \cap journal
                 PROVE  e \in Tables!ToSet(pager'.seen)
      OBVIOUS
    <2>1. CASE e \in Tables!ToSet(pager.seen)
      BY <1>11, <2>1
    <2>2. CASE e \in R
      <3>1. PICK i \in DOMAIN page.entries : page.entries[i] = e
        BY <1>2, <2>2
      <3> QED BY <1>11, <3>1
    <2> QED BY <1>12, <2>1, <2>2
  <1>14. page.next # <<>> => \A e \in pager'.start \cap journal :
            e \in Tables!ToSet(pager'.seen) \/ Tables!before(e, page.next)
    BY <1>2, <1>11, <1>12
  <1>15. JournalTyped'
    <2>1. \A e \in pager'.start : e.id <= lastId /\ e \in Entries
      BY <1>1, <1>4 DEF PagesInv, JournalTyped
    <2> QED BY <1>1, <2>1 DEF PagesInv, JournalTyped
  <1>16. PagerInv'
    <2>1. CASE page.next = <<>>
      BY <1>1, <1>10, <1>13, <2>1 DEF PagerInv
    <2>2. CASE page.next # <<>>
      BY <1>1, <1>2, <1>10, <1>11, <1>12, <1>14, <2>2 DEF PagerInv
    <2> QED BY <2>1, <2>2
  <1> QED BY <1>15, <1>16 DEF PagesInv

(* An entry that is added was not there when the client began.                 *)
LEMMA AppendKeeps ==
    ASSUME PagesInv, NEW p \in Projects, NEW kind \in {"pr", "note"},
           NEW at \in 1..MaxTime, Tables!AppendJournalEntry(p, kind, at)
    PROVE  PagesInv'
  <1> DEFINE new == [id |-> lastId + 1, project |-> p, kind |-> kind, at |-> at]
  <1>1. journal' = journal \cup {new} /\ lastId' = lastId + 1 /\ pager' = pager
    BY DEF Tables!AppendJournalEntry, Tables!content
  <1>2. new \in Entries /\ new.id = lastId + 1 /\ lastId \in Nat
    BY PagesAssumption DEF PagesInv, JournalTyped, Entries
  <1>3. IsFiniteSet(journal')
    BY <1>1, FS_AddElement DEF PagesInv, JournalTyped
  <1> HIDE DEF new
  <1>4. \A e \in journal \cup pager.start : e.id \in Nat /\ e.id < lastId + 1 /\ e.id < new.id
    BY <1>2 DEF PagesInv, JournalTyped, Entries
  <1>5. new \notin pager.start
    BY <1>2, <1>4 DEF Entries
  <1>6. \A e \in journal : e.id \in Nat /\ e.id # new.id
    BY <1>2, <1>4 DEF PagesInv, JournalTyped, Entries
  <1>7. JournalTyped'
    <2>1. \A e \in journal \cup pager.start : e.id <= lastId + 1
      BY <1>2, <1>4
    <2> QED BY <1>1, <1>2, <1>3, <1>6, <2>1 DEF PagesInv, JournalTyped
  <1>8. pager.start \cap journal' = pager.start \cap journal
    BY <1>1, <1>5
  <1>9. PagerInv'
    BY <1>1, <1>8 DEF PagesInv, PagerInv
  <1> QED BY <1>7, <1>9 DEF PagesInv

(* Entries that go take nothing from what the client has seen.                 *)
LEMMA ShrinkKeeps ==
    ASSUME PagesInv, journal' \subseteq journal, UNCHANGED <<lastId, pager>>
    PROVE  PagesInv'
  <1>1. IsFiniteSet(journal')
    BY FS_Subset DEF PagesInv, JournalTyped
  <1>2. JournalTyped'
    BY <1>1 DEF PagesInv, JournalTyped
  <1>3. PagerInv'
    BY DEF PagesInv, PagerInv
  <1> QED BY <1>2, <1>3 DEF PagesInv

(* What a client asks a page to hold is a number.                              *)
LEMMA LimitsAreNumbers == \A limit \in {0, MaxPage + 1} : limit \in Int
  BY PagesAssumption

(* Every step preserves the inductive invariant.                               *)
LEMMA PagesNext ==
    ASSUME PagesInv, [Tables!Next]_(Tables!vars)
    PROVE  PagesInv'
  <1> DEFINE Shrinks == journal' \subseteq journal /\ UNCHANGED <<lastId, pager>>
  <1>1. CASE UNCHANGED Tables!vars
    BY <1>1, ShrinkKeeps DEF Tables!vars, Tables!journals
  <1>2. ASSUME NEW p, Tables!CreateProject(p) \/ Tables!DeleteProject(p)
        PROVE  Shrinks
    BY <1>2 DEF Tables!CreateProject, Tables!DeleteProject, Tables!journals
  <1>3. CASE Tables!Schema \/ Tables!Inbox \/ Tables!Jobs \/ Tables!Keyed
    BY <1>3, ShrinkKeeps DEF Tables!Schema, Tables!Inbox, Tables!Jobs, Tables!Keyed, Tables!journals
  <1>4. CASE Tables!Content
    <2>1. ASSUME NEW i, NEW p, Tables!CreateSession(i, p) \/ Tables!CreatePreview(i, p)
                               \/ Tables!CreateMemory(i, p)
          PROVE  Shrinks
      BY <2>1 DEF Tables!CreateSession, Tables!CreatePreview, Tables!CreateMemory, Tables!journals
    <2>2. ASSUME NEW i, NEW field, NEW value, Tables!UpdateSession(i, field, value)
          PROVE  Shrinks
      BY <2>2 DEF Tables!UpdateSession, Tables!journals
    <2>3. ASSUME NEW i, \/ Tables!EndSession(i) \/ Tables!ReopenSession(i)
                        \/ Tables!SetSessionAgentSessionID(i) \/ Tables!IncrSessionToolCalls(i)
                        \/ Tables!UpdateSessionUsage(i, 1)
          PROVE  Shrinks
      BY <2>2, <2>3 DEF Tables!EndSession, Tables!ReopenSession, Tables!SetSessionAgentSessionID,
         Tables!IncrSessionToolCalls, Tables!UpdateSessionUsage
    <2>4. ASSUME NEW i, \/ Tables!DeleteSession(i) \/ Tables!AppendSessionEvent(i)
                        \/ Tables!UpdatePreview(i, TRUE) \/ Tables!UpdatePreview(i, FALSE)
                        \/ Tables!DeletePreview(i) \/ Tables!UpdateMemory(i) \/ Tables!DeleteMemory(i)
          PROVE  Shrinks
      BY <2>4 DEF Tables!DeleteSession, Tables!AppendSessionEvent, Tables!UpdatePreview,
         Tables!DeletePreview, Tables!UpdateMemory, Tables!DeleteMemory, Tables!journals
    <2>5. ASSUME Tables!DiffSummaries
          PROVE  Shrinks
      BY <2>5 DEF Tables!DiffSummaries, Tables!journals
    <2>6. Shrinks
      <3> HIDE DEF Shrinks
      <3> QED BY <1>2, <1>4, <2>1, <2>3, <2>4, <2>5 DEF Tables!Content, Tables!OwnedRows
    <2> QED BY <2>6, ShrinkKeeps
  <1>5. CASE Tables!Journal
    <2>1. ASSUME NEW p \in Projects, Tables!CreateProject(p) \/ Tables!DeleteProject(p)
          PROVE  PagesInv'
      BY <1>2, <2>1, ShrinkKeeps
    <2>2. ASSUME NEW p \in Projects, NEW kind \in {"pr", "note"}, NEW at \in 1..MaxTime,
                 Tables!AppendJournalEntry(p, kind, at)
          PROVE  PagesInv'
      BY <2>2, AppendKeeps
    <2>3. ASSUME NEW p \in Projects, NEW kind \in {"", "pr"}, NEW limit \in {0, MaxPage + 1},
                 Tables!ReadPage(p, kind, limit)
          PROVE  PagesInv'
      BY <2>3, LimitsAreNumbers, ReadKeeps
    <2> QED BY <1>5, <2>1, <2>2, <2>3 DEF Tables!Journal
  <1> QED BY <1>1, <1>3, <1>4, <1>5 DEF Tables!Next

(* A journal nobody has read yet.                                              *)
LEMMA InitPages == Tables!Init => PagesInv
  <1> SUFFICES ASSUME Tables!Init PROVE PagesInv
    OBVIOUS
  <1>1. /\ journal = {} /\ lastId = 0 /\ pager.pc = "idle" /\ pager.cursor = <<>>
        /\ pager.seen = <<>> /\ pager.start = {}
    BY DEF Tables!Init, Tables!NoPager
  <1>2. IsFiniteSet(journal)
    BY <1>1, FS_EmptySet
  <1>3. JournalTyped
    BY <1>1, <1>2 DEF JournalTyped
  <1>4. PagerInv
    BY <1>1 DEF PagerInv, Sorted
  <1> QED BY <1>3, <1>4 DEF PagesInv

(* The journal and its pages, for any projects, times and sizes of a page.     *)
THEOREM PagesInductive == Tables!Spec => []PagesInv
  BY InitPages, PagesNext, PTL DEF Tables!Spec

(* What PagerInv says of a client that is done.                                *)
LEMMA PagesImply == PagesInv => PagesAreComplete
  BY DEF PagesInv, PagerInv, Sorted, PagesAreComplete, Tables!PagesAreComplete

(* PagesAreComplete: a client that reads the journal page by page while        *)
(* entries are added and projects deleted sees what was there and stayed, each *)
(* entry once and newest first.                                                *)
THEOREM PagesMissNothing == Tables!Spec => []PagesAreComplete
  BY PagesImply, PagesInductive, PTL

--------------------------------------------------------------------------------
(* The composition the runs check.                                             *)

(* A step of one part is a stutter of every other, which share no variable.    *)
LEMMA EveryStepIsAParts ==
    ASSUME [ServicesNext]_<<part, engineVars, relayVars, bookVars, cacheVars, storeVars, stepVars>>
    PROVE  /\ [Next]_vars
           /\ [Relay!Next]_(Relay!vars)
           /\ [Book!Next]_(Book!vars)
           /\ [Cache!Next]_(Cache!vars)
           /\ [Tables!Next]_(Tables!vars)
           /\ [Steps!Next]_(Steps!vars)
  <1>1. UNCHANGED engineVars => UNCHANGED vars
    BY DEF engineVars
  <1>2. UNCHANGED relayVars => UNCHANGED Relay!vars
    BY DEF relayVars, Relay!vars
  <1>3. UNCHANGED bookVars => UNCHANGED Book!vars
    BY DEF bookVars, Book!vars
  <1>4. UNCHANGED cacheVars => UNCHANGED Cache!vars
    BY DEF cacheVars, Cache!vars
  <1>5. UNCHANGED storeVars => UNCHANGED Tables!vars
    BY DEF storeVars, Tables!vars, Tables!content, Tables!journals, Tables!alerts, Tables!work
  <1>6. UNCHANGED stepVars => UNCHANGED Steps!vars
    BY DEF stepVars, Steps!vars, Steps!hostVars, Steps!stepVars
  <1>7. CASE UNCHANGED <<part, engineVars, relayVars, bookVars, cacheVars, storeVars, stepVars>>
    BY <1>7, <1>1, <1>2, <1>3, <1>4, <1>5, <1>6
  <1>8. CASE ServicesNext
    BY <1>8, <1>1, <1>2, <1>3, <1>4, <1>5, <1>6
    DEF ServicesNext, Engine, Relays, Playbooks, Requested, Stores, Runs
  <1> QED BY <1>7, <1>8

(* Every behaviour of ServicesSpec, which the runs check, is one of each part  *)
(* on its own, so that what is proved of a part holds in it: the monitor       *)
(* engine, the relay's client, the playbook service, the cache of request ids, *)
(* the tables of the store, and a step on the host.                            *)
THEOREM EveryRunIsItsParts ==
    ServicesSpec => /\ Init /\ [][Next]_vars
                    /\ Relay!Spec
                    /\ Book!Init /\ [][Book!Next]_(Book!vars)
                    /\ Cache!Spec
                    /\ Tables!Init /\ [][Tables!Next]_(Tables!vars)
                    /\ Steps!Spec
  <1>1. ServicesInit => /\ Init /\ Relay!Init /\ Book!Init /\ Cache!Init
                        /\ Tables!Init /\ Steps!Init
    BY DEF ServicesInit
  <1> QED BY <1>1, EveryStepIsAParts, PTL
          DEF ServicesSpec, Relay!Spec, Cache!Spec, Steps!Spec

(* All the safety of the services at once, of the behaviours the runs check:   *)
(* pages need streaks and episodes were paged, no sequence number is reused    *)
(* and an enrolment survives a restart, no incident has two playbooks, no      *)
(* repeated request is dispatched, the foreign keys of the store leave no      *)
(* orphans, its journal's pages miss nothing and its history stays, and no     *)
(* step on the host verifies a restart both looks could count as steady,       *)
(* signals another process, or closes a port sshd was seen to use.             *)
THEOREM ServicesAreSafe ==
    ServicesSpec =>
        /\ [](PageNeedsStreak /\ EpisodeWasPaged)
        /\ [](NeverReusesSeq /\ RestartResumes)
        /\ []OnePlaybookPerIncident
        /\ []NotDispatchedTwice
        /\ [](NoOrphans /\ PagesAreComplete) /\ HistoryIsKept
        /\ [](VerifiedIsSteady /\ OnlyTheMeantIsSignalled) /\ AccessIsKept
  <1>1. Init /\ [][Next]_vars => [](PageNeedsStreak /\ EpisodeWasPaged)
    <2>1. EngineInv => PageNeedsStreak /\ EpisodeWasPaged
      BY DEF EngineInv, CountsInv, PageNeedsStreak
    <2> QED BY <2>1, InitEngine, EngineNext, PTL
  <1>2. Book!Init /\ [][Book!Next]_(Book!vars) => []OnePlaybookPerIncident
    BY BookImplies, InitBook, BookNext, PTL
  <1>3. Tables!Init /\ [][Tables!Next]_(Tables!vars) => []NoOrphans /\ HistoryIsKept
    BY StoreImplies, InitStore, StoreNext, HistoryNext, PTL
    DEF HistoryIsKept, Tables!HistoryIsKept, Kept
  <1>4. Tables!Init /\ [][Tables!Next]_(Tables!vars) => []PagesAreComplete
    BY PagesImply, InitPages, PagesNext, PTL
  <1> QED
    BY <1>1, <1>2, <1>3, <1>4, EveryRunIsItsParts, SeqIsNeverReused, EnrolmentIsResumed,
       RepeatsAreKnown, SteadyIsSteady, SignalsReachTheMeant, AccessStays, PTL
================================================================================
