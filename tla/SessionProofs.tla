---------------------------- MODULE SessionProofs ----------------------------
(***************************************************************************)
(* Proofs about the two machines of a session.  About ProxyLifecycle, for  *)
(* any number of commands, ports, targets and events around them: the      *)
(* types, what holds in every order of the commands, and what holds when   *)
(* one command gets as far as its agent before the next one begins.  About *)
(* CaStore, for any number of processes, pairs and launches: what the      *)
(* files may hold in every interleaving, and what they hold when processes *)
(* do not overlap, wherever one of them dies.                              *)
(***************************************************************************)
EXTENDS ProxyLifecycle, CaStore, TLAPS

-----------------------------------------------------------------------------
(* ProxyLifecycle. *)

Settled == {"agent", "done", "failed", "aborted"}
BeforeRun == {"free", "image", "remove", "run"}

\* A container a command ran goes with it, or it has not failed.
Owners == {"ready", "giveup", "probe", "agent", "done", "aborted"}
OwnerInv ==
    obeys => \A c \in Commands : Running /\ container.by = c => cmd[c].stage \in Owners

\* What a command knows of the container that only it and a removal may change.
Knows(c) ==
    /\ cmd[c].stage \in {"unborn", "port", "busy", "idle", "spec", "stop"} => cmd[c].replaced = {}
    /\ cmd[c].stage \in {"port", "busy", "idle", "spec", "stop", "ready"} \cup BeforeRun
          => cmd[c].target \subseteq cmd[c].spec
    /\ At(c, "idle") => ~BoundTo(cmd[c].port)
    /\ At(c, "spec") => cmd[c].target # {} /\ (Running => BoundTo(cmd[c].port))
    /\ At(c, "stop") /\ reads => (Running => container.spec \subseteq cmd[c].spec)
    /\ cmd[c].stage \in BeforeRun \cup {"ready"} /\ reads => cmd[c].replaced \subseteq cmd[c].spec
    /\ At(c, "ready") => (Running => BoundTo(cmd[c].port) /\ container.spec = cmd[c].spec)
    /\ At(c, "probe") => (Running => /\ BoundTo(cmd[c].port)
                                     /\ cmd[c].target \subseteq container.spec
                                     /\ reads => cmd[c].replaced \subseteq container.spec)

\* It started a container where it found none.
HasStarted(c) ==
    \/ cmd[c].stage \in {"probe", "agent"} /\ cmd[c].started
    \/ At(c, "ready") /\ ~cmd[c].wasRunning

\* It removed a container, or found it removed, and runs it again.
Recreates(c) == cmd[c].stage \in BeforeRun /\ cmd[c].wasRunning

\* The sessions whose container a session has seen have settled before it
\* goes on, so that what runs once it has started its own is not theirs.
Lineages(c) ==
    /\ cmd[c].stage \in {"unborn", "port", "busy", "idle", "spec"} => ~cmd[c].wasRunning
    /\ Recreates(c) => cmd[c].lineage = Nobody \/ cmd[cmd[c].lineage].stage # "unborn"
    /\ \A d \in cmd[c].before : d = Nobody \/ cmd[d].stage \in Settled
    /\ HasStarted(c) =>
          /\ container.up # "none" => container.lineage \notin cmd[c].before
          /\ \A e \in Commands : Recreates(e) => cmd[e].lineage \notin cmd[c].before

SerialInv ==
    serial =>
        /\ \A c, d \in Underway : c = d
        /\ container.lineage = Nobody \/ cmd[container.lineage].stage # "unborn"
        /\ \A c \in Commands : Knows(c) /\ Lineages(c)
-----------------------------------------------------------------------------
(* Types. *)

LEMMA StagesAre ==
    /\ Waiting \subseteq Stages
    /\ "unborn" \in Stages /\ "port" \in Stages /\ "busy" \in Stages /\ "idle" \in Stages
    /\ "spec" \in Stages /\ "stop" \in Stages /\ "free" \in Stages /\ "image" \in Stages
    /\ "remove" \in Stages /\ "run" \in Stages /\ "ready" \in Stages /\ "giveup" \in Stages
    /\ "probe" \in Stages /\ "agent" \in Stages /\ "done" \in Stages /\ "failed" \in Stages
    /\ "aborted" \in Stages
BY DEF Stages, Waiting

LEMMA UnbornType == \A s \in Stages : [Unborn(1) EXCEPT !.stage = s] \in CommandRecord
<1>1. Unborn(1) \in CommandRecord
  BY LifeAssumption, StagesAre DEF Unborn, CommandRecord, Ports
<1> QED BY <1>1 DEF CommandRecord

\* An event leaves the count of events within its bound.
LEMMA HappensType ==
    ASSUME LifeInv, Happens
    PROVE  events' \in 0..MaxEvents
BY LifeAssumption DEF LifeInv, Happens

\* A command record stays one when a field is given a value of its type.
LEMMA UpdateType ==
    ASSUME NEW f \in [Commands -> CommandRecord], NEW c \in Commands
    PROVE  /\ \A s \in Stages : [f EXCEPT ![c].stage = s] \in [Commands -> CommandRecord]
           /\ \A p \in Ports : [f EXCEPT ![c].port = p] \in [Commands -> CommandRecord]
           /\ \A b \in BOOLEAN : [f EXCEPT ![c].started = b] \in [Commands -> CommandRecord]
           /\ \A b \in BOOLEAN : [f EXCEPT ![c].wasRunning = b] \in [Commands -> CommandRecord]
           /\ \A x \in SUBSET Targets : [f EXCEPT ![c].spec = x] \in [Commands -> CommandRecord]
           /\ \A x \in SUBSET Targets : [f EXCEPT ![c].replaced = x] \in [Commands -> CommandRecord]
           /\ \A d \in Commands \cup {Nobody} :
                [f EXCEPT ![c].lineage = d] \in [Commands -> CommandRecord]
BY DEF CommandRecord

LEMMA NoContainerType == NoContainer \in Containers /\ NoContainer.up = "none"
BY LifeAssumption DEF NoContainer, Containers, Ports

LEMMA GotoType ==
    ASSUME LifeInv, NEW c \in Commands, NEW s \in Stages, Goto(c, s)
    PROVE  cmd' \in [Commands -> CommandRecord]
BY DEF Goto, LifeInv, CommandRecord

LEMMA EndsType ==
    ASSUME LifeInv, NEW c \in Commands, NEW s \in Stages, Ends(c, s)
    PROVE  cmd' \in [Commands -> CommandRecord]
BY UnbornType DEF Ends, LifeInv

LEMMA ReturnedType ==
    ASSUME LifeInv, NEW c \in Commands, NEW b \in BOOLEAN, Returned(c, b)
    PROVE  cmd' \in [Commands -> CommandRecord]
<1> DEFINE g == [cmd EXCEPT ![c].stage = "probe"]
<1>1. g \in [Commands -> CommandRecord]
  BY UpdateType, StagesAre DEF LifeInv
<1>2. [g EXCEPT ![c].started = b] \in [Commands -> CommandRecord]
  BY <1>1, UpdateType
<1> QED BY <1>2 DEF Returned

LEMMA CreatedType ==
    ASSUME LifeInv, NEW c \in Commands, NEW up \in {"stopped", "running"}
    PROVE  Created(c, up) \in Containers
BY DEF Created, LifeInv, CommandRecord, Containers

\* What a step has to show when it leaves the rest alone.
LEMMA RemovalType ==
    ASSUME LifeInv, RemoveByName
    PROVE  container' \in Containers /\ (Running' => container' = container)
BY NoContainerType DEF RemoveByName, LifeInv, Running

LEMMA LifeInvInit == LifeInit => LifeInv
<1> SUFFICES ASSUME LifeInit PROVE LifeInv
  OBVIOUS
<1>1. Unborn(1) \in CommandRecord
  BY LifeAssumption, StagesAre DEF Unborn, CommandRecord, Ports
<1>2. container \in Containers
  BY NoContainerType DEF LifeInit, NoContainer, Containers
<1> QED BY <1>1, <1>2, LifeAssumption DEF LifeInit, LifeInv

LEMMA LifeInvStep ==
    ASSUME LifeInv, [LifeNext]_lifeVars
    PROVE  LifeInv'
<1> USE StagesAre
<1>1. CASE UNCHANGED lifeVars
  BY <1>1 DEF lifeVars, LifeInv, Running
<1>2. CASE Environment
  <2>1. CASE StopCommand
    BY <2>1, RemovalType, HappensType DEF StopCommand, LifeInv, Running
  <2>2. CASE ContainerAnswers
    BY <2>2 DEF ContainerAnswers, LifeInv, Running, Containers
  <2>3. CASE ContainerStops
    <3>1. container' \in Containers /\ ~Running'
      BY <2>3 DEF ContainerStops, LifeInv, Running, Containers
    <3> QED BY <2>3, <3>1, HappensType DEF ContainerStops, LifeInv
  <2>4. CASE OthersListen
    <3>1. squatted' \subseteq Ports /\ (Running => container.port \notin squatted')
      BY <2>4 DEF OthersListen, LifeInv, InUse, BoundTo
    <3> QED BY <2>4, <3>1, HappensType DEF OthersListen, LifeInv, Running
  <2> QED BY <1>2, <2>1, <2>2, <2>3, <2>4 DEF Environment
<1>3. ASSUME NEW c \in Commands, Command(c)
      PROVE  LifeInv'
  <2> USE DEF At
  <2>1. ASSUME NEW kind \in {"agent", "start"}, NEW port \in Ports, NEW ephemeral \in BOOLEAN,
               NEW target \in {{}} \cup {{t} : t \in Targets}, Begin(c, kind, port, target, ephemeral)
        PROVE  LifeInv'
    <3>1. cmd' \in [Commands -> CommandRecord]
      <4>1. target \in SUBSET Targets
        OBVIOUS
      <4>2. container.lineage \in Commands \cup {Nobody}
        BY DEF LifeInv, Containers
      <4> QED BY <2>1, <4>1, <4>2 DEF Begin, LifeInv, CommandRecord
    <3> QED BY <2>1, <3>1 DEF Begin, LifeInv, Running
  <2>2. CASE DaemonDown(c)
    BY <2>2, EndsType DEF DaemonDown, LifeInv, Running
  <2>3. CASE CheckPort(c)
    BY <2>3, GotoType DEF CheckPort, LifeInv, Running
  <2>4. CASE FoundBusy(c)
    BY <2>4, GotoType, EndsType, ReturnedType DEF FoundBusy, LifeInv, Running
  <2>5. CASE ReadSpec(c)
    <3>1. cmd' \in [Commands -> CommandRecord]
      <4>1. CASE Returned(c, FALSE)
        BY <4>1, ReturnedType
      <4>2. CASE ~Returned(c, FALSE)
        <5>1. container.spec \in SUBSET Targets /\ cmd[c].target \in SUBSET Targets
          BY DEF LifeInv, Containers, CommandRecord
        <5>2. PICK spec \in SUBSET Targets :
                cmd' = [cmd EXCEPT ![c].stage = "stop", ![c].wasRunning = TRUE, ![c].spec = spec]
          BY <2>5, <4>2, <5>1 DEF ReadSpec, SpecsRead
        <5> DEFINE f == [cmd EXCEPT ![c].stage = "stop"]
                   g == [f EXCEPT ![c].wasRunning = TRUE]
        <5>3. f \in [Commands -> CommandRecord]
          BY UpdateType DEF LifeInv
        <5>4. g \in [Commands -> CommandRecord]
          BY <5>3, UpdateType
        <5>5. [g EXCEPT ![c].spec = spec] \in [Commands -> CommandRecord]
          BY <5>4, UpdateType
        <5> QED BY <5>2, <5>5
      <4> QED BY <4>1, <4>2
    <3> QED BY <2>5, <3>1 DEF ReadSpec, LifeInv, Running
  <2>6. CASE StopToRecreate(c)
    <3>1. cmd' \in [Commands -> CommandRecord]
      <4>1. container.spec \in SUBSET Targets /\ container.lineage \in Commands \cup {Nobody}
        BY DEF LifeInv, Containers
      <4>2. PICK lineage \in Commands \cup {Nobody}, replaced \in SUBSET Targets :
              cmd' = [cmd EXCEPT ![c].stage = "free", ![c].lineage = lineage, ![c].replaced = replaced]
        BY <2>6, <4>1 DEF StopToRecreate
      <4> DEFINE f == [cmd EXCEPT ![c].stage = "free"]
                 g == [f EXCEPT ![c].lineage = lineage]
      <4>3. f \in [Commands -> CommandRecord]
        BY UpdateType DEF LifeInv
      <4>4. g \in [Commands -> CommandRecord]
        BY <4>3, UpdateType
      <4>5. [g EXCEPT ![c].replaced = replaced] \in [Commands -> CommandRecord]
        BY <4>4, UpdateType
      <4> QED BY <4>2, <4>5
    <3> QED BY <2>6, <3>1, RemovalType DEF StopToRecreate, LifeInv, Running
  <2>7. CASE PortFreed(c)
    BY <2>7, GotoType DEF PortFreed, LifeInv, Running
  <2>8. CASE PortNotFreed(c)
    BY <2>8, EndsType DEF PortNotFreed, LifeInv, Running
  <2>9. CASE FoundIdle(c)
    BY <2>9, GotoType, EndsType, ReturnedType DEF FoundIdle, LifeInv, Running
  <2>10. CASE StartPort(c)
    <3>1. cmd' \in [Commands -> CommandRecord]
      <4>1. CASE Ends(c, "failed")
        BY <4>1, EndsType
      <4>2. CASE ~Ends(c, "failed")
        <5>1. cmd[c].port \in Ports
          BY DEF LifeInv, CommandRecord
        <5>2. AvailablePorts(cmd[c].port + 1) \subseteq Ports
          BY DEF AvailablePorts
        <5>3. PICK p \in Ports : cmd' = [cmd EXCEPT ![c].stage = "image", ![c].port = p]
          BY <2>10, <4>2, <5>1, <5>2 DEF StartPort
        <5> DEFINE f == [cmd EXCEPT ![c].stage = "image"]
        <5>4. f \in [Commands -> CommandRecord]
          BY UpdateType DEF LifeInv
        <5>5. [f EXCEPT ![c].port = p] \in [Commands -> CommandRecord]
          BY <5>4, UpdateType
        <5> QED BY <5>3, <5>5
      <4> QED BY <4>1, <4>2
    <3> QED BY <2>10, <3>1 DEF StartPort, LifeInv, Running
  <2>11. CASE EnsureImage(c)
    BY <2>11, GotoType, EndsType DEF EnsureImage, LifeInv, Running
  <2>12. CASE RemoveOld(c)
    BY <2>12, GotoType, RemovalType DEF RemoveOld, LifeInv, Running
  <2>13. CASE DockerRun(c)
    <3>1. cmd' \in [Commands -> CommandRecord]
      BY <2>13, GotoType, EndsType DEF DockerRun
    <3>2. container' \in Containers /\ container'.port \notin squatted
      BY <2>13, CreatedType DEF DockerRun, Created, InUse
    <3> QED BY <2>13, <3>1, <3>2 DEF DockerRun, LifeInv, Running
  <2>14. CASE DockerRunFails(c)
    <3>1. cmd' \in [Commands -> CommandRecord]
      BY <2>14, EndsType DEF DockerRunFails
    <3>2. container' \in Containers /\ (Running' => container' = container)
      <4>1. CASE container' = container
        BY <4>1 DEF LifeInv
      <4>2. CASE container' = Created(c, "stopped")
        BY <4>2, CreatedType DEF Created, Running
      <4> QED BY <2>14, <4>1, <4>2 DEF DockerRunFails
    <3> QED BY <2>14, <3>1, <3>2 DEF DockerRunFails, LifeInv, Running
  <2>15. CASE ProxyReady(c)
    <3>1. (~cmd[c].wasRunning) \in BOOLEAN
      OBVIOUS
    <3> QED BY <2>15, <3>1, ReturnedType DEF ProxyReady, LifeInv, Running
  <2>16. CASE ProxyNotReady(c)
    BY <2>16, GotoType DEF ProxyNotReady, LifeInv, Running
  <2>17. CASE GiveUp(c)
    BY <2>17, EndsType, RemovalType DEF GiveUp, LifeInv, Running
  <2>18. CASE RunAgent(c)
    BY <2>18, GotoType DEF RunAgent, LifeInv, Running
  <2>19. CASE AgentEnds(c)
    <3>1. container' \in Containers /\ (Running' => container' = container)
      BY <2>19, RemovalType DEF AgentEnds, LifeInv, Running
    <3> QED BY <2>19, <3>1, EndsType DEF AgentEnds, LifeInv, Running
  <2>20. CASE Interrupted(c)
    BY <2>20, EndsType, HappensType DEF Interrupted, LifeInv, Running
  <2> QED
    BY <1>3, <2>1, <2>2, <2>3, <2>4, <2>5, <2>6, <2>7, <2>8, <2>9, <2>10, <2>11, <2>12, <2>13,
       <2>14, <2>15, <2>16, <2>17, <2>18, <2>19, <2>20 DEF Command, Ensure
<1> QED BY <1>1, <1>2, <1>3 DEF LifeNext

(* Every container, port and command has its type, and no two programs have  *)
(* one port, whatever the commands do and in whatever order.                 *)
THEOREM LifeTypes == LifeSpec => []LifeInv
<1>1. LifeInit => LifeInv
  BY LifeInvInit
<1>2. LifeInv /\ [LifeNext]_lifeVars => LifeInv'
  BY LifeInvStep
<1> QED BY <1>1, <1>2, PTL DEF LifeSpec
-----------------------------------------------------------------------------
(* Every order of the commands. *)

\* A step of a command changes no other command's record.
LEMMA GotoIs ==
    ASSUME LifeInv, NEW c \in Commands, NEW s, Goto(c, s)
    PROVE  /\ cmd'[c].stage = s /\ cmd'[c].port = cmd[c].port /\ cmd'[c].target = cmd[c].target
           /\ cmd'[c].spec = cmd[c].spec /\ cmd'[c].replaced = cmd[c].replaced
           /\ cmd'[c].wasRunning = cmd[c].wasRunning /\ cmd'[c].started = cmd[c].started
           /\ cmd'[c].lineage = cmd[c].lineage /\ cmd'[c].before = cmd[c].before
           /\ \A d \in Commands : d # c => cmd'[d] = cmd[d]
BY DEF Goto, LifeInv, CommandRecord

LEMMA EndsIs ==
    ASSUME LifeInv, NEW c \in Commands, NEW s, Ends(c, s)
    PROVE  /\ cmd'[c].stage = s /\ cmd'[c].before = {}
           /\ \A d \in Commands : d # c => cmd'[d] = cmd[d]
BY DEF Ends, LifeInv, Unborn

LEMMA ReturnedIs ==
    ASSUME LifeInv, NEW c \in Commands, NEW b, Returned(c, b)
    PROVE  /\ cmd'[c].stage = "probe" /\ cmd'[c].started = b
           /\ cmd'[c].port = cmd[c].port /\ cmd'[c].target = cmd[c].target
           /\ cmd'[c].replaced = cmd[c].replaced /\ cmd'[c].before = cmd[c].before
           /\ cmd'[c].wasRunning = cmd[c].wasRunning
           /\ \A d \in Commands : d # c => cmd'[d] = cmd[d]
BY DEF Returned, LifeInv, CommandRecord

\* Removal by name leaves no container, or the one there was.
LEMMA RemovalIs ==
    ASSUME RemoveByName
    PROVE  /\ container'.up = "none" \/ container' = container
           /\ obeys => container'.up = "none"
           /\ container'.up = "none" => container'.lineage = Nobody \/ container' = container
BY DEF RemoveByName, NoContainer

LEMMA OwnerStep ==
    ASSUME LifeInv, OwnerInv, [LifeNext]_lifeVars
    PROVE  OwnerInv'
<1> SUFFICES ASSUME obeys', NEW d \in Commands, Running', container'.by = d
             PROVE  cmd'[d].stage \in Owners
  BY DEF OwnerInv
<1> USE DEF At
<1>1. CASE UNCHANGED lifeVars
  BY <1>1 DEF lifeVars, OwnerInv, Running
<1>2. CASE Environment
  <2>1. CASE StopCommand
    BY <2>1, RemovalIs DEF StopCommand, Running
  <2>2. CASE ContainerAnswers \/ ContainerStops
    BY <2>2 DEF ContainerAnswers, ContainerStops, OwnerInv, Running, LifeInv, Containers
  <2>3. CASE OthersListen
    BY <2>3 DEF OthersListen, OwnerInv, Running
  <2> QED BY <1>2, <2>1, <2>2, <2>3 DEF Environment
<1>3. ASSUME NEW c \in Commands, Command(c)
      PROVE  cmd'[d].stage \in Owners
  \* A step that makes no container of c's: it keeps a stage of Owners in Owners.
  <2>0. ASSUME container' = container, obeys' = obeys,
               \A e \in Commands : e # c => cmd'[e] = cmd[e],
               cmd[c].stage \in Owners => cmd'[c].stage \in Owners
        PROVE  cmd'[d].stage \in Owners
    BY <2>0 DEF OwnerInv, Running
  <2>1. ASSUME NEW kind \in {"agent", "start"}, NEW port \in Ports, NEW ephemeral \in BOOLEAN,
               NEW target \in {{}} \cup {{t} : t \in Targets}, Begin(c, kind, port, target, ephemeral)
        PROVE  cmd'[d].stage \in Owners
    <3>1. cmd[c].stage \notin Owners
      BY <2>1 DEF Begin, Owners
    <3>2. \A e \in Commands : e # c => cmd'[e] = cmd[e]
      BY <2>1 DEF Begin, LifeInv
    <3> QED BY <2>0, <2>1, <3>1, <3>2 DEF Begin
  <2>2. CASE DaemonDown(c)
    BY <2>0, <2>2, EndsIs DEF DaemonDown, Owners
  <2>3. CASE CheckPort(c)
    BY <2>0, <2>3, GotoIs DEF CheckPort, Owners
  <2>4. CASE FoundBusy(c)
    BY <2>0, <2>4, GotoIs, EndsIs, ReturnedIs DEF FoundBusy, Owners
  <2>5. CASE ReadSpec(c)
    <3>1. cmd[c].stage \notin Owners
      BY <2>5 DEF ReadSpec, Owners
    <3>2. \A e \in Commands : e # c => cmd'[e] = cmd[e]
      BY <2>5, ReturnedIs DEF ReadSpec, LifeInv
    <3> QED BY <2>0, <2>5, <3>1, <3>2 DEF ReadSpec
  <2>6. CASE StopToRecreate(c)
    BY <2>6, RemovalIs DEF StopToRecreate, Running
  <2>7. CASE PortFreed(c)
    BY <2>0, <2>7, GotoIs DEF PortFreed, Owners
  <2>8. CASE PortNotFreed(c)
    BY <2>0, <2>8, EndsIs DEF PortNotFreed, Owners
  <2>9. CASE FoundIdle(c)
    BY <2>0, <2>9, GotoIs, EndsIs, ReturnedIs DEF FoundIdle, Owners
  <2>10. CASE StartPort(c)
    <3>1. cmd[c].stage \notin Owners
      BY <2>10 DEF StartPort, Owners
    <3>2. \A e \in Commands : e # c => cmd'[e] = cmd[e]
      BY <2>10, EndsIs DEF StartPort, LifeInv
    <3> QED BY <2>0, <2>10, <3>1, <3>2 DEF StartPort
  <2>11. CASE EnsureImage(c)
    BY <2>0, <2>11, GotoIs, EndsIs DEF EnsureImage, Owners
  <2>12. CASE RemoveOld(c)
    BY <2>12, RemovalIs DEF RemoveOld, Running
  <2>13. CASE DockerRun(c)
    <3>1. container'.by = c
      BY <2>13 DEF DockerRun, Created
    <3>2. d = c
      BY <3>1
    <3>3. CASE Goto(c, "ready")
      BY <3>2, <3>3, GotoIs DEF Owners
    <3>4. CASE Ends(c, "done")
      BY <3>2, <3>4, EndsIs DEF Owners
    <3> QED BY <2>13, <3>3, <3>4 DEF DockerRun
  <2>14. CASE DockerRunFails(c)
    <3>1. container' = container
      BY <2>14 DEF DockerRunFails, Created, Running
    <3> QED BY <2>0, <2>14, <3>1, EndsIs DEF DockerRunFails, Owners
  <2>15. CASE ProxyReady(c)
    BY <2>0, <2>15, ReturnedIs DEF ProxyReady, Owners
  <2>16. CASE ProxyNotReady(c)
    BY <2>0, <2>16, GotoIs DEF ProxyNotReady, Owners
  <2>17. CASE GiveUp(c)
    BY <2>17, RemovalIs DEF GiveUp, Running
  <2>18. CASE RunAgent(c)
    BY <2>0, <2>18, GotoIs DEF RunAgent, Owners
  <2>19. CASE AgentEnds(c)
    <3>1. container' = container
      BY <2>19, RemovalIs DEF AgentEnds, Running
    <3> QED BY <2>0, <2>19, <3>1, EndsIs DEF AgentEnds, Owners
  <2>20. CASE Interrupted(c)
    BY <2>0, <2>20, EndsIs DEF Interrupted, Owners
  <2> QED
    BY <1>3, <2>1, <2>2, <2>3, <2>4, <2>5, <2>6, <2>7, <2>8, <2>9, <2>10, <2>11, <2>12, <2>13,
       <2>14, <2>15, <2>16, <2>17, <2>18, <2>19, <2>20 DEF Command, Ensure
<1> QED BY <1>1, <1>2, <1>3 DEF LifeNext

(* When docker rm -f works, no session that failed has left its container    *)
(* running, however the commands overlap (start.py:541-552).                 *)
THEOREM FailuresCleanUp == LifeSpec => []FailedStartLeavesNothing
<1>1. LifeInit => OwnerInv
  <2>1. LifeInit => container.by = Nobody
    <3>1. NoContainer.by = Nobody /\ NoContainer \in Containers
      BY NoContainerType DEF NoContainer
    <3>2. [NoContainer EXCEPT !.up = "running", !.answers = TRUE].by = Nobody
      BY <3>1 DEF Containers
    <3> QED BY <3>1, <3>2 DEF LifeInit
  <2> QED BY <2>1, LifeAssumption DEF OwnerInv
<1>2. LifeInv /\ OwnerInv /\ [LifeNext]_lifeVars => OwnerInv'
  BY OwnerStep
<1>3. OwnerInv => FailedStartLeavesNothing
  BY DEF OwnerInv, Owners, FailedStartLeavesNothing, At
<1> QED BY <1>1, <1>2, <1>3, LifeTypes, PTL DEF LifeSpec
-----------------------------------------------------------------------------
(* One command at a time. *)

LEMMA BeginIs ==
    ASSUME LifeInv, NEW c \in Commands, NEW kind, NEW port, NEW target, NEW ephemeral,
           Begin(c, kind, port, target, ephemeral)
    PROVE  /\ cmd'[c].stage = "port" /\ cmd'[c].target = target /\ cmd'[c].spec = target
           /\ cmd'[c].replaced = cmd[c].replaced /\ cmd'[c].wasRunning = cmd[c].wasRunning
           /\ cmd'[c].before \subseteq {container.lineage}
           /\ \A d \in Commands : d # c => cmd'[d] = cmd[d]
BY DEF Begin, LifeInv, CommandRecord

LEMMA ReadSpecIs ==
    ASSUME LifeInv, NEW c \in Commands, ReadSpec(c)
    PROVE  \/ /\ Returned(c, FALSE)
              /\ container.up = "none" \/ cmd[c].target \subseteq container.spec
           \/ /\ cmd'[c].stage = "stop" /\ cmd'[c].target = cmd[c].target
              /\ cmd[c].target \subseteq cmd'[c].spec
              /\ reads /\ container.up # "none" => container.spec \subseteq cmd'[c].spec
              /\ cmd'[c].replaced = cmd[c].replaced /\ cmd'[c].before = cmd[c].before
              /\ \A d \in Commands : d # c => cmd'[d] = cmd[d]
<1>1. PICK found \in SpecsRead :
        IF cmd[c].target \subseteq found
        THEN Returned(c, FALSE)
        ELSE cmd' = [cmd EXCEPT ![c].stage = "stop", ![c].wasRunning = TRUE,
                                ![c].spec = found \cup cmd[c].target]
  BY DEF ReadSpec
<1>2. CASE cmd[c].target \subseteq found
  <2>1. container.up = "none" \/ cmd[c].target \subseteq container.spec
    BY <1>2 DEF SpecsRead
  <2> QED BY <1>1, <1>2, <2>1
<1>3. CASE ~(cmd[c].target \subseteq found)
  <2>1. PICK spec : spec = found \cup cmd[c].target
    OBVIOUS
  <2>2. cmd' = [cmd EXCEPT ![c].stage = "stop", ![c].wasRunning = TRUE, ![c].spec = spec]
    BY <1>1, <1>3, <2>1
  <2>3. /\ cmd'[c].stage = "stop" /\ cmd'[c].target = cmd[c].target /\ cmd'[c].spec = spec
        /\ cmd'[c].replaced = cmd[c].replaced /\ cmd'[c].before = cmd[c].before
        /\ \A d \in Commands : d # c => cmd'[d] = cmd[d]
    BY <2>2 DEF LifeInv, CommandRecord
  <2>4. reads /\ container.up # "none" => container.spec \subseteq spec
    BY <2>1 DEF SpecsRead
  <2> QED BY <2>1, <2>3, <2>4
<1> QED BY <1>2, <1>3

LEMMA StopIs ==
    ASSUME LifeInv, NEW c \in Commands, StopToRecreate(c)
    PROVE  /\ cmd'[c].stage = "free" /\ cmd'[c].target = cmd[c].target
           /\ cmd'[c].spec = cmd[c].spec /\ cmd'[c].before = cmd[c].before
           /\ cmd'[c].replaced = IF Running THEN container.spec ELSE {}
           /\ cmd'[c].lineage = IF container.up = "none" THEN c ELSE container.lineage
           /\ \A d \in Commands : d # c => cmd'[d] = cmd[d]
BY DEF StopToRecreate, LifeInv, CommandRecord

LEMMA StartPortIs ==
    ASSUME LifeInv, NEW c \in Commands, StartPort(c), ~Ends(c, "failed")
    PROVE  /\ cmd'[c].stage = "image" /\ cmd'[c].target = cmd[c].target
           /\ cmd'[c].spec = cmd[c].spec /\ cmd'[c].before = cmd[c].before
           /\ cmd'[c].replaced = cmd[c].replaced /\ cmd'[c].wasRunning = cmd[c].wasRunning
           /\ \A d \in Commands : d # c => cmd'[d] = cmd[d]
BY DEF StartPort, LifeInv, CommandRecord

\* What a step of a command may do to the others, to the container, and to
\* what Lineages says of itself.
Frame(c) ==
    /\ serial' = serial /\ reads' = reads
    /\ \A d \in Commands : d # c => cmd'[d] = cmd[d]
    /\ cmd'[c].stage \in Waiting =>
          (At(c, "unborn") /\ Underway = {}) \/ cmd[c].stage \in Waiting
    /\ cmd[c].stage \notin Waiting => container' = container \/ container'.up = "none"
    /\ cmd'[c].stage # "unborn"
    /\ cmd[c].stage \in Settled => cmd'[c].stage \in Settled
    /\ \/ container'.up = "none" /\ container'.lineage = Nobody
       \/ container' = container
       \/ /\ At(c, "run")
          /\ container'.lineage = IF cmd[c].wasRunning THEN cmd[c].lineage ELSE c
    /\ cmd'[c].stage \in {"port", "busy", "idle", "spec"} => ~cmd'[c].wasRunning
    /\ Recreates(c)' =>
          \/ Recreates(c) /\ cmd'[c].lineage = cmd[c].lineage
          \/ /\ At(c, "stop")
             /\ cmd'[c].lineage = IF container.up = "none" THEN c ELSE container.lineage
    /\ \/ cmd'[c].before \subseteq cmd[c].before
       \/ Underway = {} /\ At(c, "unborn") /\ cmd'[c].before \subseteq {container.lineage}
    /\ HasStarted(c)' =>
          /\ cmd'[c].before = cmd[c].before
          /\ \/ HasStarted(c) /\ container' = container
             \/ At(c, "run") /\ ~cmd[c].wasRunning /\ container'.lineage = c

LEMMA FrameHolds ==
    ASSUME LifeInv, SerialInv, serial, NEW c \in Commands, Command(c)
    PROVE  Frame(c)
<1> USE DEF At, Waiting, Settled, BeforeRun, Recreates, HasStarted
<1>0. cmd[c].stage \in {"unborn", "port", "busy", "idle", "spec"} => ~cmd[c].wasRunning
  BY DEF SerialInv, Lineages
<1>1. ASSUME NEW kind \in {"agent", "start"}, NEW port \in Ports, NEW ephemeral \in BOOLEAN,
             NEW target \in {{}} \cup {{t} : t \in Targets}, Begin(c, kind, port, target, ephemeral)
      PROVE  Frame(c)
  BY <1>0, <1>1, BeginIs DEF Begin, Frame
<1>2. CASE DaemonDown(c)
  BY <1>2, EndsIs DEF DaemonDown, Frame
<1>3. CASE CheckPort(c)
  BY <1>0, <1>3, GotoIs DEF CheckPort, Frame
<1>4. CASE FoundBusy(c)
  <2>1. /\ At(c, "busy") /\ UNCHANGED <<serial, reads, container>>
        /\ Goto(c, "spec") \/ Ends(c, "failed") \/ Returned(c, FALSE)
    BY <1>4 DEF FoundBusy
  <2>2. CASE Goto(c, "spec")
    BY <1>0, <2>1, <2>2, GotoIs DEF Frame
  <2>3. CASE Ends(c, "failed")
    BY <2>1, <2>3, EndsIs DEF Frame
  <2>4. CASE Returned(c, FALSE)
    BY <2>1, <2>4, ReturnedIs DEF Frame
  <2> QED BY <2>1, <2>2, <2>3, <2>4
<1>5. CASE ReadSpec(c)
  BY <1>0, <1>5, ReadSpecIs, ReturnedIs DEF ReadSpec, Frame
<1>6. CASE StopToRecreate(c)
  BY <1>6, StopIs, RemovalIs DEF StopToRecreate, Frame
<1>7. CASE PortFreed(c)
  BY <1>7, GotoIs DEF PortFreed, Frame
<1>8. CASE PortNotFreed(c)
  BY <1>8, EndsIs DEF PortNotFreed, Frame
<1>9. CASE FoundIdle(c)
  <2>1. /\ At(c, "idle") /\ UNCHANGED <<serial, reads, container>>
        /\ Goto(c, "image") \/ Ends(c, "failed") \/ Returned(c, FALSE)
    BY <1>9 DEF FoundIdle
  <2>2. CASE Goto(c, "image")
    BY <1>0, <2>1, <2>2, GotoIs DEF Frame
  <2>3. CASE Ends(c, "failed")
    BY <2>1, <2>3, EndsIs DEF Frame
  <2>4. CASE Returned(c, FALSE)
    BY <2>1, <2>4, ReturnedIs DEF Frame
  <2> QED BY <2>1, <2>2, <2>3, <2>4
<1>10. CASE StartPort(c)
  BY <1>0, <1>10, EndsIs, StartPortIs DEF StartPort, Frame
<1>11. CASE EnsureImage(c)
  BY <1>11, GotoIs, EndsIs DEF EnsureImage, Frame
<1>12. CASE RemoveOld(c)
  BY <1>12, GotoIs, RemovalIs DEF RemoveOld, Frame
<1>13. CASE DockerRun(c)
  BY <1>13, GotoIs, EndsIs DEF DockerRun, Created, Frame
<1>14. CASE DockerRunFails(c)
  BY <1>14, EndsIs DEF DockerRunFails, Created, Frame
<1>15. CASE ProxyReady(c)
  BY <1>15, ReturnedIs DEF ProxyReady, Frame
<1>16. CASE ProxyNotReady(c)
  BY <1>16, GotoIs DEF ProxyNotReady, Frame
<1>17. CASE GiveUp(c)
  BY <1>17, EndsIs, RemovalIs DEF GiveUp, Frame
<1>18. CASE RunAgent(c)
  <2>1. /\ At(c, "probe") /\ cmd'[c].stage = "agent" /\ cmd'[c].started = cmd[c].started
        /\ cmd'[c].before = cmd[c].before /\ serial' = serial /\ reads' = reads
        /\ container' = container
        /\ \A d \in Commands : d # c => cmd'[d] = cmd[d]
    BY <1>18, GotoIs DEF RunAgent
  <2>2. HasStarted(c)' => HasStarted(c)
    BY <2>1
  <2>3. ~Recreates(c)'
    BY <2>1
  <2> QED BY ONLY <2>1, <2>2, <2>3 DEF Frame, Waiting, Settled
<1>19. CASE AgentEnds(c)
  BY <1>19, EndsIs, RemovalIs DEF AgentEnds, Frame
<1>20. CASE Interrupted(c)
  BY <1>20, EndsIs DEF Interrupted, Frame
<1> QED
  BY <1>1, <1>2, <1>3, <1>4, <1>5, <1>6, <1>7, <1>8, <1>9, <1>10, <1>11, <1>12, <1>13,
     <1>14, <1>15, <1>16, <1>17, <1>18, <1>19, <1>20 DEF Command, Ensure

\* A container that has not changed, or no longer runs, keeps what is known.
LEMMA KnowsKept ==
    ASSUME NEW d \in Commands, Knows(d), cmd'[d] = cmd[d], reads' = reads,
           Running' => /\ Running /\ container'.port = container.port
                       /\ container'.spec = container.spec
    PROVE  Knows(d)'
<1>1. /\ BoundTo(cmd[d].port)' => BoundTo(cmd[d].port)
      /\ Running' => Running
      /\ Running' => (BoundTo(cmd[d].port) => BoundTo(cmd[d].port)')
  BY DEF BoundTo, Running
<1> QED BY <1>1 DEF Knows, At

\* What a command knows is the same after a step of its own.
LEMMA OwnStep ==
    ASSUME LifeInv, SerialInv, serial, NEW c \in Commands, Command(c)
    PROVE  Knows(c)'
<1> USE DEF At, BeforeRun
<1>0. Knows(c)
  BY DEF SerialInv
\* Where a command has ended it need not know anything.
<1>a. ASSUME cmd'[c].stage \in {"giveup", "agent", "done", "failed", "aborted"}
      PROVE  Knows(c)'
  BY <1>a DEF Knows
<1>1. ASSUME NEW kind \in {"agent", "start"}, NEW port \in Ports, NEW ephemeral \in BOOLEAN,
             NEW target \in {{}} \cup {{t} : t \in Targets}, Begin(c, kind, port, target, ephemeral)
      PROVE  Knows(c)'
  <2>1. At(c, "unborn") /\ cmd'[c].stage = "port" /\ cmd'[c].target = cmd'[c].spec
    <3>1. At(c, "unborn")
      BY <1>1 DEF Begin
    <3> QED BY ONLY <3>1, <1>1, BeginIs, LifeInv, c \in Commands
  <2>2. cmd'[c].replaced = {}
    BY <1>0, <1>1, <2>1, BeginIs DEF Knows
  <2> QED BY <2>1, <2>2 DEF Knows
<1>2. CASE DaemonDown(c)
  BY <1>a, <1>2, EndsIs DEF DaemonDown
<1>3. CASE CheckPort(c)
  <2>1. ~InUse(cmd[c].port) => ~BoundTo(cmd[c].port)'
    BY <1>3, GotoIs DEF CheckPort, InUse, BoundTo, Running
  <2> QED BY <1>0, <1>3, <2>1, GotoIs DEF CheckPort, Knows
<1>4. CASE FoundBusy(c)
  <2>2. CASE Ends(c, "failed")
    BY <1>a, <2>2, EndsIs
  <2>3. CASE BoundTo(cmd[c].port) /\ cmd[c].target = {} /\ Returned(c, FALSE)
    BY <1>0, <1>4, <2>3, ReturnedIs DEF FoundBusy, Knows, BoundTo, Running
  <2>4. CASE BoundTo(cmd[c].port) /\ cmd[c].target # {} /\ Goto(c, "spec")
    BY <1>0, <1>4, <2>4, GotoIs DEF FoundBusy, Knows, BoundTo, Running
  <2> QED BY <1>4, <2>2, <2>3, <2>4 DEF FoundBusy
<1>5. CASE ReadSpec(c)
  <2>1. CASE Returned(c, FALSE) /\ (container.up = "none" \/ cmd[c].target \subseteq container.spec)
    BY <1>0, <1>5, <2>1, ReturnedIs DEF ReadSpec, Knows, BoundTo, Running
  <2>2. CASE ~Returned(c, FALSE)
    <3>1. /\ At(c, "spec") /\ container' = container /\ reads' = reads
      BY <1>5 DEF ReadSpec
    <3> QED BY <1>0, <1>5, <2>2, <3>1, ReadSpecIs DEF Knows, Running
  <2> QED BY <1>5, <2>1, <2>2, ReadSpecIs, ReturnedIs
<1>6. CASE StopToRecreate(c)
  BY <1>0, <1>6, StopIs DEF StopToRecreate, Knows
<1>7. CASE PortFreed(c)
  BY <1>0, <1>7, GotoIs DEF PortFreed, Knows
<1>8. CASE PortNotFreed(c)
  BY <1>a, <1>8, EndsIs DEF PortNotFreed
<1>9. CASE FoundIdle(c)
  <2>1. Goto(c, "image") \/ Ends(c, "failed")
    BY <1>0, <1>9 DEF FoundIdle, Knows
  <2>2. CASE Goto(c, "image")
    BY <1>0, <1>9, <2>2, GotoIs DEF FoundIdle, Knows
  <2> QED BY <1>a, <2>1, <2>2, EndsIs
<1>10. CASE StartPort(c)
  BY <1>0, <1>a, <1>10, EndsIs, StartPortIs DEF StartPort, Knows
<1>11. CASE EnsureImage(c)
  BY <1>0, <1>a, <1>11, GotoIs, EndsIs DEF EnsureImage, Knows
<1>12. CASE RemoveOld(c)
  BY <1>0, <1>12, GotoIs DEF RemoveOld, Knows
<1>13. CASE DockerRun(c)
  <2>1. container'.port = cmd[c].port /\ container'.spec = cmd[c].spec /\ container'.up = "running"
    BY <1>13 DEF DockerRun, Created
  <2>2. CASE Goto(c, "ready")
    BY <1>0, <1>13, <2>1, <2>2, GotoIs DEF DockerRun, Knows, BoundTo, Running
  <2> QED BY <1>a, <1>13, <2>2, EndsIs DEF DockerRun
<1>14. CASE DockerRunFails(c)
  BY <1>a, <1>14, EndsIs DEF DockerRunFails
<1>15. CASE ProxyReady(c)
  BY <1>0, <1>15, ReturnedIs DEF ProxyReady, Knows, BoundTo, Running
<1>16. CASE ProxyNotReady(c)
  BY <1>a, <1>16, GotoIs DEF ProxyNotReady
<1>17. CASE GiveUp(c)
  BY <1>a, <1>17, EndsIs DEF GiveUp
<1>18. CASE RunAgent(c)
  BY <1>a, <1>18, GotoIs DEF RunAgent
<1>19. CASE AgentEnds(c)
  BY <1>a, <1>19, EndsIs DEF AgentEnds
<1>20. CASE Interrupted(c)
  BY <1>a, <1>20, EndsIs DEF Interrupted
<1> QED
  BY <1>1, <1>2, <1>3, <1>4, <1>5, <1>6, <1>7, <1>8, <1>9, <1>10, <1>11, <1>12, <1>13,
     <1>14, <1>15, <1>16, <1>17, <1>18, <1>19, <1>20 DEF Command, Ensure

\* Steps of one command leave one command underway, and what the others know.
LEMMA CommandStep ==
    ASSUME LifeInv, SerialInv, serial, NEW c \in Commands, Frame(c), Knows(c)'
    PROVE  SerialInv'
<1> USE DEF At
<1>0. /\ \A a, b \in Underway : a = b
      /\ container.lineage = Nobody \/ cmd[container.lineage].stage # "unborn"
      /\ \A d \in Commands : Knows(d) /\ Lineages(d)
  BY DEF SerialInv
<1>1. \A a, b \in Underway' : a = b
  <2>1. \A a \in Underway' : a = c \/ a \in Underway
    BY DEF Underway, Frame
  <2>2. c \in Underway' => Underway = {} \/ c \in Underway
    BY DEF Underway, Frame
  <2> QED BY <1>0, <2>1, <2>2
\* A command that was born stays so, one that has settled too.
<1>2. \A d \in Commands : cmd[d].stage # "unborn" => cmd'[d].stage # "unborn"
  BY DEF Frame
<1>3. \A d \in Commands : cmd[d].stage \in Settled => cmd'[d].stage \in Settled
  BY DEF Frame
<1>4. \A d \in Commands : /\ cmd[d].lineage \in Commands \cup {Nobody}
                         /\ cmd[d].before \subseteq Commands \cup {Nobody}
                         /\ cmd[d].stage \in Stages
  BY DEF LifeInv, CommandRecord
<1>5. container.lineage \in Commands \cup {Nobody}
  BY DEF LifeInv, Containers
<1>6. (container.lineage = Nobody \/ cmd[container.lineage].stage # "unborn")'
  <2>1. CASE At(c, "run") /\ container'.lineage = IF cmd[c].wasRunning THEN cmd[c].lineage ELSE c
    <3>1. cmd[c].wasRunning => cmd[c].lineage = Nobody \/ cmd[cmd[c].lineage].stage # "unborn"
      BY <1>0, <2>1 DEF Lineages, Recreates, BeforeRun
    <3> QED BY <1>2, <1>4, <2>1, <3>1 DEF Frame
  <2> QED BY <1>0, <1>2, <1>5, <2>1 DEF Frame
<1>7. ASSUME NEW d \in Commands
      PROVE  Knows(d)'
  <2>1. CASE d = c
    BY <2>1
  <2>2. CASE d # c /\ cmd[d].stage \in Waiting
    <3>1. cmd[c].stage \notin Waiting
      BY <1>0, <2>2 DEF Underway
    <3>2. container' = container \/ container'.up = "none"
      BY <3>1 DEF Frame
    <3> QED BY <1>0, <2>2, <3>2, KnowsKept DEF Frame, Running
  <2>3. CASE d # c /\ cmd[d].stage \notin Waiting
    <3>1. cmd'[d] = cmd[d]
      BY <2>3 DEF Frame
    <3> QED BY <1>0, <2>3, <3>1 DEF Knows, Waiting, BeforeRun
  <2> QED BY <2>1, <2>2, <2>3
<1>8. ASSUME NEW d \in Commands
      PROVE  Lineages(d)'
  <2>1. cmd'[d].stage \in {"unborn", "port", "busy", "idle", "spec"} => ~cmd'[d].wasRunning
    BY <1>0 DEF Lineages, Frame
  <2>2. Recreates(d)' => cmd'[d].lineage = Nobody \/ cmd'[cmd'[d].lineage].stage # "unborn"
    <3>1. CASE d # c
      BY <1>0, <1>2, <1>4, <3>1 DEF Lineages, Frame, Recreates
    <3>2. CASE d = c
      BY <1>0, <1>2, <1>4, <1>5, <3>2 DEF Lineages, Frame
    <3> QED BY <3>1, <3>2
  <2>3. \A e \in cmd'[d].before : e = Nobody \/ cmd'[e].stage \in Settled
    <3>1. \A e \in cmd[d].before : e = Nobody \/ cmd'[e].stage \in Settled
      BY <1>0, <1>3, <1>4 DEF Lineages
    <3>2. Underway = {} /\ container.lineage # Nobody => cmd[container.lineage].stage \in Settled
      BY <1>0, <1>4, <1>5 DEF Underway, Stages, Waiting, Settled
    <3>3. Underway = {} => container.lineage = Nobody \/ cmd'[container.lineage].stage \in Settled
      BY <1>3, <1>5, <3>2
    <3> QED BY <3>1, <3>3 DEF Frame
  <2>4. ASSUME HasStarted(d)'
        PROVE  /\ container'.up # "none" => container'.lineage \notin cmd'[d].before
               /\ \A e \in Commands : Recreates(e)' => cmd'[e].lineage \notin cmd'[d].before
    \* No settled session, so none that d saw, runs a container now.
    <3>1. cmd'[d].before = cmd[d].before
      BY <2>4 DEF Frame, HasStarted
    <3>2. cmd[c].stage \in {"run", "stop"} => c \notin cmd[d].before
      BY <1>0, LifeAssumption DEF Lineages, Settled
    <3>3. CASE HasStarted(d)
      <4>1. container.up # "none" => container.lineage \notin cmd[d].before
        BY <1>0, <3>3 DEF Lineages
      <4>2. \A e \in Commands : Recreates(e) => cmd[e].lineage \notin cmd[d].before
        BY <1>0, <3>3 DEF Lineages
      <4>3. container'.up # "none" => container'.lineage \notin cmd[d].before
        BY <3>2, <4>1, <4>2 DEF Frame, Recreates, BeforeRun
      <4>4. \A e \in Commands : Recreates(e)' => cmd'[e].lineage \notin cmd[d].before
        BY <3>2, <4>1, <4>2 DEF Frame, Recreates
      <4> QED BY <3>1, <4>3, <4>4
    <3>4. CASE ~HasStarted(d)
      <4>1. d = c /\ At(c, "run") /\ container'.lineage = c
        BY <2>4, <3>4 DEF Frame, HasStarted
      <4>2. \A e \in Commands : e # c => cmd[e].stage \notin Waiting
        BY <1>0, <4>1 DEF Underway, Waiting
      <4>3. \A e \in Commands : ~Recreates(e)'
        BY <2>4, <4>1, <4>2 DEF Frame, Recreates, BeforeRun, Waiting, HasStarted
      <4> QED BY <3>1, <3>2, <4>1, <4>3
    <3> QED BY <3>3, <3>4
  <2> QED BY <2>1, <2>2, <2>3, <2>4 DEF Lineages
<1> QED BY <1>1, <1>6, <1>7, <1>8 DEF SerialInv

LEMMA SerialStep ==
    ASSUME LifeInv, SerialInv, [LifeNext]_lifeVars
    PROVE  SerialInv'
<1> SUFFICES ASSUME serial' PROVE SerialInv'
  BY DEF SerialInv
<1>1. CASE UNCHANGED lifeVars
  <2>1. UNCHANGED <<serial, reads, container, cmd>>
    BY <1>1 DEF lifeVars
  <2> QED BY <2>1, KnowsKept DEF SerialInv, Underway, Running, Lineages, HasStarted, Recreates, At
<1>2. CASE Environment
  <2>1. /\ UNCHANGED <<serial, reads, cmd>>
        /\ container'.lineage = container.lineage \/ container'.lineage = Nobody
        /\ container'.up # "none" => container.up # "none" /\ container'.lineage = container.lineage
        /\ Running' => /\ Running /\ container'.port = container.port
                       /\ container'.spec = container.spec
    <3>1. CASE StopCommand
      <4>1. container'.up = "none" \/ container' = container
        BY <3>1, RemovalIs DEF StopCommand
      <4>2. container'.lineage = container.lineage \/ container'.lineage = Nobody
        BY <3>1, <4>1, RemovalIs DEF StopCommand
      <4> QED BY <3>1, <4>1, <4>2 DEF StopCommand, Running
    <3>2. CASE ContainerAnswers
      BY <3>2 DEF ContainerAnswers, Running, LifeInv, Containers
    <3>3. CASE ContainerStops
      BY <3>3 DEF ContainerStops, Running, LifeInv, Containers
    <3>4. CASE OthersListen
      BY <3>4 DEF OthersListen, Running
    <3> QED BY <1>2, <3>1, <3>2, <3>3, <3>4 DEF Environment
  <2>2. \A d \in Commands : Knows(d)'
    BY <2>1, KnowsKept DEF SerialInv
  <2>3. \A d \in Commands : Lineages(d)'
    BY <2>1 DEF SerialInv, Lineages, HasStarted, Recreates, At
  <2>4. Underway' = Underway
    BY <2>1 DEF Underway
  <2> QED BY <2>1, <2>2, <2>3, <2>4 DEF SerialInv
<1>3. ASSUME NEW c \in Commands, Command(c)
      PROVE  SerialInv'
  <2>1. serial' = serial
    <3>1. Ensure(c) => serial' = serial
      BY DEF Ensure, CheckPort, FoundBusy, ReadSpec, StopToRecreate, PortFreed, PortNotFreed,
             FoundIdle, StartPort, EnsureImage, RemoveOld, DockerRun, DockerRunFails,
             ProxyReady, ProxyNotReady, GiveUp, RunAgent
    <3>2. ASSUME NEW kind, NEW port, NEW target, NEW ephemeral,
                 Begin(c, kind, port, target, ephemeral)
          PROVE  serial' = serial
      BY <3>2 DEF Begin
    <3> QED BY <1>3, <3>1, <3>2 DEF Command, DaemonDown, AgentEnds, Interrupted
  <2> QED BY <1>3, <2>1, FrameHolds, OwnStep, CommandStep
<1> QED BY <1>1, <1>2, <1>3 DEF LifeNext

LEMMA SerialInit == LifeInit => SerialInv
<1> SUFFICES ASSUME LifeInit PROVE SerialInv
  OBVIOUS
<1>1. container.lineage = Nobody
  <2>1. NoContainer.lineage = Nobody /\ NoContainer \in Containers
    BY NoContainerType DEF NoContainer
  <2>2. [NoContainer EXCEPT !.up = "running", !.answers = TRUE].lineage = Nobody
    BY <2>1 DEF Containers
  <2> QED BY <2>1, <2>2 DEF LifeInit
<1>2. \A c \in Commands : cmd[c] = Unborn(1)
  BY DEF LifeInit
<1>3. Underway = {}
  BY <1>2 DEF Underway, Unborn, Waiting
<1>4. \A c \in Commands : Knows(c) /\ Lineages(c)
  <2>1. \A c \in Commands : /\ cmd[c].stage = "unborn" /\ cmd[c].replaced = {}
                           /\ cmd[c].before = {} /\ cmd[c].wasRunning = FALSE
    <3>1. /\ Unborn(1).stage = "unborn" /\ Unborn(1).replaced = {}
          /\ Unborn(1).before = {} /\ Unborn(1).wasRunning = FALSE
      BY DEF Unborn
    <3> QED BY <1>2, <3>1
  <2>2. \A c \in Commands : Knows(c)
    BY <2>1 DEF Knows, BeforeRun, At
  <2>3. \A c \in Commands : Lineages(c)
    BY <2>1 DEF Lineages, HasStarted, Recreates, BeforeRun, At
  <2> QED BY <2>2, <2>3
<1> QED BY <1>1, <1>3, <1>4 DEF SerialInv

LEMMA SerialAlways == LifeSpec => []SerialInv
<1>1. LifeInv /\ SerialInv /\ [LifeNext]_lifeVars => SerialInv'
  BY SerialStep
<1> QED BY <1>1, SerialInit, LifeTypes, PTL DEF LifeSpec

(* One command at a time: a session that is given a proxy is on its port and *)
(* has its endpoint intercepted, whatever docker did not answer; and if it   *)
(* answers, a recreated container intercepts what the one before it did.     *)
THEOREM SessionsAreServed == LifeSpec => []TargetsAreCovered
<1>1. SerialInv => JoinCoversTarget
  BY DEF SerialInv, Knows, JoinCoversTarget, At
<1>2. SerialInv => (reads => RecreatedWithUnion)
  BY DEF SerialInv, Knows, RecreatedWithUnion, At
<1>3. SerialInv => TargetsAreCovered
  BY <1>1, <1>2 DEF TargetsAreCovered
<1> QED BY <1>3, SerialAlways, PTL

(* One command at a time: what a session tears down is not what ran, or is   *)
(* not a recreation of what ran, when it began.                              *)
THEOREM PreexistingIsSpared == LifeSpec => TeardownSparesPreexisting
<1> DEFINE Spares == \A c \in Commands :
             serial /\ At(c, "agent") /\ cmd'[c].stage = "done" /\ Running /\ container'.up = "none"
                => container.lineage \notin cmd[c].before
<1>1. LifeInv /\ SerialInv /\ [LifeNext]_lifeVars => [Spares]_lifeVars
  <2> SUFFICES ASSUME LifeInv, SerialInv, LifeNext, NEW c \in Commands, serial, At(c, "agent"),
                      cmd'[c].stage = "done", Running, container'.up = "none"
               PROVE  container.lineage \notin cmd[c].before
    BY DEF At
  <2> USE DEF At
  <2>1. ~Environment
    BY DEF Environment, StopCommand, ContainerAnswers, ContainerStops, OthersListen
  <2>2. PICK d \in Commands : Command(d)
    BY <2>1 DEF LifeNext
  <2>3. d = c
    BY <2>2, FrameHolds DEF Frame
  <2>4. AgentEnds(c)
    <3>1. ~Interrupted(c)
      <4>1. Ends(c, "aborted") => cmd'[c].stage = "aborted"
        BY EndsIs
      <4> QED BY <4>1 DEF Interrupted
    <3>2. ~Ensure(c)
      BY DEF Ensure, CheckPort, FoundBusy, ReadSpec, StopToRecreate, PortFreed, PortNotFreed,
             FoundIdle, StartPort, EnsureImage, RemoveOld, DockerRun, DockerRunFails,
             ProxyReady, ProxyNotReady, GiveUp, RunAgent
    <3>3. \A kind, port, target, ephemeral : ~Begin(c, kind, port, target, ephemeral)
      BY DEF Begin
    <3> QED BY <2>2, <2>3, <3>1, <3>2, <3>3 DEF Command, DaemonDown
  <2>5. cmd[c].started
    BY <2>4 DEF AgentEnds, Running
  <2> QED BY <2>5 DEF SerialInv, Lineages, HasStarted, Running
<1> QED BY <1>1, SerialAlways, LifeTypes, PTL DEF LifeSpec, TeardownSparesPreexisting
-----------------------------------------------------------------------------
(* CaStore. *)

\* A text of a pair that was made, or none, or a cut-off one.
Text == {Absent, Empty} \cup 1..made

\* What CaInv says of a process.
MakerInv(m) ==
    /\ maker[m].pair \in 0..made
    /\ maker[m].stage = "certout" => maker[m].pair # 0
    /\ maker[m].stage \in {"tmp", "replace"} => maker[m].cert \in 1..made
    /\ maker[m].key \in Text /\ maker[m].cert \in Text

\* Where a generator stands in making a pair or copying it, and what it has
\* written by then; where a caller of the bundle stands.
Holds(m) ==
    /\ maker[m].stage \in {"truncate", "keyout", "certout", "rm key", "rm mcert", "rm pem"}
          => file["crt"] = Absent
    /\ maker[m].stage = "certout" => file["key"] = maker[m].pair /\ maker[m].pair \notin expiring
    /\ maker[m].stage \in {"verify", "copy", "copying", "read", "open", "write", "made"}
          => file["crt"] \in Pairs \ expiring
    /\ maker[m].stage = "copying" => maker[m].cert = file["crt"]
    /\ disk /\ maker[m].stage \in {"read", "open", "write", "made"} => file["mcert"] = file["crt"]
    /\ maker[m].stage \in {"open", "write"}
          => maker[m].key = file["crt"] /\ maker[m].cert = file["crt"]
    /\ disk /\ maker[m].stage = "made" => pem = [key |-> file["crt"], cert |-> file["crt"]]
    /\ maker[m].stage \in {"tmp", "replace"} => maker[m].cert = file["mcert"]
    /\ maker[m].stage = "trusts" /\ file["mcert"] \in Pairs /\ age # "tied"
          => maker[m].cert = file["mcert"]

AloneInv ==
    alone =>
        /\ \A v, w \in AtWork : v = w
        /\ file["crt"] = Absent \/ (file["crt"] \in 1..made /\ file["key"] = file["crt"])
        /\ age = "newer" /\ file["mcert"] \in Pairs => bundle = file["mcert"]
        /\ \A m \in Makers : Holds(m)
-----------------------------------------------------------------------------
(* Every interleaving. *)

LEMMA Numbers ==
    /\ Absent = 0 /\ Empty = MaxPairs + 1 /\ MaxPairs \in Nat /\ MaxRuns \in Nat
    /\ Empty \notin Pairs /\ Absent \notin Pairs /\ Absent # Empty
BY CaAssumption DEF Absent, Empty, Pairs

LEMMA MakerStagesAre ==
    \A s \in {"idle", "look", "judge", "rm crt", "rm key", "rm mcert", "rm pem", "truncate",
              "keyout", "certout", "verify", "copy", "copying", "read", "open", "write", "made",
              "bundle", "compose", "tmp", "replace", "trusts"} : s \in MakerStages
BY DEF MakerStages

LEMMA IdleType == Idle \in MakerRecord /\ Idle.stage = "idle" /\ Idle.pair = 0
                  /\ Idle.key = Absent /\ Idle.cert = Absent
BY Numbers DEF Idle, MakerRecord, MakerStages, Contents, AgeValues

\* A process's record stays one when a field is given a value of its type.
LEMMA MakerUpdateType ==
    ASSUME NEW f \in [Makers -> MakerRecord], NEW m \in Makers
    PROVE  /\ \A s \in MakerStages : [f EXCEPT ![m].stage = s] \in [Makers -> MakerRecord]
           /\ \A p \in 0..MaxPairs : [f EXCEPT ![m].pair = p] \in [Makers -> MakerRecord]
           /\ \A k \in Contents : [f EXCEPT ![m].key = k] \in [Makers -> MakerRecord]
           /\ \A k \in Contents : [f EXCEPT ![m].cert = k] \in [Makers -> MakerRecord]
           /\ \A a \in AgeValues : [f EXCEPT ![m].age = a] \in [Makers -> MakerRecord]
BY DEF MakerRecord

\* What a process's step does to the processes: only to itself, but for the
\* age of the temporary bundles.
Others(m) ==
    \A w \in Makers : w # m =>
        /\ maker'[w].stage = maker[w].stage /\ maker'[w].pair = maker[w].pair
        /\ maker'[w].key = maker[w].key /\ maker'[w].cert = maker[w].cert

LEMMA StepIs ==
    ASSUME CaInv, NEW m \in Makers, NEW from, NEW to \in MakerStages, Step(m, from, to)
    PROVE  /\ maker' \in [Makers -> MakerRecord] /\ Others(m)
           /\ maker[m].stage = from /\ maker'[m].stage = to
           /\ maker'[m].pair = maker[m].pair /\ maker'[m].key = maker[m].key
           /\ maker'[m].cert = maker[m].cert /\ maker'[m].age = maker[m].age
BY DEF Step, Others, CaInv, MakerRecord

LEMMA RaisesIs ==
    ASSUME CaInv, NEW m \in Makers, maker' = [maker EXCEPT ![m] = Idle]
    PROVE  /\ maker' \in [Makers -> MakerRecord] /\ Others(m)
           /\ maker'[m].stage = "idle" /\ maker'[m].pair = 0
           /\ maker'[m].key = Absent /\ maker'[m].cert = Absent
BY IdleType DEF Others, CaInv

LEMMA TrustsIs ==
    ASSUME CaInv, NEW m \in Makers, NEW from, NEW cert \in Contents, Trusts(m, from, cert)
    PROVE  /\ maker' \in [Makers -> MakerRecord] /\ Others(m)
           /\ maker[m].stage = from /\ maker'[m].stage = "trusts"
           /\ maker'[m].pair = maker[m].pair /\ maker'[m].key = maker[m].key
           /\ maker'[m].cert = cert
<1> DEFINE f == [maker EXCEPT ![m].stage = "trusts"]
<1>1. f \in [Makers -> MakerRecord]
  BY MakerUpdateType, MakerStagesAre DEF CaInv
<1>2. [f EXCEPT ![m].cert = cert] \in [Makers -> MakerRecord]
  BY <1>1, MakerUpdateType
<1>3. maker' = [f EXCEPT ![m].cert = cert]
  BY DEF Trusts
<1> QED BY <1>1, <1>2, <1>3 DEF Trusts, Others, CaInv, MakerRecord

LEMMA OutdatesIs ==
    ASSUME CaInv, NEW m \in Makers, NEW next \in MakerStages, NEW cert \in Contents,
           Outdates(m, next, cert)
    PROVE  /\ maker' \in [Makers -> MakerRecord] /\ Others(m)
           /\ maker'[m].stage = next /\ maker'[m].pair = maker[m].pair
           /\ maker'[m].key = maker[m].key /\ maker'[m].cert = cert
           /\ age' \in Outdated
<1>1. PICK tmp \in [Makers -> Outdated] :
        maker' = [w \in Makers |->
          IF w = m THEN [maker[w] EXCEPT !.age = tmp[w], !.stage = next, !.cert = cert]
                   ELSE [maker[w] EXCEPT !.age = tmp[w]]]
  BY DEF Outdates
<1>2. \A w \in Makers : maker[w] \in MakerRecord /\ tmp[w] \in AgeValues
  BY DEF CaInv, Outdated, AgeValues
<1>3. \A w \in Makers :
        maker'[w] = IF w = m THEN [maker[w] EXCEPT !.age = tmp[w], !.stage = next, !.cert = cert]
                             ELSE [maker[w] EXCEPT !.age = tmp[w]]
  BY <1>1
<1>4. \A w \in Makers : maker'[w] \in MakerRecord
  BY <1>2, <1>3 DEF MakerRecord
<1>5. maker'[m] = [maker[m] EXCEPT !.age = tmp[m], !.stage = next, !.cert = cert]
  BY <1>3
<1>6. maker' \in [Makers -> MakerRecord]
  BY <1>1, <1>4
<1>7. age' \in Outdated
  BY DEF Outdates, Outdated
<1>8. Others(m)
  BY <1>2, <1>3 DEF Others, MakerRecord
<1> QED BY <1>2, <1>5, <1>6, <1>7, <1>8 DEF MakerRecord

\* The types of all processes from that of the one that moves.
LEMMA MakersKept ==
    ASSUME CaInv, NEW m \in Makers, Others(m), MakerInv(m)', made' \in made..MaxPairs
    PROVE  \A w \in Makers : MakerInv(w)'
<1> SUFFICES ASSUME NEW w \in Makers, w # m PROVE MakerInv(w)'
  OBVIOUS
<1>1. MakerInv(w)
  BY DEF CaInv, MakerInv, Text
<1>2. made \in Nat /\ made' \in Nat /\ made <= made'
  BY Numbers DEF CaInv
<1> QED BY <1>1, <1>2 DEF MakerInv, Others, Text

\* What CaInv says of the directory.
Directory ==
    /\ age \in AgeValues /\ bundle \in {Absent} \cup 1..made
    /\ file \in [Files -> Text]
    /\ pem \in [key : Text, cert : Text]

LEMMA CaInvIs ==
    CaInv <=> /\ alone \in BOOLEAN /\ disk \in BOOLEAN /\ made \in 0..MaxPairs /\ runs \in 0..MaxRuns
              /\ expiring \subseteq 1..made /\ Directory
              /\ maker \in [Makers -> MakerRecord]
              /\ \A m \in Makers : MakerInv(m)
BY DEF CaInv, Directory, MakerInv, Text

\* A step that makes no pair, from what it does to the directory and itself.
LEMMA Step1 ==
    ASSUME CaInv, NEW m \in Makers, made' = made, UNCHANGED Settings, Directory',
           maker' \in [Makers -> MakerRecord], Others(m), MakerInv(m)'
    PROVE  CaInv'
<1>1. made' \in made..MaxPairs
  BY Numbers DEF CaInv
<1>2. \A w \in Makers : MakerInv(w)'
  BY <1>1, MakersKept
<1>3. alone' = alone /\ disk' = disk /\ expiring' = expiring /\ runs' = runs
  BY DEF Settings
<1>4. /\ alone \in BOOLEAN /\ disk \in BOOLEAN /\ made \in 0..MaxPairs /\ runs \in 0..MaxRuns
      /\ expiring \subseteq 1..made
  BY DEF CaInv
<1>5. /\ alone' \in BOOLEAN /\ disk' \in BOOLEAN /\ made' \in 0..MaxPairs /\ runs' \in 0..MaxRuns
      /\ expiring' \subseteq 1..made'
  BY <1>3, <1>4
<1> QED BY <1>2, <1>5 DEF CaInv, Directory, MakerInv, Text

LEMMA DirectoryKept ==
    ASSUME CaInv, UNCHANGED dirVars, made' = made
    PROVE  Directory'
BY DEF CaInv, Directory, Text, dirVars

\* The types of the process that moves, by the way it moves.
LEMMA StepInv ==
    ASSUME CaInv, NEW m \in Makers, NEW from,
           NEW to \in MakerStages \ {"certout", "tmp", "replace"}, Step(m, from, to), made' = made
    PROVE  MakerInv(m)' /\ Others(m) /\ maker' \in [Makers -> MakerRecord]
<1>1. MakerInv(m)
  BY CaInvIs
<1> QED BY <1>1, StepIs DEF MakerInv, Text

LEMMA RaisesInv ==
    ASSUME CaInv, NEW m \in Makers, maker' = [maker EXCEPT ![m] = Idle], made' = made
    PROVE  MakerInv(m)' /\ Others(m) /\ maker' \in [Makers -> MakerRecord]
<1>1. made \in Nat /\ 0 \in 0..made
  BY DEF CaInv
<1> QED BY <1>1, RaisesIs DEF MakerInv, Text

LEMMA TextIsContents == CaInv => Text \subseteq Contents /\ Absent \in Text /\ Empty \in Text
<1> SUFFICES ASSUME CaInv PROVE 1..made \subseteq 1..MaxPairs
  BY DEF Text, Contents, Pairs
<1> QED BY Numbers DEF CaInv

LEMMA TrustsInv ==
    ASSUME CaInv, NEW m \in Makers, NEW from, NEW cert \in Text, Trusts(m, from, cert), made' = made
    PROVE  MakerInv(m)' /\ Others(m) /\ maker' \in [Makers -> MakerRecord]
<1>1. MakerInv(m) /\ cert \in Contents
  BY CaInvIs, TextIsContents
<1>2. /\ maker' \in [Makers -> MakerRecord] /\ Others(m) /\ maker'[m].stage = "trusts"
      /\ maker'[m].pair = maker[m].pair /\ maker'[m].key = maker[m].key /\ maker'[m].cert = cert
  BY <1>1, TrustsIs
<1> QED BY <1>1, <1>2 DEF MakerInv, Text

LEMMA OutdatesInv ==
    ASSUME CaInv, NEW m \in Makers, NEW next \in {"copying", "read"}, NEW cert \in Text,
           Outdates(m, next, cert), made' = made
    PROVE  MakerInv(m)' /\ Others(m) /\ maker' \in [Makers -> MakerRecord] /\ age' \in Outdated
<1>1. MakerInv(m) /\ cert \in Contents /\ next \in MakerStages
  BY CaInvIs, TextIsContents, MakerStagesAre
<1>2. /\ maker' \in [Makers -> MakerRecord] /\ Others(m) /\ maker'[m].stage = next
      /\ maker'[m].pair = maker[m].pair /\ maker'[m].key = maker[m].key /\ maker'[m].cert = cert
      /\ age' \in Outdated
  BY <1>1, OutdatesIs
<1> QED BY <1>1, <1>2 DEF MakerInv, Text

LEMMA OneMore ==
    ASSUME CaInv, made < MaxPairs, made' = made + 1
    PROVE  /\ made \in Nat /\ made' \in made..MaxPairs /\ made' \in 1..made'
           /\ made' \in 0..made' /\ made' # 0 /\ made' \in 0..MaxPairs
           /\ 1..made \subseteq 1..made' /\ made' \notin 1..made
<1>1. made \in Nat /\ MaxPairs \in Nat
  BY Numbers DEF CaInv
<1> QED BY <1>1

LEMMA PairIsText ==
    ASSUME CaInv, NEW m \in Makers, maker[m].stage = "certout"
    PROVE  maker[m].pair \in 1..made /\ maker[m].pair \in Text
<1>1. made \in Nat /\ maker[m].pair \in 0..made /\ maker[m].pair # 0
  BY Numbers DEF CaInv
<1>2. maker[m].pair \in 1..made
  BY <1>1
<1> QED BY <1>2 DEF Text

LEMMA CaInvMake ==
    ASSUME CaInv, NEW m \in Makers, Make(m)
    PROVE  CaInv'
<1> USE MakerStagesAre
<1>0. /\ MakerInv(m) /\ Directory /\ made \in 0..MaxPairs /\ maker \in [Makers -> MakerRecord]
      /\ Text \subseteq Contents /\ 1..made \subseteq Text
      /\ \A f \in Files : file[f] \in Text
  <2>1. MakerInv(m) /\ Directory /\ made \in 0..MaxPairs /\ maker \in [Makers -> MakerRecord]
    BY CaInvIs
  <2>2. \A f \in Files : file[f] \in Text
    BY <2>1 DEF Directory
  <2> QED BY <2>1, <2>2, TextIsContents DEF Text
<1>1. CASE Look(m)
  <2>1. PICK to \in MakerStages : Step(m, "look", to) /\ to \in {"truncate", "judge"}
    BY <1>1 DEF Look
  <2>2. MakerInv(m)' /\ Others(m) /\ maker' \in [Makers -> MakerRecord]
    BY <1>0, <1>1, <2>1, StepInv DEF Look
  <2> QED BY <1>1, <2>2, Step1, DirectoryKept DEF Look
<1>2. CASE Judge(m)
  <2>1. \/ Raises(m, "judge")
        \/ Step(m, "judge", "rm crt") \/ Step(m, "judge", "copy")
    BY <1>2 DEF Judge
  <2>2. MakerInv(m)' /\ Others(m) /\ maker' \in [Makers -> MakerRecord]
    BY <1>0, <1>2, <2>1, StepInv, RaisesInv DEF Judge, Raises
  <2> QED BY <1>2, <2>2, Step1, DirectoryKept DEF Judge
<1>3. CASE Remove(m)
  <2>1. \E from, to \in MakerStages : Step(m, from, to) /\ to \in {"rm key", "rm mcert", "rm pem", "truncate"}
    BY <1>3 DEF Remove
  <2>2. made' = made /\ UNCHANGED Settings
    BY <1>3 DEF Remove
  <2>3. MakerInv(m)' /\ Others(m) /\ maker' \in [Makers -> MakerRecord]
    BY <1>0, <2>1, <2>2, StepInv
  <2>4. file' \in [Files -> Text] /\ pem' \in [key : Text, cert : Text]
    <3>1. file \in [Files -> Text] /\ pem \in [key : Text, cert : Text] /\ Absent \in Text
      BY <1>0 DEF Directory, Text
    <3>2. Text' = Text
      BY <2>2 DEF Text
    <3>3. [key |-> Absent, cert |-> Absent] \in [key : Text, cert : Text]
      BY <3>1
    <3>4. \A f : [file EXCEPT ![f] = Absent] \in [Files -> Text]
      BY <3>1
    <3>5. (pem' = pem \/ pem' = [key |-> Absent, cert |-> Absent]) /\ file' \in [Files -> Text]
      BY <1>3, <3>1, <3>4 DEF Remove
    <3> QED BY <3>1, <3>3, <3>5
  <2>5. bundle' = bundle /\ age' = age
    BY <1>3 DEF Remove
  <2>6. Directory'
    BY <1>0, <2>2, <2>4, <2>5 DEF Directory, Text
  <2> QED BY <2>2, <2>3, <2>6, Step1
<1>4. CASE TruncateKey(m)
  <2>1. MakerInv(m)' /\ Others(m) /\ maker' \in [Makers -> MakerRecord]
    BY <1>0, <1>4, StepInv DEF TruncateKey
  <2>2. Directory'
    BY <1>0, <1>4 DEF TruncateKey, Directory, Text
  <2> QED BY <1>4, <2>1, <2>2, Step1 DEF TruncateKey
<1>5. CASE WriteKey(m)
  <2>1. /\ maker' = [maker EXCEPT ![m].stage = "certout", ![m].pair = made']
        /\ file' = [file EXCEPT !["key"] = made']
        /\ UNCHANGED <<pem, bundle, age, Settings>>
        /\ made < MaxPairs /\ made' = made + 1
    BY <1>5 DEF WriteKey
  <2>2. /\ made' \in made..MaxPairs /\ made' \in 1..made' /\ made' \in 0..made'
        /\ made' # 0 /\ made' \in 0..MaxPairs /\ 1..made \subseteq 1..made'
    BY <2>1, OneMore
  <2> DEFINE f == [maker EXCEPT ![m].stage = "certout"]
  <2>3. f \in [Makers -> MakerRecord]
    BY <1>0, MakerUpdateType
  <2>4. maker' \in [Makers -> MakerRecord]
    BY <2>1, <2>2, <2>3, MakerUpdateType
  <2>5. /\ maker'[m].stage = "certout" /\ maker'[m].pair = made'
        /\ maker'[m].key = maker[m].key /\ maker'[m].cert = maker[m].cert /\ Others(m)
    BY <1>0, <2>1 DEF Others, MakerRecord
  <2>6. Text \subseteq Text' /\ made' \in Text'
    BY <2>2 DEF Text
  <2>7. MakerInv(m)'
    BY <1>0, <2>2, <2>5, <2>6 DEF MakerInv
  <2>8. \A w \in Makers : MakerInv(w)'
    BY <2>2, <2>5, <2>7, MakersKept
  <2>9. Directory'
    <3>1. file' \in [Files -> Text'] /\ pem' \in [key : Text', cert : Text']
      BY <1>0, <2>1, <2>6 DEF Directory
    <3> QED BY <1>0, <2>1, <2>2, <3>1 DEF Directory
  <2>10. /\ alone' \in BOOLEAN /\ disk' \in BOOLEAN /\ runs' \in 0..MaxRuns /\ expiring' \subseteq 1..made'
    BY <2>1, <2>2 DEF Settings, CaInv
  <2> QED BY <2>2, <2>4, <2>8, <2>9, <2>10 DEF CaInv, Directory, MakerInv, Text
<1>6. CASE WriteCert(m)
  <2>1. MakerInv(m)' /\ Others(m) /\ maker' \in [Makers -> MakerRecord]
    BY <1>0, <1>6, StepInv DEF WriteCert
  <2>2. maker[m].pair \in Text
    BY <1>6, PairIsText DEF WriteCert, Step
  <2>3. Directory'
    BY <1>0, <1>6, <2>2 DEF WriteCert, Directory, Text
  <2> QED BY <1>6, <2>1, <2>3, Step1 DEF WriteCert
<1>7. CASE OpensslFails(m) \/ Verify(m)
  <2>1. Raises(m, "keyout") \/ Raises(m, "certout") \/ Raises(m, "verify") \/ Step(m, "verify", "copy")
    BY <1>7 DEF OpensslFails, Verify
  <2>2. UNCHANGED <<dirVars, made, Settings>>
    BY <1>7 DEF OpensslFails, Verify
  <2>3. MakerInv(m)' /\ Others(m) /\ maker' \in [Makers -> MakerRecord]
    BY <1>0, <2>1, <2>2, StepInv, RaisesInv DEF Raises
  <2> QED BY <2>2, <2>3, Step1, DirectoryKept
<1>8. CASE StartCopy(m)
  <2>1. CASE Step(m, "copy", "read") /\ UNCHANGED <<file, age>>
    <3>1. MakerInv(m)' /\ Others(m) /\ maker' \in [Makers -> MakerRecord]
      BY <1>0, <1>8, <2>1, StepInv DEF StartCopy
    <3> QED BY <1>8, <2>1, <3>1, Step1, DirectoryKept DEF StartCopy, dirVars
  <2>2. CASE Outdates(m, "copying", file["crt"]) /\ file' = [file EXCEPT !["mcert"] = Empty]
    <3>1. file["crt"] \in Text
      BY <1>0 DEF Files
    <3>2. MakerInv(m)' /\ Others(m) /\ maker' \in [Makers -> MakerRecord] /\ age' \in Outdated
      BY <1>0, <1>8, <2>2, <3>1, OutdatesInv DEF StartCopy
    <3>3. Directory'
      BY <1>0, <1>8, <2>2, <3>2 DEF StartCopy, Directory, Text, Outdated, AgeValues
    <3> QED BY <1>8, <3>2, <3>3, Step1 DEF StartCopy
  <2> QED BY <1>8, <2>1, <2>2 DEF StartCopy
<1>9. CASE FinishCopy(m)
  <2>1. maker[m].cert \in Text /\ file["crt"] \in Text
    BY <1>0 DEF Files, MakerInv
  <2>2. MakerInv(m)' /\ Others(m) /\ maker' \in [Makers -> MakerRecord] /\ age' \in Outdated
    BY <1>0, <1>9, <2>1, OutdatesInv DEF FinishCopy
  <2>3. Directory'
    BY <1>0, <1>9, <2>1, <2>2 DEF FinishCopy, Directory, Text, Outdated, AgeValues
  <2> QED BY <1>9, <2>2, <2>3, Step1 DEF FinishCopy
<1>10. CASE ReadPair(m)
  <2>1. file["key"] \in Text /\ file["crt"] \in Text
    BY <1>0 DEF Files
  <2>2. PICK s \in {"made", "open"} :
          maker' = [maker EXCEPT ![m].key = file["key"], ![m].cert = file["crt"], ![m].stage = s]
    BY <1>10 DEF ReadPair
  <2> DEFINE f == [maker EXCEPT ![m].key = file["key"]]
             g == [f EXCEPT ![m].cert = file["crt"]]
  <2>3. f \in [Makers -> MakerRecord]
    BY <1>0, <2>1, MakerUpdateType
  <2>4. g \in [Makers -> MakerRecord]
    BY <1>0, <2>1, <2>3, MakerUpdateType
  <2>5. maker' \in [Makers -> MakerRecord]
    BY <2>2, <2>4, MakerUpdateType
  <2>6. /\ maker'[m].stage = s /\ maker'[m].pair = maker[m].pair
        /\ maker'[m].key = file["key"] /\ maker'[m].cert = file["crt"] /\ Others(m)
    BY <1>0, <2>2 DEF Others, MakerRecord
  <2>7. MakerInv(m)'
    BY <1>0, <1>10, <2>1, <2>6 DEF ReadPair, MakerInv, Text
  <2> QED BY <1>10, <2>5, <2>6, <2>7, Step1, DirectoryKept DEF ReadPair
<1>11. CASE WritePem(m)
  <2>1. Step(m, "open", "write") \/ Step(m, "write", "made")
    BY <1>11 DEF WritePem
  <2>2. made' = made /\ UNCHANGED Settings
    BY <1>11 DEF WritePem
  <2>3. MakerInv(m)' /\ Others(m) /\ maker' \in [Makers -> MakerRecord]
    BY <1>0, <2>1, <2>2, StepInv
  <2>4. pem' \in [key : Text, cert : Text]
    <3>1. /\ maker[m].key \in Text /\ maker[m].cert \in Text /\ Empty \in Text
      BY <1>0 DEF MakerInv, Text
    <3>2. /\ [key |-> Empty, cert |-> Empty] \in [key : Text, cert : Text]
          /\ [key |-> maker[m].key, cert |-> maker[m].cert] \in [key : Text, cert : Text]
      BY <3>1
    <3>3. \/ pem' = [key |-> Empty, cert |-> Empty]
          \/ pem' = [key |-> maker[m].key, cert |-> maker[m].cert]
      BY <1>11 DEF WritePem
    <3>4. Text' = Text
      BY <2>2 DEF Text
    <3> QED BY ONLY <3>2, <3>3, <3>4
  <2> QED BY <1>0, <1>11, <2>2, <2>3, <2>4, Step1 DEF WritePem, Directory, Text
<1>12. CASE CheckBundle(m)
  <2>1. bundle \in Contents /\ Absent \in Contents /\ bundle \in Text /\ Absent \in Text
    BY <1>0 DEF Directory, Text, Contents
  <2>2. \/ \E cert \in Text : Trusts(m, "bundle", cert)
        \/ Step(m, "bundle", "compose")
    BY <1>12, <2>1 DEF CheckBundle
  <2>3. MakerInv(m)' /\ Others(m) /\ maker' \in [Makers -> MakerRecord]
    BY <1>0, <1>12, <2>2, StepInv, TrustsInv DEF CheckBundle
  <2> QED BY <1>12, <2>3, Step1, DirectoryKept DEF CheckBundle
<1>13. CASE Compose(m)
  <2>1. file["mcert"] \in Text
    BY <1>0 DEF Files
  <2>2. CASE Trusts(m, "compose", file["mcert"])
    <3>1. MakerInv(m)' /\ Others(m) /\ maker' \in [Makers -> MakerRecord]
      BY <1>0, <1>13, <2>1, <2>2, TrustsInv DEF Compose
    <3> QED BY <1>13, <3>1, Step1, DirectoryKept DEF Compose
  <2>3. CASE file["mcert"] \in Pairs /\ maker' = [maker EXCEPT ![m].stage = "tmp", ![m].cert = file["mcert"]]
    <3>1. file["mcert"] \in 1..made
      BY <2>1, <2>3, Numbers DEF Text
    <3> DEFINE f == [maker EXCEPT ![m].stage = "tmp"]
    <3>2. f \in [Makers -> MakerRecord]
      BY <1>0, MakerUpdateType
    <3>3. maker' \in [Makers -> MakerRecord]
      BY <1>0, <2>1, <2>3, <3>2, MakerUpdateType
    <3>4. /\ maker'[m].stage = "tmp" /\ maker'[m].pair = maker[m].pair
          /\ maker'[m].key = maker[m].key /\ maker'[m].cert = file["mcert"] /\ Others(m)
      BY <1>0, <2>3 DEF Others, MakerRecord
    <3>5. MakerInv(m)'
      BY <1>0, <1>13, <3>1, <3>4 DEF Compose, MakerInv, Text
    <3> QED BY <1>13, <3>3, <3>4, <3>5, Step1, DirectoryKept DEF Compose
  <2> QED BY <1>13, <2>2, <2>3 DEF Compose
<1>14. CASE WriteTmp(m)
  <2>1. file["mcert"] \in Text /\ file["mcert"] \in Contents
    BY <1>0 DEF Files
  <2>2. CASE Trusts(m, "tmp", file["mcert"])
    <3>1. MakerInv(m)' /\ Others(m) /\ maker' \in [Makers -> MakerRecord]
      BY <1>0, <1>14, <2>1, <2>2, TrustsInv DEF WriteTmp
    <3> QED BY <1>14, <3>1, Step1, DirectoryKept DEF WriteTmp
  <2>3. ASSUME NEW written \in {"newer", "older"},
               maker' = [maker EXCEPT ![m].stage = "replace", ![m].age = written]
        PROVE  CaInv'
    <3>1. written \in AgeValues
      BY DEF AgeValues
    <3> DEFINE f == [maker EXCEPT ![m].stage = "replace"]
    <3>2. f \in [Makers -> MakerRecord]
      BY <1>0, MakerUpdateType
    <3>3. maker' \in [Makers -> MakerRecord]
      BY <2>3, <3>1, <3>2, MakerUpdateType
    <3>4. /\ maker'[m].stage = "replace" /\ maker'[m].pair = maker[m].pair
          /\ maker'[m].key = maker[m].key /\ maker'[m].cert = maker[m].cert /\ Others(m)
      BY <1>0, <2>3 DEF Others, MakerRecord
    <3>5. MakerInv(m)'
      BY <1>0, <1>14, <3>4 DEF WriteTmp, MakerInv, Text
    <3> QED BY <1>14, <3>3, <3>4, <3>5, Step1, DirectoryKept DEF WriteTmp
  <2> QED BY <1>14, <2>2, <2>3 DEF WriteTmp
<1>15. CASE ReplaceBundle(m)
  <2>1. maker[m].cert \in 1..made /\ maker[m].cert \in Contents /\ maker[m].age \in AgeValues
    BY <1>0, <1>15 DEF ReplaceBundle, Trusts, MakerInv, MakerRecord
  <2>2. MakerInv(m)' /\ Others(m) /\ maker' \in [Makers -> MakerRecord]
    BY <1>0, <1>15, <2>1, TrustsInv DEF ReplaceBundle
  <2>3. Directory'
    BY <1>0, <1>15, <2>1 DEF ReplaceBundle, Directory, Text
  <2> QED BY <1>15, <2>2, <2>3, Step1 DEF ReplaceBundle
<1>16. CASE CopyFails(m)
  <2>1. \E from, to \in MakerStages : Step(m, from, to) /\ to \in {"read", "made"}
    BY <1>16 DEF CopyFails
  <2>2. UNCHANGED <<dirVars, made, Settings>>
    BY <1>16 DEF CopyFails
  <2>3. MakerInv(m)' /\ Others(m) /\ maker' \in [Makers -> MakerRecord]
    BY <1>0, <2>1, <2>2, StepInv
  <2> QED BY <2>2, <2>3, Step1, DirectoryKept
<1> QED
  BY <1>1, <1>2, <1>3, <1>4, <1>5, <1>6, <1>7, <1>8, <1>9, <1>10, <1>11, <1>12, <1>13,
     <1>14, <1>15, <1>16 DEF Make

LEMMA CaInvInit == CaInit => CaInv
<1> SUFFICES ASSUME CaInit PROVE CaInv
  OBVIOUS
<1>1. made = 0 /\ made \in 0..MaxPairs /\ runs \in 0..MaxRuns /\ 0 \in 0..made
  BY Numbers DEF CaInit
<1>2. maker \in [Makers -> MakerRecord] /\ \A m \in Makers : maker[m] = Idle
  BY IdleType DEF CaInit
<1>3. \A m \in Makers : MakerInv(m)
  BY <1>1, <1>2, IdleType DEF MakerInv, Text
<1>4. Directory
  BY DEF CaInit, Directory, Text, AgeValues
<1> QED BY <1>1, <1>2, <1>3, <1>4, CaInvIs DEF CaInit

LEMMA LaunchIs ==
    ASSUME CaInv, NEW m \in Makers, NEW command, Launch(m, command)
    PROVE  /\ Step(m, "idle", "look") \/ Step(m, "idle", "bundle")
           /\ UNCHANGED <<alone, disk, dirVars, expiring, made>>
           /\ runs < MaxRuns /\ runs' = runs + 1
           /\ alone => AtWork = {}
BY DEF Launch, AtWork, Step

LEMMA CaInvStep ==
    ASSUME CaInv, [CaNext]_caVars
    PROVE  CaInv'
<1>1. CASE UNCHANGED caVars
  BY <1>1 DEF caVars, CaInv
<1>2. CASE Ages
  <2>1. UNCHANGED <<alone, disk, dirVars, made, runs, maker>> /\ expiring' \subseteq 1..made
    BY <1>2 DEF Ages, CaInv
  <2> QED BY <2>1 DEF CaInv, dirVars
<1>4. ASSUME NEW m \in Makers, NEW command, Launch(m, command)
      PROVE  CaInv'
  <2>1. /\ Step(m, "idle", "look") \/ Step(m, "idle", "bundle")
        /\ UNCHANGED <<alone, disk, dirVars, expiring, made>>
        /\ runs < MaxRuns /\ runs' = runs + 1
    BY <1>4, LaunchIs
  <2>2. MakerInv(m)' /\ Others(m) /\ maker' \in [Makers -> MakerRecord]
    BY <2>1, StepInv, MakerStagesAre
  <2>3. made' \in made..MaxPairs
    BY <2>1, Numbers DEF CaInv
  <2>4. \A w \in Makers : MakerInv(w)'
    BY <2>2, <2>3, MakersKept
  <2>5. runs' \in 0..MaxRuns
    BY <2>1, Numbers DEF CaInv
  <2>6. /\ alone' \in BOOLEAN /\ disk' \in BOOLEAN /\ made' \in 0..MaxPairs /\ expiring' \subseteq 1..made'
    BY <2>1 DEF CaInv
  <2> QED BY <2>1, <2>2, <2>4, <2>5, <2>6, DirectoryKept DEF CaInv, Directory, MakerInv, Text
<1>5. ASSUME NEW m \in Makers, Leaves(m)
      PROVE  CaInv'
  <2>1. MakerInv(m)' /\ Others(m) /\ maker' \in [Makers -> MakerRecord]
    BY <1>5, RaisesInv DEF Leaves
  <2> QED BY <1>5, <2>1, Step1, DirectoryKept DEF Leaves
<1> QED BY <1>1, <1>2, <1>4, <1>5, CaInvMake DEF CaNext

(* The files hold whole texts of pairs that were made, or nothing, or one    *)
(* that was cut short, and the merged bundle never the last.                 *)
THEOREM CaTypes == CaSpec => []CaInv
<1>1. CaInv /\ [CaNext]_caVars => CaInv'
  BY CaInvStep
<1> QED BY <1>1, CaInvInit, PTL DEF CaSpec
-----------------------------------------------------------------------------
(* One process at a time. *)

\* What AloneInv says of the directory alone.
Sound ==
    /\ file["crt"] = Absent \/ (file["crt"] \in 1..made /\ file["key"] = file["crt"])
    /\ age = "newer" /\ file["mcert"] \in Pairs => bundle = file["mcert"]

\* The process that moves is the only one at work, before and after.
LEMMA OneMoves ==
    ASSUME CaInv, AloneInv, alone, NEW m \in Makers, Others(m), alone' = alone,
           AtWork = {} \/ m \in AtWork, Sound', Holds(m)'
    PROVE  AloneInv'
<1>1. \A w \in Makers : w # m => maker[w].stage = "idle"
  BY DEF AloneInv, AtWork
<1>2. \A w \in Makers : w # m => maker'[w].stage = "idle"
  BY <1>1 DEF Others
<1>3. \A v, w \in AtWork' : v = w
  BY <1>2 DEF AtWork
<1>4. \A w \in Makers : w # m => Holds(w)'
  BY <1>2 DEF Holds
<1> QED BY <1>3, <1>4 DEF AloneInv, Sound

\* A step of a process from one stage to the next, its record else the same.
Moves(m, from, to) ==
    /\ maker[m].stage = from /\ maker'[m].stage = to /\ Others(m)
    /\ maker'[m].pair = maker[m].pair /\ maker'[m].key = maker[m].key
    /\ maker'[m].cert = maker[m].cert

LEMMA StepMoves ==
    ASSUME CaInv, NEW m \in Makers
    PROVE  \A from, to \in MakerStages : Step(m, from, to) => Moves(m, from, to)
BY StepIs DEF Moves

LEMMA WholeTexts == CaInv => \A x : x \in 1..made <=> x \in Text /\ x \in Pairs
<1> SUFFICES ASSUME CaInv PROVE \A x : x \in 1..made <=> x \in Text /\ x \in Pairs
  OBVIOUS
<1>1. made \in Nat /\ MaxPairs \in Nat /\ made <= MaxPairs
  BY Numbers DEF CaInv
<1>2. \A x \in 1..made : x \in 1..MaxPairs
  BY <1>1
<1>3. \A x \in Pairs : x # Absent /\ x # Empty
  BY Numbers
<1> QED BY <1>2, <1>3 DEF Text, Pairs

LEMMA AloneMake ==
    ASSUME CaInv, AloneInv, alone, NEW m \in Makers, Make(m)
    PROVE  AloneInv'
<1> USE MakerStagesAre
<1>0. /\ Sound /\ Holds(m)
      /\ \A f \in Files : file[f] \in Text
      /\ file \in [Files -> Text] /\ "crt" \in Files /\ "key" \in Files /\ "mcert" \in Files
  BY CaInvIs DEF AloneInv, Sound, Directory, Files
<1>a. ASSUME maker[m].stage # "idle", Others(m), alone' = alone, Sound', Holds(m)'
      PROVE  AloneInv'
  BY <1>a, OneMoves DEF AtWork
<1>b. \A x : x \in 1..made <=> x \in Text /\ x \in Pairs
  BY WholeTexts
<1>1. CASE Look(m)
  <2>1. \/ Step(m, "look", "truncate") /\ Absent \in {file["crt"], file["key"]}
        \/ Step(m, "look", "judge")
    BY <1>1 DEF Look
  <2>2. Sound' /\ alone' = alone
    BY <1>0, <1>1 DEF Look, Sound, dirVars, Settings
  <2>3. Absent \in {file["crt"], file["key"]} => file["crt"] = Absent
    BY <1>0 DEF Sound
  <2>4. Holds(m)'
    <3>1. UNCHANGED file
      BY <1>1 DEF Look, dirVars
    <3>2. CASE Moves(m, "look", "truncate") /\ file["crt"] = Absent
      BY <3>1, <3>2 DEF Moves, Holds
    <3>3. CASE Moves(m, "look", "judge")
      BY <3>3 DEF Moves, Holds
    <3> QED BY <2>1, <2>3, <3>2, <3>3, StepMoves
  <2>5. maker[m].stage # "idle" /\ Others(m)
    BY <2>1, StepMoves DEF Moves
  <2> QED BY <1>a, <2>2, <2>4, <2>5
<1>2. CASE Judge(m)
  <2>1. /\ UNCHANGED <<dirVars, made, Settings>> /\ maker[m].stage = "judge"
        /\ \/ Raises(m, "judge") \/ Step(m, "judge", "rm crt")
           \/ /\ Step(m, "judge", "copy")
              /\ file["crt"] \notin {Absent, Empty} /\ file["crt"] \notin expiring
    BY <1>2 DEF Judge, Raises, Step
  <2>2. Sound' /\ alone' = alone
    BY <1>0, <2>1 DEF Sound, dirVars, Settings
  <2>3. file["crt"] \notin {Absent, Empty} => file["crt"] \in Pairs
    BY <1>0, <1>b DEF Text
  <2>4. Holds(m)'
    <3>1. CASE Raises(m, "judge")
      BY <3>1, RaisesIs DEF Raises, Holds
    <3>2. CASE Moves(m, "judge", "rm crt")
      BY <3>2 DEF Moves, Holds
    <3>3. CASE Moves(m, "judge", "copy") /\ file["crt"] \in Pairs \ expiring
      BY <2>1, <3>3 DEF Moves, Holds, dirVars, Settings
    <3> QED BY <2>1, <2>3, <3>1, <3>2, <3>3, StepMoves
  <2>5. Others(m)
    BY <2>1, RaisesIs, StepMoves DEF Raises, Moves
  <2> QED BY <1>a, <2>1, <2>2, <2>4, <2>5
<1>3. CASE Remove(m)
  <2>1. alone' = alone /\ age' = age /\ bundle' = bundle /\ made' = made
    BY <1>3 DEF Remove, Settings
  <2>2. CASE Step(m, "rm crt", "rm key") /\ file' = [file EXCEPT !["crt"] = Absent]
    <3>1. Moves(m, "rm crt", "rm key")
      BY <2>2, StepMoves
    <3>2. Sound' /\ Holds(m)'
      BY <1>0, <2>1, <2>2, <3>1 DEF Moves, Sound, Holds
    <3> QED BY <1>a, <2>1, <3>1, <3>2 DEF Moves
  <2>3. CASE Step(m, "rm key", "rm mcert") /\ file' = [file EXCEPT !["key"] = Absent]
    <3>1. Moves(m, "rm key", "rm mcert")
      BY <2>3, StepMoves
    <3>2. Sound' /\ Holds(m)'
      BY <1>0, <2>1, <2>3, <3>1 DEF Moves, Sound, Holds
    <3> QED BY <1>a, <2>1, <3>1, <3>2 DEF Moves
  <2>4. CASE Step(m, "rm mcert", "rm pem") /\ file' = [file EXCEPT !["mcert"] = Absent]
    <3>1. Moves(m, "rm mcert", "rm pem")
      BY <2>4, StepMoves
    <3>2. Sound' /\ Holds(m)'
      BY <1>0, <2>1, <2>4, <3>1, Numbers DEF Moves, Sound, Holds
    <3> QED BY <1>a, <2>1, <3>1, <3>2 DEF Moves
  <2>5. CASE Step(m, "rm pem", "truncate") /\ file' = file
    <3>1. Moves(m, "rm pem", "truncate")
      BY <2>5, StepMoves
    <3>2. Sound' /\ Holds(m)'
      BY <1>0, <2>1, <2>5, <3>1 DEF Moves, Sound, Holds
    <3> QED BY <1>a, <2>1, <3>1, <3>2 DEF Moves
  <2> QED BY <1>3, <2>2, <2>3, <2>4, <2>5 DEF Remove
<1>4. CASE TruncateKey(m)
  <2>1. /\ Step(m, "truncate", "keyout") /\ file' = [file EXCEPT !["key"] = Empty]
        /\ UNCHANGED <<bundle, age, made, alone>>
    BY <1>4 DEF TruncateKey, Settings
  <2>2. Moves(m, "truncate", "keyout")
    BY <2>1, StepMoves
  <2>3. Sound' /\ Holds(m)'
    BY <1>0, <2>1, <2>2 DEF Moves, Sound, Holds
  <2> QED BY <1>a, <2>1, <2>2, <2>3 DEF Moves
<1>5. CASE WriteKey(m)
  <2>1. /\ maker[m].stage = "keyout"
        /\ maker' = [maker EXCEPT ![m].stage = "certout", ![m].pair = made']
        /\ file' = [file EXCEPT !["key"] = made']
        /\ UNCHANGED <<bundle, age, alone, disk, expiring>>
        /\ made < MaxPairs /\ made' = made + 1
    BY <1>5 DEF WriteKey, Settings
  <2>2. made' \notin expiring
    BY <2>1, OneMore DEF CaInv
  <2>3. maker'[m].stage = "certout" /\ maker'[m].pair = made' /\ Others(m)
    BY <2>1 DEF Others, CaInv, MakerRecord
  <2>4. Sound' /\ Holds(m)'
    <3>1. file["crt"] = Absent /\ file'["crt"] = Absent /\ file'["key"] = made'
          /\ file'["mcert"] = file["mcert"]
      BY <1>0, <2>1 DEF Holds
    <3>2. Sound'
      BY <1>0, <2>1, <3>1 DEF Sound
    <3>3. Holds(m)'
      <4>1. expiring' = expiring
        BY <2>1
      <4>2. made' \notin expiring'
        BY <2>2, <4>1
      <4> QED BY ONLY <2>3, <3>1, <4>2 DEF Holds
    <3> QED BY <3>2, <3>3
  <2> QED BY <1>a, <2>1, <2>3, <2>4
<1>6. CASE WriteCert(m)
  <2>1. /\ Step(m, "certout", "verify") /\ file' = [file EXCEPT !["crt"] = maker[m].pair]
        /\ UNCHANGED <<bundle, age, made, alone, disk, expiring>>
    BY <1>6 DEF WriteCert, Settings
  <2>2. maker[m].pair \in 1..made /\ maker[m].pair \in Pairs
    BY <1>b, <2>1, PairIsText DEF Step
  <2>3. Moves(m, "certout", "verify")
    BY <2>1, StepMoves
  <2>4. file["key"] = maker[m].pair /\ maker[m].pair \notin expiring
    BY <1>0, <2>3 DEF Moves, Holds
  <2>5. Sound' /\ Holds(m)'
    BY <1>0, <2>1, <2>2, <2>3, <2>4 DEF Moves, Sound, Holds
  <2> QED BY <1>a, <2>1, <2>3, <2>5 DEF Moves
<1>7. CASE OpensslFails(m) \/ Verify(m)
  <2>1. /\ UNCHANGED <<dirVars, made, Settings>>
        /\ \/ Step(m, "verify", "copy")
           \/ /\ maker' = [maker EXCEPT ![m] = Idle]
              /\ maker[m].stage \in {"keyout", "certout", "verify"}
    BY <1>7 DEF OpensslFails, Verify, Raises
  <2>2. Sound' /\ alone' = alone
    BY <1>0, <2>1 DEF Sound, dirVars, Settings
  <2>3. Holds(m)'
    BY <1>0, <2>1, StepIs, RaisesIs DEF dirVars, Settings, Holds
  <2>4. maker[m].stage # "idle" /\ Others(m)
    BY <2>1, StepMoves, RaisesIs DEF Moves
  <2> QED BY <1>a, <2>2, <2>3, <2>4
<1>8. CASE StartCopy(m)
  <2>1. maker[m].stage = "copy" /\ file["crt"] \in Pairs \ expiring
    BY <1>0, <1>8 DEF StartCopy, Holds
  <2>2. /\ Outdates(m, "copying", file["crt"]) /\ file' = [file EXCEPT !["mcert"] = Empty]
        /\ UNCHANGED <<made, alone, disk, expiring>>
    BY <1>8, <2>1, Numbers DEF StartCopy, Settings
  <2>3. file["crt"] \in Contents
    BY <1>0, TextIsContents
  <2> QED BY <1>0, <1>a, <2>1, <2>2, <2>3, OutdatesIs DEF Sound, Holds, Outdated
<1>9. CASE FinishCopy(m)
  <2>1. maker[m].stage = "copying" /\ file["crt"] \in Pairs \ expiring /\ maker[m].cert = file["crt"]
    BY <1>0, <1>9 DEF FinishCopy, Holds
  <2>2. /\ Outdates(m, "read", maker[m].cert) /\ file' = [file EXCEPT !["mcert"] = file["crt"]]
        /\ UNCHANGED <<made, alone, disk, expiring>>
    BY <1>9, <2>1, Numbers DEF FinishCopy, Settings
  <2>3. maker[m].cert \in Contents
    BY <1>0, <2>1, TextIsContents
  <2> QED BY <1>0, <1>a, <2>1, <2>2, <2>3, OutdatesIs DEF Sound, Holds, Outdated
<1>10. CASE ReadPair(m)
  <2>1. /\ maker[m].stage = "read" /\ file["crt"] \in Pairs \ expiring
        /\ file["key"] = file["crt"] /\ (disk => file["mcert"] = file["crt"])
    BY <1>0, <1>10, Numbers DEF ReadPair, Holds, Sound
  <2>2. /\ maker' = [maker EXCEPT ![m].key = file["key"], ![m].cert = file["crt"], ![m].stage = "open"]
        /\ UNCHANGED <<dirVars, made, Settings>>
    BY <1>10, <2>1, Numbers DEF ReadPair
  <2>3. /\ maker'[m].stage = "open" /\ maker'[m].key = file["key"]
        /\ maker'[m].cert = file["crt"] /\ Others(m)
    BY <2>2 DEF Others, CaInv, MakerRecord
  <2> QED BY <1>0, <1>a, <2>1, <2>2, <2>3 DEF Sound, Holds, dirVars, Settings
<1>11. CASE WritePem(m)
  <2>1. /\ UNCHANGED <<file, bundle, age, made, alone, disk, expiring>>
        /\ \/ Step(m, "open", "write")
           \/ Step(m, "write", "made") /\ pem' = [key |-> maker[m].key, cert |-> maker[m].cert]
    BY <1>11 DEF WritePem, Settings
  <2>2. Moves(m, "open", "write") \/ Moves(m, "write", "made")
    BY <2>1, StepMoves
  <2>3. Sound'
    BY <1>0, <2>1 DEF Sound
  <2>4. CASE Moves(m, "open", "write")
    BY <1>0, <1>a, <2>1, <2>3, <2>4 DEF Moves, Holds
  <2>5. CASE Moves(m, "write", "made")
    <3>1. pem' = [key |-> maker[m].key, cert |-> maker[m].cert]
      BY <2>1, <2>5 DEF Moves, Step
    <3>2. Holds(m)'
      BY <1>0, <2>1, <2>5, <3>1 DEF Moves, Holds
    <3> QED BY <1>a, <2>1, <2>3, <2>5, <3>2 DEF Moves
  <2> QED BY <2>2, <2>4, <2>5
<1>12. CASE CheckBundle(m)
  <2>1. /\ UNCHANGED <<dirVars, made, Settings>>
        /\ \/ Trusts(m, "bundle", Absent) /\ file["mcert"] = Absent
           \/ Trusts(m, "bundle", bundle) /\ age # "older"
           \/ Step(m, "bundle", "compose")
    BY <1>12 DEF CheckBundle
  <2>2. Absent \in Contents /\ bundle \in Contents
    BY CaInvIs, TextIsContents DEF Directory, Text
  <2>3. Sound' /\ alone' = alone
    BY <1>0, <2>1 DEF Sound, dirVars, Settings
  <2>4. Holds(m)'
    <3>1. file' = file /\ age' = age /\ age \in AgeValues
      BY <2>1, CaInvIs DEF dirVars, Directory
    <3>2. CASE Trusts(m, "bundle", Absent) /\ file["mcert"] = Absent
      BY <2>2, <3>1, <3>2, TrustsIs, Numbers DEF Holds
    <3>3. CASE Trusts(m, "bundle", bundle) /\ age # "older"
      BY <1>0, <2>2, <3>1, <3>3, TrustsIs DEF Sound, Holds, AgeValues
    <3>4. CASE Moves(m, "bundle", "compose")
      BY <3>4 DEF Moves, Holds
    <3> QED BY <2>1, <3>2, <3>3, <3>4, StepMoves
  <2>5. maker[m].stage # "idle" /\ Others(m)
    <3>1. ASSUME NEW cert \in Contents, Trusts(m, "bundle", cert)
          PROVE  maker[m].stage # "idle" /\ Others(m)
      <4>1. Others(m)
        BY <3>1, TrustsIs
      <4> QED BY <3>1, <4>1 DEF Trusts
    <3>2. CASE Moves(m, "bundle", "compose")
      BY <3>2 DEF Moves
    <3> QED BY <2>1, <2>2, <3>1, <3>2, StepMoves
  <2> QED BY <1>a, <2>3, <2>4, <2>5
<1>13. CASE Compose(m)
  <2>1. /\ UNCHANGED <<dirVars, made, Settings>> /\ maker[m].stage = "compose"
        /\ \/ Trusts(m, "compose", file["mcert"])
           \/ maker' = [maker EXCEPT ![m].stage = "tmp", ![m].cert = file["mcert"]]
    BY <1>13 DEF Compose
  <2>2. file["mcert"] \in Contents
    BY <1>0, TextIsContents
  <2>3. /\ maker'[m].stage \in {"tmp", "trusts"} /\ maker'[m].cert = file["mcert"] /\ Others(m)
    <3>1. CASE Trusts(m, "compose", file["mcert"])
      BY <2>2, <3>1, TrustsIs
    <3>2. CASE maker' = [maker EXCEPT ![m].stage = "tmp", ![m].cert = file["mcert"]]
      BY <3>2 DEF Others, CaInv, MakerRecord
    <3> QED BY <2>1, <3>1, <3>2
  <2> QED BY <1>0, <1>a, <2>1, <2>3 DEF Sound, Holds, dirVars, Settings
<1>14. CASE WriteTmp(m)
  <2>1. /\ UNCHANGED <<dirVars, made, Settings>> /\ maker[m].stage = "tmp"
        /\ \/ Trusts(m, "tmp", file["mcert"])
           \/ \E written \in {"newer", "older"} :
                 maker' = [maker EXCEPT ![m].stage = "replace", ![m].age = written]
    BY <1>14 DEF WriteTmp
  <2>2. file["mcert"] \in Contents /\ maker[m].cert = file["mcert"]
    BY <1>0, <2>1, TextIsContents DEF Holds
  <2>3. /\ maker'[m].stage \in {"replace", "trusts"} /\ maker'[m].cert = file["mcert"] /\ Others(m)
    <3>1. CASE Trusts(m, "tmp", file["mcert"])
      BY <2>2, <3>1, TrustsIs
    <3>2. ASSUME NEW written,
                 maker' = [maker EXCEPT ![m].stage = "replace", ![m].age = written]
          PROVE  /\ maker'[m].stage \in {"replace", "trusts"}
                 /\ maker'[m].cert = file["mcert"] /\ Others(m)
      BY <2>2, <3>2 DEF Others, CaInv, MakerRecord
    <3> QED BY <2>1, <3>1, <3>2
  <2> QED BY <1>0, <1>a, <2>1, <2>3 DEF Sound, Holds, dirVars, Settings
<1>15. CASE ReplaceBundle(m)
  <2>1. /\ Trusts(m, "replace", maker[m].cert) /\ bundle' = maker[m].cert
        /\ UNCHANGED <<file, pem, made, alone, disk, expiring>>
    BY <1>15 DEF ReplaceBundle, Settings
  <2>2. maker[m].stage = "replace" /\ maker[m].cert = file["mcert"] /\ maker[m].cert \in Contents
    BY <1>0, <2>1, TextIsContents DEF Trusts, Holds
  <2>3. maker'[m].stage = "trusts" /\ maker'[m].cert = file["mcert"] /\ Others(m)
    BY <2>1, <2>2, TrustsIs
  <2> QED BY <1>0, <1>a, <2>1, <2>2, <2>3 DEF Sound, Holds
<1>16. CASE CopyFails(m)
  <2>1. /\ UNCHANGED <<dirVars, made, Settings>> /\ ~disk
        /\ \/ Step(m, "copy", "read") \/ Step(m, "copying", "read")
           \/ Step(m, "open", "made") \/ Step(m, "write", "made")
    BY <1>16 DEF CopyFails
  <2>2. Sound' /\ alone' = alone /\ disk' = disk /\ file' = file /\ expiring' = expiring
    BY <1>0, <2>1 DEF Sound, dirVars, Settings
  <2>3. /\ Others(m) /\ maker[m].stage \in {"copy", "copying", "open", "write"}
        /\ maker'[m].stage \in {"read", "made"}
    BY <2>1, StepMoves DEF Moves
  <2>4. Holds(m)'
    BY <1>0, <2>1, <2>2, <2>3 DEF Holds
  <2> QED BY <1>a, <2>2, <2>3, <2>4
<1> QED
  BY <1>1, <1>2, <1>3, <1>4, <1>5, <1>6, <1>7, <1>8, <1>9, <1>10, <1>11, <1>12, <1>13,
     <1>14, <1>15, <1>16 DEF Make

LEMMA AloneStep ==
    ASSUME CaInv, AloneInv, [CaNext]_caVars
    PROVE  AloneInv'
<1> SUFFICES ASSUME alone' PROVE AloneInv'
  BY DEF AloneInv
<1>1. CASE UNCHANGED caVars
  BY <1>1 DEF caVars, AloneInv, AtWork, Holds
<1>2. CASE Ages
  <2>1. AtWork = {} /\ UNCHANGED <<alone, disk, dirVars, made, maker>>
    BY <1>2 DEF Ages
  <2>2. \A w \in Makers : maker'[w].stage = "idle"
    BY <2>1 DEF AtWork
  <2>3. AtWork' = {} /\ \A w \in Makers : Holds(w)'
    BY <2>2 DEF AtWork, Holds
  <2> QED BY <2>1, <2>3 DEF AloneInv, dirVars
<1>4. ASSUME NEW m \in Makers, NEW command, Launch(m, command)
      PROVE  AloneInv'
  <2>1. /\ Step(m, "idle", "look") \/ Step(m, "idle", "bundle")
        /\ UNCHANGED <<alone, disk, dirVars, expiring, made>> /\ alone /\ AtWork = {}
    BY <1>4, LaunchIs
  <2>2. Others(m) /\ maker'[m].stage \in {"look", "bundle"}
    BY <2>1, StepIs, MakerStagesAre
  <2>3. Holds(m)' /\ Sound'
    BY <2>1, <2>2 DEF Holds, Sound, AloneInv, dirVars
  <2> QED BY <2>1, <2>2, <2>3, OneMoves
<1>5. ASSUME NEW m \in Makers, Leaves(m)
      PROVE  AloneInv'
  <2>1. /\ m \in AtWork /\ UNCHANGED <<dirVars, made, Settings>>
        /\ Others(m) /\ maker'[m].stage = "idle"
    BY <1>5, RaisesIs DEF Leaves
  <2>2. Holds(m)' /\ Sound' /\ alone' = alone
    BY <2>1 DEF Holds, Sound, AloneInv, dirVars, Settings
  <2> QED BY <2>1, <2>2, OneMoves
<1>6. ASSUME NEW m \in Makers, Make(m)
      PROVE  AloneInv'
  <2>1. alone' = alone
    BY <1>6 DEF Make, Settings, Look, Judge, Remove, TruncateKey, WriteKey, WriteCert, OpensslFails,
                Verify, StartCopy, FinishCopy, ReadPair, WritePem, CopyFails, CheckBundle, Compose, WriteTmp,
                ReplaceBundle
  <2> QED BY <1>6, <2>1, AloneMake
<1> QED BY <1>1, <1>2, <1>4, <1>5, <1>6 DEF CaNext

LEMMA AloneAlways == CaSpec => []AloneInv
<1>1. CaInit => AloneInv
  <2> SUFFICES ASSUME CaInit PROVE AloneInv
    OBVIOUS
  <2>1. \A m \in Makers : maker[m].stage = "idle"
    BY IdleType DEF CaInit
  <2>2. AtWork = {} /\ \A m \in Makers : Holds(m)
    BY <2>1 DEF AtWork, Holds
  <2>3. file["crt"] = Absent /\ age = "older"
    BY DEF CaInit, Files
  <2> QED BY <2>2, <2>3 DEF AloneInv
<1>2. CaInv /\ AloneInv /\ [CaNext]_caVars => AloneInv'
  BY AloneStep
<1> QED BY <1>1, <1>2, CaTypes, PTL DEF CaSpec

(* One process at a time: a certificate that would be reused has its own key *)
(* beside it, wherever a process died, and a generator that returns has left *)
(* one whole pair, copied to both of mitmproxy's files if they can be        *)
(* written.                                                                  *)
THEOREM LoneMakersAreSound == CaSpec => []LoneMakerLeavesWholeCa
<1>1. AloneInv => ReusedPairMatches
  BY Numbers DEF AloneInv, ReusedPairMatches
<1>2. AloneInv => MakerLeavesWholeCa
  BY Numbers DEF AloneInv, Holds, MakerLeavesWholeCa, Files
<1>3. AloneInv => LoneMakerLeavesWholeCa
  BY <1>1, <1>2 DEF LoneMakerLeavesWholeCa
<1> QED BY <1>3, AloneAlways, PTL

(* One process at a time: the trust bundle an agent is given holds the       *)
(* certificate the proxy has, unless the two files' times tell that          *)
(* certificate for the older one.                                            *)
THEOREM BundlesAreCurrent == CaSpec => []BundleIsCurrent
<1>1. AloneInv => BundleIsCurrent
  BY DEF AloneInv, Holds, BundleIsCurrent, BundleTrustsProxy
<1> QED BY <1>1, AloneAlways, PTL
=============================================================================
