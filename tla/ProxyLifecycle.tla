--------------------------- MODULE ProxyLifecycle ---------------------------
(***************************************************************************)
(* The shared proxy container and the commands that start, join, recreate  *)
(* and remove it: `run-agent` (commands/agents.py) through                 *)
(* ensure_proxy_running, `start` through handle_start (commands/start.py)  *)
(* and `stop` (commands/docker_ops.py).                                    *)
(*                                                                         *)
(* There is no lock between commands: each one looks at the port, then at  *)
(* the container, then removes and creates by name, and another command,   *)
(* or a crash, may come between any two of these calls.  `serial` says     *)
(* whether the user lets one command get as far as its agent before the    *)
(* next one begins; what the code promises only then is stated under it.   *)
(*                                                                         *)
(* A container has one name.  The CA files it mounts are in CaStore.       *)
(***************************************************************************)
EXTENDS Naturals

CONSTANTS
    Commands,    \* invocations of `run-agent` and of `start --detach`
    MaxPort,     \* host ports are 1..MaxPort
    Targets,     \* ports host-local model servers listen on
    Nobody,      \* lineage of a container that was there first
    MaxEvents    \* bound on what happens around the commands

ASSUME LifeAssumption ==
    /\ Nobody \notin Commands
    /\ MaxPort \in Nat \ {0}
    /\ MaxEvents \in Nat
    /\ Targets \subseteq Nat \ {0}

Ports == 1..MaxPort

VARIABLES
    serial,     \* whether commands are given one after the other
    obeys,      \* whether docker rm -f removes what it is told to
    reads,      \* whether every docker inspect and docker port is answered
    container,  \* the container of the proxy's name
    squatted,   \* ports other programs listen on
    cmd,        \* each command
    events      \* what has happened around them
lifeVars == <<serial, obeys, reads, container, squatted, cmd, events>>

\* lineage: who started it, kept by a recreation; by: who ran it last.
Containers == [
    up : {"none", "stopped", "running"}, answers : BOOLEAN,
    port : Ports, spec : SUBSET Targets,
    lineage : Commands \cup {Nobody}, by : Commands \cup {Nobody}]

\* The stages of a command, by the call it makes next.
Waiting == {"port", "busy", "idle", "spec", "stop", "free",
            "image", "remove", "run", "ready", "giveup", "probe"}
Stages == Waiting \cup {"unborn", "agent", "done", "failed", "aborted"}

\* replaced: the allow list of the container that was stopped to be recreated.
\* before: lineages running when the command began.
CommandRecord == [
    kind : {"agent", "start"}, stage : Stages, port : Ports, target : SUBSET Targets, ephemeral : BOOLEAN,
    spec : SUBSET Targets, replaced : SUBSET Targets,
    wasRunning : BOOLEAN, started : BOOLEAN, lineage : Commands \cup {Nobody},
    before : SUBSET (Commands \cup {Nobody})]

Running == container.up = "running"
BoundTo(p) == Running /\ container.port = p

\* is_port_in_use: it accepts a connection, or it cannot be bound.
InUse(p) == p \in squatted \/ BoundTo(p)

\* The commands between their first look and their agent.
Underway == {c \in Commands : cmd[c].stage \in Waiting}

Unborn(port) == [
    kind |-> "agent", stage |-> "unborn", port |-> port, target |-> {}, ephemeral |-> FALSE,
    spec |-> {}, replaced |-> {}, wasRunning |-> FALSE, started |-> FALSE,
    lineage |-> Nobody, before |-> {}]

NoContainer == [
    up |-> "none", answers |-> FALSE, port |-> 1, spec |-> {},
    lineage |-> Nobody, by |-> Nobody]

LifeInit ==
    /\ serial \in BOOLEAN
    /\ obeys \in BOOLEAN
    /\ reads \in BOOLEAN
    /\ squatted = {}
    /\ container \in {NoContainer,
           [NoContainer EXCEPT !.up = "running", !.answers = TRUE]}
    /\ cmd = [c \in Commands |-> Unborn(1)]
    /\ events = 0

Goto(c, s) == cmd' = [cmd EXCEPT ![c].stage = s]
\* The process exits, with all it knew.
Ends(c, s) == cmd' = [cmd EXCEPT ![c] = [Unborn(1) EXCEPT !.stage = s]]
At(c, s) == cmd[c].stage = s
Happens == events < MaxEvents /\ events' = events + 1
-----------------------------------------------------------------------------
(* ensure_proxy_running: what to do with what is there. *)

\* A command for a port, with a local endpoint or none.
Begin(c, kind, port, target, ephemeral) ==
    /\ At(c, "unborn")
    /\ serial => Underway = {}
    /\ port \notin target
    /\ cmd' = [cmd EXCEPT ![c].kind = kind, ![c].stage = "port", ![c].port = port,
                          ![c].target = target, ![c].spec = target,
                          ![c].ephemeral = ephemeral,
                          ![c].before = IF Running THEN {container.lineage} ELSE {}]
    /\ UNCHANGED <<serial, obeys, reads, container, squatted, events>>

\* check_docker_daemon
DaemonDown(c) ==
    /\ At(c, "unborn")
    /\ Ends(c, "failed")
    /\ UNCHANGED <<serial, obeys, reads, container, squatted, events>>

CheckPort(c) ==
    /\ At(c, "port") /\ cmd[c].kind = "agent"
    /\ Goto(c, IF InUse(cmd[c].port) THEN "busy" ELSE "idle")
    /\ UNCHANGED <<serial, obeys, reads, container, squatted, events>>

\* ensure_proxy_running returns: whether it started what was not there.
Returned(c, started) ==
    cmd' = [cmd EXCEPT ![c].stage = "probe", ![c].started = started]

\* The port is busy: join our own container, or read its allow list first.  A
\* query docker does not answer in time says that the container is not ours.
FoundBusy(c) ==
    /\ At(c, "busy")
    /\ \/ BoundTo(cmd[c].port) /\ cmd[c].target = {} /\ Returned(c, FALSE)
       \/ BoundTo(cmd[c].port) /\ cmd[c].target # {} /\ Goto(c, "spec")
       \/ (~BoundTo(cmd[c].port) \/ ~reads) /\ Ends(c, "failed")
    /\ UNCHANGED <<serial, obeys, reads, container, squatted, events>>

\* container_host_local_spec: what the container was started with, or nothing
\* if there is none or docker does not answer.
SpecsRead ==
    {IF container.up = "none" THEN {} ELSE container.spec} \cup (IF reads THEN {} ELSE {{}})

\* Mutant: the container is recreated for the new target alone.
MutantReadSpec(c) ==
    /\ At(c, "spec")
    /\ \E found \in SpecsRead :
          IF cmd[c].target \subseteq found
          THEN Returned(c, FALSE)
          ELSE cmd' = [cmd EXCEPT ![c].stage = "stop", ![c].wasRunning = TRUE,
                                  ![c].spec = cmd[c].target]
    /\ UNCHANGED <<serial, obeys, reads, container, squatted, events>>

\* host_local_covered, and the merge of what was read with the new target.
ReadSpec(c) ==
    /\ At(c, "spec")
    /\ \E found \in SpecsRead :
          IF cmd[c].target \subseteq found
          THEN Returned(c, FALSE)
          ELSE cmd' = [cmd EXCEPT ![c].stage = "stop", ![c].wasRunning = TRUE,
                                  ![c].spec = found \cup cmd[c].target]
    /\ UNCHANGED <<serial, obeys, reads, container, squatted, events>>

\* docker rm -f, by name: whatever has it by now.  A failure is only printed.
RemoveByName == container' = NoContainer \/ (~obeys /\ container' = container)

\* stop_proxy_container
StopToRecreate(c) ==
    /\ At(c, "stop")
    /\ cmd' = [cmd EXCEPT ![c].stage = "free",
                          ![c].lineage = IF container.up = "none" THEN c ELSE container.lineage,
                          ![c].replaced = IF Running THEN container.spec ELSE {}]
    /\ RemoveByName
    /\ UNCHANGED <<serial, obeys, reads, squatted, events>>

\* Poll until the port is free, ten seconds at most.
PortFreed(c) ==
    /\ At(c, "free")
    /\ ~InUse(cmd[c].port)
    /\ Goto(c, "image")
    /\ UNCHANGED <<serial, obeys, reads, container, squatted, events>>

\* Mutant: no deadline.
MutantPortNotFreed(c) == FALSE

PortNotFreed(c) ==
    /\ At(c, "free")
    /\ InUse(cmd[c].port)
    /\ Ends(c, "failed")
    /\ UNCHANGED <<serial, obeys, reads, container, squatted, events>>

\* The port is free: a container of that name may run all the same, or seem
\* not to, if docker does not answer.
FoundIdle(c) ==
    /\ At(c, "idle")
    /\ \/ (~Running \/ ~reads) /\ Goto(c, "image")
       \/ BoundTo(cmd[c].port) /\ container.answers /\ Returned(c, FALSE)
       \/ /\ Running
          /\ ~(BoundTo(cmd[c].port) /\ container.answers /\ reads)
          /\ Ends(c, "failed")
    /\ UNCHANGED <<serial, obeys, reads, container, squatted, events>>
-----------------------------------------------------------------------------
(* From here on `run-agent` and `start` make the same calls. *)

\* find_available_port: the first free one, or one the system picks.
AvailablePorts(from) ==
    LET free == {p \in Ports : ~InUse(p)}
        first == {p \in free : p >= from /\ \A q \in free : q >= from => p <= q}
    IN  IF first # {} THEN first ELSE free

\* handle_start maps another host port when the one asked for is taken.
StartPort(c) ==
    /\ At(c, "port") /\ cmd[c].kind = "start"
    /\ LET ports == IF InUse(cmd[c].port) THEN AvailablePorts(cmd[c].port + 1) ELSE {cmd[c].port} IN
       \/ \E p \in ports : cmd' = [cmd EXCEPT ![c].stage = "image", ![c].port = p]
       \/ ports = {} /\ Ends(c, "failed")
    /\ UNCHANGED <<serial, obeys, reads, container, squatted, events>>

\* ensure_docker_image: it is there, or it is built or pulled, or neither works.
EnsureImage(c) ==
    /\ At(c, "image")
    /\ Goto(c, "remove") \/ Ends(c, "failed")
    /\ UNCHANGED <<serial, obeys, reads, container, squatted, events>>

RemoveOld(c) ==
    /\ At(c, "remove")
    /\ RemoveByName
    /\ Goto(c, "run")
    /\ UNCHANGED <<serial, obeys, reads, squatted, events>>

\* The container docker run makes for a command.
Created(c, up) == [
    up |-> up, answers |-> FALSE, port |-> cmd[c].port, spec |-> cmd[c].spec,
    lineage |-> IF cmd[c].wasRunning THEN cmd[c].lineage ELSE c, by |-> c]

DockerRun(c) ==
    /\ At(c, "run")
    /\ container.up = "none"
    /\ ~InUse(cmd[c].port)
    /\ container' = Created(c, "running")
    /\ IF cmd[c].kind = "agent" THEN Goto(c, "ready") ELSE Ends(c, "done")
    /\ UNCHANGED <<serial, obeys, reads, squatted, events>>

\* The name or the port is taken, or docker fails: what it made stays behind.
DockerRunFails(c) ==
    /\ At(c, "run")
    /\ \/ container' = container
       \/ container.up = "none" /\ container' = Created(c, "stopped")
    /\ Ends(c, "failed")
    /\ UNCHANGED <<serial, obeys, reads, squatted, events>>

\* wait_for_proxy_ready: by name whether it runs, by port whether it answers.
Answered(c) == BoundTo(cmd[c].port) /\ container.answers

\* Mutant: True is returned after a recreation too.
MutantProxyReady(c) ==
    /\ At(c, "ready")
    /\ Answered(c)
    /\ Returned(c, TRUE)
    /\ UNCHANGED <<serial, obeys, reads, container, squatted, events>>

ProxyReady(c) ==
    /\ At(c, "ready")
    /\ Answered(c)
    /\ Returned(c, ~cmd[c].wasRunning)
    /\ UNCHANGED <<serial, obeys, reads, container, squatted, events>>

\* It does not run, as far as docker says, or the deadline has passed.
ProxyNotReady(c) ==
    /\ At(c, "ready")
    /\ ~Answered(c) \/ ~reads
    /\ Goto(c, "giveup")
    /\ UNCHANGED <<serial, obeys, reads, container, squatted, events>>

\* Mutant: the container that never answered is left.
MutantGiveUp(c) ==
    /\ At(c, "giveup")
    /\ Ends(c, "failed")
    /\ UNCHANGED <<serial, obeys, reads, container, squatted, events>>

GiveUp(c) ==
    /\ At(c, "giveup")
    /\ RemoveByName
    /\ Ends(c, "failed")
    /\ UNCHANGED <<serial, obeys, reads, squatted, events>>
-----------------------------------------------------------------------------
(* run_agent after ensure_proxy_running, and the world around it. *)

\* The probe through the container, the environment, and the agent (what of
\* NO_PROXY is dropped on the way is in HostLocal).
RunAgent(c) ==
    /\ At(c, "probe")
    /\ Goto(c, "agent")
    /\ UNCHANGED <<serial, obeys, reads, container, squatted, events>>

AgentEnds(c) ==
    /\ At(c, "agent")
    /\ Ends(c, "done")
    /\ IF cmd[c].ephemeral /\ cmd[c].started THEN RemoveByName ELSE UNCHANGED container
    /\ UNCHANGED <<serial, obeys, reads, squatted, events>>

\* Ctrl-C outside the try block of the agent, or a kill.
Interrupted(c) ==
    /\ Happens
    /\ cmd[c].stage \in Waiting \cup {"agent"}
    /\ Ends(c, "aborted")
    /\ UNCHANGED <<serial, obeys, reads, container, squatted>>

\* holon-coherence stop
StopCommand ==
    /\ Happens
    /\ container.up # "none"
    /\ serial => Underway = {}
    /\ RemoveByName
    /\ UNCHANGED <<serial, obeys, reads, squatted, cmd>>

ContainerAnswers ==
    /\ Running /\ ~container.answers
    /\ container' = [container EXCEPT !.answers = TRUE]
    /\ UNCHANGED <<serial, obeys, reads, squatted, cmd, events>>

ContainerStops ==
    /\ Happens
    /\ Running
    /\ container' = [container EXCEPT !.up = "stopped", !.answers = FALSE]
    /\ UNCHANGED <<serial, obeys, reads, squatted, cmd>>

OthersListen ==
    /\ Happens
    /\ \E p \in Ports : \/ (~InUse(p) /\ squatted' = squatted \cup {p})
                       \/ (p \in squatted /\ squatted' = squatted \ {p})
    /\ UNCHANGED <<serial, obeys, reads, container, cmd>>
-----------------------------------------------------------------------------
Ensure(c) ==
    \/ CheckPort(c) \/ FoundBusy(c) \/ ReadSpec(c)
    \/ StopToRecreate(c) \/ PortFreed(c) \/ PortNotFreed(c) \/ FoundIdle(c)
    \/ StartPort(c) \/ EnsureImage(c) \/ RemoveOld(c) \/ DockerRun(c) \/ DockerRunFails(c)
    \/ ProxyReady(c) \/ ProxyNotReady(c) \/ GiveUp(c) \/ RunAgent(c)

Environment == StopCommand \/ ContainerAnswers \/ ContainerStops \/ OthersListen

Command(c) ==
    \/ \E kind \in {"agent", "start"}, port \in Ports, ephemeral \in BOOLEAN,
          target \in {{}} \cup {{t} : t \in Targets} :
          (kind = "start" => ~ephemeral) /\ Begin(c, kind, port, target, ephemeral)
    \/ DaemonDown(c) \/ Ensure(c) \/ AgentEnds(c) \/ Interrupted(c)

LifeNext == Environment \/ \E c \in Commands : Command(c)

\* A command goes on by itself: every wait of it has a deadline.  Nothing is
\* assumed of the user, the agent, the container or other programs.
LifeFairness == \A c \in Commands : WF_lifeVars(Ensure(c))
LifeSpec == LifeInit /\ [][LifeNext]_lifeVars /\ LifeFairness
-----------------------------------------------------------------------------
(* Properties. *)

(* Types; a port is the container's or another program's, never both, and a *)
(* command never asks docker for a port that does not exist.                 *)
LifeInv ==
    /\ serial \in BOOLEAN /\ obeys \in BOOLEAN /\ reads \in BOOLEAN
    /\ container \in Containers
    /\ squatted \subseteq Ports /\ events \in 0..MaxEvents
    /\ cmd \in [Commands -> CommandRecord]
    /\ Running => container.port \notin squatted

(* Commands given one after the other: when ensure_proxy_running returns to  *)
(* a session, the container, unless it has died since, is on the session's   *)
(* port and intercepts the session's local endpoint, whether it was joined,  *)
(* recreated or started, and whatever docker did not answer                  *)
(* (start.py:412-447).                                                       *)
JoinCoversTarget ==
    serial => \A c \in Commands :
        At(c, "probe") /\ Running => BoundTo(cmd[c].port) /\ cmd[c].target \subseteq container.spec

(* "When a running container does not cover a newly required endpoint, it is *)
(* recreated with the union of existing and new targets" (README.md:349-350).*)
(* With commands one after the other it still need not be: if docker does    *)
(* not answer the inspect in five seconds, the existing ones are taken for   *)
(* none (start.py:249-261).                                                  *)
RecreatedWithUnion ==
    serial => \A c \in Commands :
        Running /\ container.by = c /\ At(c, "probe") => cmd[c].replaced \subseteq container.spec

(* What a session is given, and what it takes from nobody: it is on its port *)
(* and its endpoint is intercepted, and so are those of the container it     *)
(* replaced, if docker answered (start.py:412-447).  Two recreations that    *)
(* overlap lose endpoints even so: the second was read from the first.       *)
TargetsAreCovered == JoinCoversTarget /\ (reads => RecreatedWithUnion)

(* Every order of commands: a session that fails after docker run leaves no  *)
(* container of its own running (start.py:541-552), if docker rm -f works.   *)
FailedStartLeavesNothing ==
    obeys => \A c \in Commands : At(c, "failed") => ~(Running /\ container.by = c)

(* "Pre-existing proxy containers are preserved when --ephemeral is used"    *)
(* (README.md:272): the teardown of a session removes no container, or a     *)
(* recreation of one, that ran before the session began, when commands do    *)
(* not overlap.                                                              *)
TeardownSparesPreexisting ==
    [][\A c \in Commands :
          serial /\ At(c, "agent") /\ cmd'[c].stage = "done" /\ Running /\ container'.up = "none"
             => container.lineage \notin cmd[c].before]_lifeVars

(* Every command comes to its agent or to its end, whoever else takes its    *)
(* port or its container: no wait is without a deadline.                     *)
EveryCommandSettles ==
    \A c \in Commands : At(c, "port") ~> cmd[c].stage \in {"agent", "done", "failed", "aborted"}
=============================================================================
