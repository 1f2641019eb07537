----------------------------- MODULE HostLocal -----------------------------
(***************************************************************************)
(* Host-local model servers (host_local.py and its callers): which of an   *)
(* agent's connections reach the proxy, and where the proxy, inside its    *)
(* container, dials them.                                                  *)
(*                                                                         *)
(* A session declares one endpoint; it is expanded to every spelling of    *)
(* this machine, the agent's NO_PROXY is pruned of them once the container *)
(* has been seen to reach the endpoint, and the container's allow list is  *)
(* the union over the sessions it was recreated for.  The commands that    *)
(* start and recreate it are in ProxyLifecycle; here they are one step.    *)
(***************************************************************************)
EXTENDS Naturals, Sequences, SequencesExt, Filter

CONSTANTS
    OwnPort,       \* HOLON_PROXY_PORT: the host port of the proxy
    ModelPorts,    \* other ports of this machine
    MaxSessions    \* bound on sessions

ASSUME HostLocalAssumption ==
    OwnPort \in Nat \ {0} /\ ModelPorts \subseteq Nat \ {0, OwnPort} /\ MaxSessions \in Nat

NoPort == 0
Gateway == "host.docker.internal"
Loopbacks == {"localhost", "127.0.0.1", "::1"}
\* An address of this machine, one it has after it has moved, another machine's.
Addresses == {"lan", "lan2", "peer"}
Hosts == Loopbacks \cup Addresses \cup {Gateway}
Ports == ModelPorts \cup {OwnPort}
Target(host, port) == [host |-> host, port |-> port]
Declarable == {Target(h, p) : h \in Loopbacks \cup Addresses, p \in ModelPorts \cup {NoPort}}

VARIABLES
    own,           \* detect_host_addresses: this machine's address
    allowed,       \* HOLON_HOST_LOCAL_HOSTS of the container, in order
    resolved,      \* the addon's _gateway_ip is known
    sessions       \* sessions of this container
hostVars == <<own, allowed, resolved, sessions>>
-----------------------------------------------------------------------------
(* On the host. *)

\* sorted(hosts); the port is carried through.
ByName == <<"127.0.0.1", "lan", "lan2", "::1", "localhost", "peer">>

\* expand_equivalence_class
EquivalentHosts(t, addresses) ==
    {t.host} \cup (IF t.host \in Loopbacks THEN Loopbacks \cup addresses
                   ELSE IF t.host \in addresses THEN addresses ELSE {})

Expand(t, addresses) ==
    LET names == Keep(ByName, EquivalentHosts(t, addresses))
    IN  [i \in DOMAIN names |-> Target(names[i], t.port)]

\* Mutant: the container is recreated for the new session alone.
MutantMerge(old, new) == new

\* decode_targets of two specs, encoded again: each target once, in order.
Merge(old, new) == old \o Keep(new, ToSet(new) \ ToSet(old))

\* host_local_covered
Covers(existing, required) ==
    \A t \in ToSet(required) : \E c \in ToSet(existing) : c.host = t.host /\ c.port \in {NoPort, t.port}

\* NO_PROXY entries: the wildcard, or a host with a port or none.
Wildcard == Target("*", NoPort)
DefaultEntries == {Target(h, NoPort) : h \in Loopbacks}

\* _entry_matches
EntryMatches(entry, hosts, port) ==
    /\ entry # Wildcard
    /\ entry.host \in hosts
    /\ entry.port = NoPort \/ port = NoPort \/ entry.port = port

\* plan_no_proxy_pruning, and report_local_llm_route: the entries to drop.
Dropped(entries, t, addresses, reachable) ==
    IF Wildcard \in entries \/ ~(reachable \/ t.port = NoPort) THEN {}
    ELSE {e \in entries : EntryMatches(e, EquivalentHosts(t, addresses), t.port)}

\* plan_local_llm_route, ensure_proxy_running, the probe through the container,
\* build_proxy_env: what a session gets.  A container that is made again has an
\* addon that has resolved nothing.
StartSession(t, extra, reachable) ==
    LET spec    == Expand(t, {own})
        entries == DefaultEntries \cup extra
    IN  /\ Len(sessions) < MaxSessions
        /\ t.port # OwnPort
        /\ allowed' = IF Covers(allowed, spec) THEN allowed ELSE Merge(allowed, spec)
        /\ resolved' = (resolved /\ Covers(allowed, spec))
        /\ sessions' = Append(sessions,
               [target |-> t, own |-> own, reachable |-> reachable \/ t.port = NoPort,
                wildcard |-> Wildcard \in entries,
                noproxy |-> entries \ Dropped(entries, t, {own}, reachable)])
        /\ UNCHANGED own

\* The container is removed, with the sessions that used it.
StopContainer ==
    /\ sessions # <<>>
    /\ sessions' = <<>> /\ allowed' = <<>> /\ resolved' = FALSE
    /\ UNCHANGED own

\* The machine joins another network.
Moves ==
    /\ own = "lan"
    /\ own' = "lan2"
    /\ UNCHANGED <<allowed, resolved, sessions>>
-----------------------------------------------------------------------------
(* In the container. *)

\* _resolve_gateway, tried for every connection until it succeeds once.
ResolveGateway ==
    /\ allowed # <<>> /\ ~resolved
    /\ resolved' = TRUE
    /\ UNCHANGED <<own, allowed, sessions>>

\* is_local_target, for a provider's request: by host, or by a declared port.
IsLocalTarget(h, p) ==
    \/ h \in Loopbacks \cup {Gateway}
    \/ \E t \in ToSet(allowed) : t.host = h \/ (t.port # NoPort /\ t.port = p /\ t.host \in Loopbacks)

\* Mutant: once anything is declared, every address of a private network is.
MutantDecide(h, p, targets) ==
    IF h = Gateway \/ targets = <<>> THEN "as_is"
    ELSE IF p = OwnPort THEN "blocked"
    ELSE IF resolved THEN "gateway" ELSE "as_is"

\* A loopback at any port, once one is declared; another host at its own port.
AllowListed(h, p, targets) ==
    \E t \in ToSet(targets) :
        IF h \in Loopbacks THEN t.host \in Loopbacks ELSE t.host = h /\ t.port \in {NoPort, p}

\* decide_rewrite; while the gateway is not resolved, it is dialled as it is.
Decide(h, p, targets) ==
    IF h = Gateway \/ targets = <<>> THEN "as_is"
    ELSE IF p = OwnPort THEN "blocked"
    ELSE IF AllowListed(h, p, targets) /\ resolved THEN "gateway" ELSE "as_is"

\* route_local_target: an agent that addresses the proxy itself is sent to the
\* first target of the list.
SelfAddressed(h, p) == h \in {"localhost", "127.0.0.1"} /\ p = OwnPort /\ allowed # <<>>
Routed(h, p) ==
    IF SelfAddressed(h, p)
    THEN [host |-> Gateway, port |-> IF Head(allowed).port # NoPort THEN Head(allowed).port ELSE p]
    ELSE [host |-> h, port |-> p]

\* server_connect, for what the proxy was asked to reach.
Dialled(h, p) ==
    LET r == Routed(h, p) IN
    CASE Decide(r.host, r.port, allowed) = "gateway" -> [host |-> Gateway, port |-> r.port]
      [] Decide(r.host, r.port, allowed) = "blocked" -> [host |-> "blocked", port |-> r.port]
      [] OTHER -> r
-----------------------------------------------------------------------------
\* The user's own NO_PROXY entries that are tried: none, one, or all of them.
Entries == {Wildcard, Target("lan", NoPort), Target("localhost", CHOOSE p \in ModelPorts : TRUE)}
Extras == {{}, Entries} \cup {{e} : e \in Entries}

HostInit == own = "lan" /\ allowed = <<>> /\ resolved = FALSE /\ sessions = <<>>
HostNext ==
    \/ \E t \in Declarable, extra \in Extras, reachable \in BOOLEAN : StartSession(t, extra, reachable)
    \/ StopContainer \/ Moves \/ ResolveGateway
HostSpec == HostInit /\ [][HostNext]_hostVars
-----------------------------------------------------------------------------
(* Properties. *)

\* How an agent's client reads NO_PROXY.
Bypasses(s, h, p) ==
    Wildcard \in s.noproxy \/ \E e \in s.noproxy : e.host = h /\ e.port \in {NoPort, p}

\* The names of the machine a session began on (README.md:336).
Spellings(s) == Loopbacks \cup {s.own}

\* The ports an endpoint is at.
EndpointPorts(s) == IF s.target.port = NoPort THEN ModelPorts ELSE {s.target.port}

\* A connection of the session's agent is taken to the session's endpoint: it
\* comes to the proxy if the probe did and NO_PROXY has no wildcard, is local to
\* the pipelines, and is dialled at the gateway on its port once that resolves.
IsReached(s, h, p) ==
    /\ s.reachable /\ ~s.wildcard => ~Bypasses(s, h, p)
    /\ resolved => Dialled(h, p) = [host |-> Gateway, port |-> p]
    /\ IsLocalTarget(h, p)

(* "Interception, not bypass" (README.md:339): whatever sessions joined the  *)
(* proxy since and had it recreated, the endpoint a session declared on its  *)
(* own machine is reached: by every spelling if it declared a loopback, by   *)
(* the machine's address if it declared that.  It is less than README.md:336 *)
(* says: with the address declared, localhost is not "treated as the same    *)
(* machine" (host_local.py:299-303, test_host_local.py:127-132, 230-234).    *)
EndpointIsReached ==
    \A i \in DOMAIN sessions :
        LET s == sessions[i] IN
        s.target.host \in Spellings(s) =>
            \A h \in Spellings(s), p \in EndpointPorts(s) :
                s.target.host \in Loopbacks \/ h = s.own => IsReached(s, h, p)

(* "Never hijacks a real peer" (README.md:343): an address that is neither   *)
(* declared nor this machine's is dialled as it is, on every port, as long   *)
(* as the machine has not moved since a session of the container began.      *)
PeersAreNotHijacked ==
    (\A i \in DOMAIN sessions : sessions[i].own = own) =>
        \A h \in Addresses \ {own}, p \in ModelPorts :
            Dialled(h, p).host # h =>
                \E i \in DOMAIN sessions :
                    sessions[i].target.host = h /\ sessions[i].target.port \in {NoPort, p}

(* The proxy never dials its own published port (addon.py:247-256), and an   *)
(* agent that is pointed at the proxy, as claude is, is answered by its own  *)
(* model server: sent to the gateway whether or not that resolves.  Both     *)
(* need that every session of the container declared one and the same port:  *)
(* the first of the list is taken for all.                                   *)
SelfAddressedIsAnswered ==
    (\A i, j \in DOMAIN sessions :
        sessions[i].target.port # NoPort /\ sessions[i].target.port = sessions[j].target.port) =>
    \A h \in Hosts \ {Gateway} :
        /\ allowed # <<>> => Dialled(h, OwnPort).host \in {"blocked", Gateway}
        /\ Dialled(h, OwnPort) # [host |-> Gateway, port |-> OwnPort]
        /\ SelfAddressed(h, OwnPort) =>
              \A i \in DOMAIN sessions : Dialled(h, OwnPort).port = sessions[i].target.port

(* Loopbacks stay those of the container until a session declares one; then  *)
(* they are the host's at every port (test_host_local.py:169-177).           *)
LoopbackIsTheContainers ==
    \A h \in Loopbacks, p \in ModelPorts :
        Dialled(h, p).host # h => \E i \in DOMAIN sessions : sessions[i].target.host \in Loopbacks

(* Nothing is redirected without a session that declared it: a peer only at  *)
(* what was declared of it, a loopback at any port once one was declared,    *)
(* and of the proxy's own port only what an agent's own model server then    *)
(* answers (addon.py:229-282, route_local_target.py:22-44).                  *)
RedirectionNeedsDeclaration ==
    PeersAreNotHijacked /\ LoopbackIsTheContainers /\ SelfAddressedIsAnswered
=============================================================================
