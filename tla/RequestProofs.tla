---------------------------- MODULE RequestProofs ----------------------------
(***************************************************************************)
(* Proofs about what happens to a request on its way: to which endpoint it *)
(* goes (HostLocal, for any ports and any number of sessions), and what    *)
(* becomes of the conversation it carries (ContextCleaner, for any texts,  *)
(* any limits and a conversation of any length).                           *)
(***************************************************************************)
EXTENDS HostLocal, ContextCleaner, SequenceFacts, FiniteSetTheorems, TLAPS

-----------------------------------------------------------------------------
(* HostLocal *)

Machine == {"lan", "lan2"}
Entry == DefaultEntries \cup UNION Extras

Session == [target : Declarable, own : Machine, reachable : BOOLEAN, wildcard : BOOLEAN,
            noproxy : SUBSET Entry]

HostTypeOK ==
    /\ own \in Machine
    /\ allowed \in Seq(Declarable)
    /\ resolved \in BOOLEAN
    /\ sessions \in Seq(Session)

\* What a session was started with, as far as its NO_PROXY was pruned.
IsPruned(s) ==
    s.reachable /\ ~s.wildcard =>
        /\ Wildcard \notin s.noproxy
        /\ \A e \in s.noproxy : ~EntryMatches(e, EquivalentHosts(s.target, {s.own}), s.target.port)

\* The spec a session asked the container for.
SpecOf(s) == Expand(s.target, {s.own})

\* The allow list of the container covers every session, has only what the
\* sessions asked for, and every session's NO_PROXY was pruned of its endpoint.
HostInv ==
    /\ HostTypeOK
    /\ \A i \in DOMAIN sessions : IsPruned(sessions[i])
    /\ \A i \in DOMAIN sessions : Covers(allowed, SpecOf(sessions[i]))
    /\ \A t \in ToSet(allowed) : \E i \in DOMAIN sessions : t \in ToSet(SpecOf(sessions[i]))
-----------------------------------------------------------------------------
(* The operators of the model. *)

LEMMA ToSetIsRange == ASSUME NEW s PROVE ToSet(s) = Range(s)
BY DEF ToSet, Range

LEMMA TargetFields == ASSUME NEW h, NEW p PROVE Target(h, p).host = h /\ Target(h, p).port = p
BY DEF Target

LEMMA DeclarableFields ==
    ASSUME NEW t \in Declarable
    PROVE  /\ t.host \in Loopbacks \cup Addresses /\ t.port \in ModelPorts \cup {NoPort}
           /\ t = Target(t.host, t.port)
BY DEF Declarable, Target

LEMMA EquivalentAreNamed ==
    ASSUME NEW t \in Declarable, NEW a \in Machine
    PROVE  /\ EquivalentHosts(t, {a}) \subseteq Loopbacks \cup Addresses
           /\ EquivalentHosts(t, {a}) \subseteq Range(ByName)
<1>1. t.host \in Loopbacks \cup Addresses
  BY DeclarableFields
<1>2. a \in Addresses
  BY DEF Machine, Addresses
<1>3. EquivalentHosts(t, {a}) \subseteq Loopbacks \cup Addresses
  BY <1>1, <1>2 DEF EquivalentHosts
<1>4. Loopbacks \cup Addresses \subseteq Range(ByName)
  <2>1. /\ 1 \in DOMAIN ByName /\ 2 \in DOMAIN ByName /\ 3 \in DOMAIN ByName
        /\ 4 \in DOMAIN ByName /\ 5 \in DOMAIN ByName /\ 6 \in DOMAIN ByName
        /\ ByName[1] = "127.0.0.1" /\ ByName[2] = "lan" /\ ByName[3] = "lan2"
        /\ ByName[4] = "::1" /\ ByName[5] = "localhost" /\ ByName[6] = "peer"
    BY DEF ByName
  <2> QED BY <2>1 DEF Range, Loopbacks, Addresses
<1> QED BY <1>3, <1>4

\* Expansion keeps the port and lists every spelling once.
LEMMA ExpandRange ==
    ASSUME NEW t \in Declarable, NEW a \in Machine
    PROVE  /\ Expand(t, {a}) \in Seq(Declarable)
           /\ Range(Expand(t, {a})) = {Target(h, t.port) : h \in EquivalentHosts(t, {a})}
<1> DEFINE E == EquivalentHosts(t, {a})
           names == Keep(ByName, E)
           H == Loopbacks \cup Addresses
<1>1. ByName \in Seq(H)
  BY DEF ByName, Loopbacks, Addresses
<1>2. names \in Seq(H) /\ Range(names) = Range(ByName) \cap E
  <2> HIDE DEF E, H
  <2> QED BY <1>1, KeepType, KeepRange
<1>3. Range(names) = E
  BY <1>2, EquivalentAreNamed
<1>4. Expand(t, {a}) = [i \in DOMAIN names |-> Target(names[i], t.port)]
  BY DEF Expand
<1>5. \A h \in H : Target(h, t.port) \in Declarable
  BY DeclarableFields DEF Declarable
<1> HIDE DEF names, E, H
<1>6. Expand(t, {a}) \in Seq(Declarable)
  <2>1. DOMAIN names = 1..Len(names) /\ Len(names) \in Nat /\ \A i \in 1..Len(names) : names[i] \in H
    BY <1>2
  <2>2. Expand(t, {a}) \in [1..Len(names) -> Declarable]
    BY <1>4, <1>5, <2>1
  <2> QED BY <2>1, <2>2, FunctionIsSeq
<1>7. Range(Expand(t, {a})) = {Target(h, t.port) : h \in E}
  BY <1>3, <1>4 DEF Range
<1> QED BY <1>6, <1>7 DEF E

\* A merge has the targets of both.
LEMMA MergeRange ==
    ASSUME NEW old \in Seq(Declarable), NEW new \in Seq(Declarable)
    PROVE  /\ Merge(old, new) \in Seq(Declarable)
           /\ Range(Merge(old, new)) = Range(old) \cup Range(new)
<1> DEFINE rest == Keep(new, ToSet(new) \ ToSet(old))
<1>1. rest \in Seq(Declarable) /\ Range(rest) = Range(new) \ Range(old)
  <2>1. rest = Keep(new, Range(new) \ Range(old))
    BY ToSetIsRange
  <2>2. rest \in Seq(Declarable)
    BY KeepType
  <2>3. Range(rest) = Range(new) \cap (Range(new) \ Range(old))
    BY <2>1, KeepRange
  <2> QED BY <2>2, <2>3
<1>2. Merge(old, new) = old \o rest
  BY DEF Merge
<1> HIDE DEF rest
<1>3. old \o rest \in Seq(Declarable)
  BY <1>1
<1>4. Range(old \o rest) = Range(old) \cup Range(rest)
  BY <1>1, RangeConcatenation
<1> QED BY <1>1, <1>2, <1>3, <1>4

LEMMA CoversMore ==
    ASSUME NEW a, NEW b, NEW spec, ToSet(a) \subseteq ToSet(b), Covers(a, spec)
    PROVE  Covers(b, spec)
BY DEF Covers

LEMMA CoversItself ==
    ASSUME NEW a, NEW spec, ToSet(spec) \subseteq ToSet(a)
    PROVE  Covers(a, spec)
BY DEF Covers
-----------------------------------------------------------------------------
(* The invariant. *)

LEMMA HostInvInit == HostInit => HostInv
<1> SUFFICES ASSUME HostInit PROVE HostInv
  OBVIOUS
<1>1. allowed = <<>> /\ sessions = <<>> /\ own \in Machine /\ resolved \in BOOLEAN
  BY DEF HostInit, Machine
<1>2. DOMAIN sessions = {} /\ ToSet(allowed) = {} /\ HostTypeOK
  BY <1>1 DEF ToSet, HostTypeOK
<1> QED BY <1>2 DEF HostInv

\* What is started: its NO_PROXY entries are those the plan leaves.
LEMMA StartedIsPruned ==
    ASSUME NEW t \in Declarable, NEW extra \in Extras, NEW reachable \in BOOLEAN, own \in Machine,
           NEW s, s = [target |-> t, own |-> own, reachable |-> reachable \/ t.port = NoPort,
                wildcard |-> Wildcard \in (DefaultEntries \cup extra),
                noproxy |-> (DefaultEntries \cup extra) \ Dropped(DefaultEntries \cup extra, t, {own}, reachable)]
    PROVE  s \in Session /\ IsPruned(s)
<1> DEFINE entries == DefaultEntries \cup extra
<1>1. entries \subseteq Entry
  BY DEF Entry
<1>2. s \in Session
  BY <1>1 DEF Session
<1>3. s.target = t /\ s.own = own /\ s.noproxy = entries \ Dropped(entries, t, {own}, reachable)
      /\ s.wildcard = (Wildcard \in entries) /\ s.reachable = (reachable \/ t.port = NoPort)
  OBVIOUS
<1>4. IsPruned(s)
  <2> SUFFICES ASSUME s.reachable, ~s.wildcard
               PROVE  /\ Wildcard \notin s.noproxy
                      /\ \A e \in s.noproxy : ~EntryMatches(e, EquivalentHosts(t, {own}), t.port)
    BY <1>3 DEF IsPruned
  <2>1. Wildcard \notin entries /\ (reachable \/ t.port = NoPort)
    BY <1>3
  <2>2. Dropped(entries, t, {own}, reachable) =
           {e \in entries : EntryMatches(e, EquivalentHosts(t, {own}), t.port)}
    BY <2>1 DEF Dropped
  <2> QED BY <1>3, <2>1, <2>2
<1> QED BY <1>2, <1>4

LEMMA StartKeeps ==
    ASSUME HostInv, NEW t \in Declarable, NEW extra \in Extras, NEW reachable \in BOOLEAN,
           StartSession(t, extra, reachable)
    PROVE  HostInv'
<1> DEFINE spec == Expand(t, {own})
           s == [target |-> t, own |-> own, reachable |-> reachable \/ t.port = NoPort,
                wildcard |-> Wildcard \in (DefaultEntries \cup extra),
                noproxy |-> (DefaultEntries \cup extra) \ Dropped(DefaultEntries \cup extra, t, {own}, reachable)]
<1>1. own \in Machine /\ allowed \in Seq(Declarable) /\ sessions \in Seq(Session)
  BY DEF HostInv, HostTypeOK
<1>2. s \in Session /\ IsPruned(s) /\ s.target = t /\ s.own = own
  BY <1>1, StartedIsPruned
<1>3. /\ sessions' = Append(sessions, s) /\ own' = own
      /\ allowed' = IF Covers(allowed, spec) THEN allowed ELSE Merge(allowed, spec)
      /\ resolved' \in BOOLEAN
  BY DEF StartSession, HostInv, HostTypeOK
<1>4. spec \in Seq(Declarable) /\ SpecOf(s) = spec
  BY <1>1, <1>2, ExpandRange DEF SpecOf
<1> HIDE DEF spec, s
<1>5. /\ allowed' \in Seq(Declarable)
      /\ ToSet(allowed) \subseteq ToSet(allowed')
      /\ ToSet(allowed') \subseteq ToSet(allowed) \cup ToSet(spec)
      /\ Covers(allowed', spec)
  <2>1. CASE Covers(allowed, spec)
    BY <1>1, <1>3, <2>1
  <2>2. CASE ~Covers(allowed, spec)
    <3>1. allowed' = Merge(allowed, spec)
      BY <1>3, <2>2
    <3>2. allowed' \in Seq(Declarable) /\ Range(allowed') = Range(allowed) \cup Range(spec)
      BY <1>1, <1>4, <3>1, MergeRange
    <3>3. ToSet(allowed') = ToSet(allowed) \cup ToSet(spec)
      BY <3>2, ToSetIsRange
    <3> QED BY <3>2, <3>3, CoversItself
  <2> QED BY <2>1, <2>2
<1>6. /\ sessions' \in Seq(Session)
      /\ \A i \in DOMAIN sessions : i \in DOMAIN sessions' /\ sessions'[i] = sessions[i]
      /\ Len(sessions) + 1 \in DOMAIN sessions' /\ sessions'[Len(sessions) + 1] = s
      /\ \A i \in DOMAIN sessions' : (i \in DOMAIN sessions /\ sessions'[i] = sessions[i]) \/ sessions'[i] = s
  BY <1>1, <1>2, <1>3
<1>7. HostTypeOK'
  BY <1>1, <1>3, <1>5, <1>6 DEF HostTypeOK
<1>8. \A i \in DOMAIN sessions' : IsPruned(sessions'[i])
  BY <1>2, <1>6 DEF HostInv
<1>9. \A i \in DOMAIN sessions' : Covers(allowed', SpecOf(sessions'[i]))
  <2>1. \A i \in DOMAIN sessions : Covers(allowed', SpecOf(sessions[i]))
    BY <1>5, CoversMore DEF HostInv
  <2> QED BY <1>4, <1>5, <1>6, <2>1
<1>10. \A x \in ToSet(allowed') : \E i \in DOMAIN sessions' : x \in ToSet(SpecOf(sessions'[i]))
  <2> SUFFICES ASSUME NEW x \in ToSet(allowed')
               PROVE  \E i \in DOMAIN sessions' : x \in ToSet(SpecOf(sessions'[i]))
    OBVIOUS
  <2>1. CASE x \in ToSet(allowed)
    <3>1. PICK i \in DOMAIN sessions : x \in ToSet(SpecOf(sessions[i]))
      BY <2>1 DEF HostInv
    <3> QED BY <1>6, <3>1
  <2>2. CASE x \in ToSet(spec)
    BY <1>4, <1>6, <2>2
  <2> QED BY <1>5, <2>1, <2>2
<1> QED BY <1>7, <1>8, <1>9, <1>10 DEF HostInv

LEMMA HostInvStep == HostInv /\ [HostNext]_hostVars => HostInv'
<1> SUFFICES ASSUME HostInv, [HostNext]_hostVars PROVE HostInv'
  OBVIOUS
<1>1. CASE StopContainer
  <2>1. allowed' = <<>> /\ sessions' = <<>> /\ own' = own /\ resolved' \in BOOLEAN
    BY <1>1 DEF StopContainer
  <2>2. DOMAIN sessions' = {} /\ ToSet(allowed') = {} /\ HostTypeOK'
    BY <2>1 DEF ToSet, HostTypeOK, HostInv
  <2> QED BY <2>2 DEF HostInv
<1>2. CASE Moves
  <2>1. own' \in Machine /\ UNCHANGED <<allowed, resolved, sessions>>
    BY <1>2 DEF Moves, Machine
  <2> QED BY <2>1 DEF HostInv, HostTypeOK
<1>3. CASE ResolveGateway
  BY <1>3 DEF ResolveGateway, HostInv, HostTypeOK
<1>4. CASE UNCHANGED hostVars
  BY <1>4 DEF hostVars, HostInv, HostTypeOK
<1> QED BY <1>1, <1>2, <1>3, <1>4, StartKeeps DEF HostNext

LEMMA HostAlways == HostSpec => []HostInv
BY HostInvInit, HostInvStep, PTL DEF HostSpec
-----------------------------------------------------------------------------
(* What the invariant says of a connection. *)

LEMMA SessionTypes ==
    ASSUME HostInv, NEW i \in DOMAIN sessions
    PROVE  /\ sessions[i].target \in Declarable /\ sessions[i].own \in Machine
           /\ IsPruned(sessions[i])
<1>1. sessions \in Seq(Session)
  BY DEF HostInv, HostTypeOK
<1>2. sessions[i] \in Session
  BY <1>1
<1> QED BY <1>2 DEF HostInv, Session

\* The allow list has an entry for every spelling of a session's endpoint.
LEMMA SpellingIsAllowed ==
    ASSUME HostInv, NEW i \in DOMAIN sessions,
           NEW h \in EquivalentHosts(sessions[i].target, {sessions[i].own})
    PROVE  \E c \in ToSet(allowed) : c.host = h /\ c.port \in {NoPort, sessions[i].target.port}
<1>1. sessions[i].target \in Declarable /\ sessions[i].own \in Machine
  BY SessionTypes
<1>2. Target(h, sessions[i].target.port) \in ToSet(SpecOf(sessions[i]))
  BY <1>1, ExpandRange, ToSetIsRange DEF SpecOf
<1>3. Covers(allowed, SpecOf(sessions[i]))
  BY DEF HostInv
<1> QED BY <1>2, <1>3, TargetFields DEF Covers

\* An entry of the allow list is a spelling of some session's endpoint, on its port.
LEMMA AllowedIsSpelling ==
    ASSUME HostInv, NEW c \in ToSet(allowed)
    PROVE  \E i \in DOMAIN sessions :
              /\ sessions[i].target \in Declarable /\ sessions[i].own \in Machine
              /\ c.host \in EquivalentHosts(sessions[i].target, {sessions[i].own})
              /\ c.port = sessions[i].target.port
<1>1. PICK i \in DOMAIN sessions : c \in ToSet(SpecOf(sessions[i]))
  BY DEF HostInv
<1>2. sessions[i].target \in Declarable /\ sessions[i].own \in Machine
  BY SessionTypes
<1>3. PICK h \in EquivalentHosts(sessions[i].target, {sessions[i].own}) :
         c = Target(h, sessions[i].target.port)
  BY <1>1, <1>2, ExpandRange, ToSetIsRange DEF SpecOf
<1>4. c.host = h /\ c.port = sessions[i].target.port
  BY <1>3, TargetFields
<1> QED BY <1>2, <1>4

\* Away from its own port the proxy dials the gateway for what is declared, else nothing else.
LEMMA DialledElsewhere ==
    ASSUME NEW h \in Loopbacks \cup Addresses, NEW p \in ModelPorts
    PROVE  Dialled(h, p) = IF Decide(h, p, allowed) = "gateway" THEN [host |-> Gateway, port |-> p]
                           ELSE [host |-> h, port |-> p]
<1>1. p # OwnPort
  BY HostLocalAssumption
<1>2. Routed(h, p) = [host |-> h, port |-> p]
  BY <1>1 DEF Routed, SelfAddressed
<1>3. Decide(h, p, allowed) \in {"gateway", "as_is"}
  BY <1>1 DEF Decide
<1> QED BY <1>2, <1>3 DEF Dialled

\* A connection to a declared spelling is taken to the endpoint.
LEMMA SpellingIsReached ==
    ASSUME HostInv, NEW i \in DOMAIN sessions,
           NEW h \in EquivalentHosts(sessions[i].target, {sessions[i].own}),
           NEW p \in EndpointPorts(sessions[i])
    PROVE  IsReached(sessions[i], h, p)
<1> DEFINE s == sessions[i]
<1>1. s.target \in Declarable /\ s.own \in Machine /\ IsPruned(s)
  BY SessionTypes
<1>2. p \in ModelPorts /\ s.target.port \in {NoPort, p}
  BY <1>1, DeclarableFields DEF EndpointPorts
<1>3. h \in Loopbacks \cup Addresses
  BY <1>1, EquivalentAreNamed
<1>4. PICK c \in ToSet(allowed) : c.host = h /\ c.port \in {NoPort, s.target.port}
  BY SpellingIsAllowed
<1>5. ASSUME s.reachable, ~s.wildcard PROVE ~Bypasses(s, h, p)
  <2>1. \A e \in s.noproxy : ~EntryMatches(e, EquivalentHosts(s.target, {s.own}), s.target.port)
    BY <1>1, <1>5 DEF IsPruned
  <2>2. Wildcard \notin s.noproxy
    BY <1>1, <1>5 DEF IsPruned
  <2>3. ASSUME NEW e \in s.noproxy, e.host = h, e.port \in {NoPort, p} PROVE FALSE
    BY <1>2, <2>1, <2>2, <2>3 DEF EntryMatches
  <2> QED BY <2>2, <2>3 DEF Bypasses
<1>6. allowed # <<>>
  BY <1>4 DEF ToSet
<1>7. h # Gateway /\ p # OwnPort
  BY <1>2, <1>3, HostLocalAssumption DEF Loopbacks, Addresses, Gateway
<1>8. c.port \in {NoPort, p}
  BY <1>2, <1>4
<1>9. AllowListed(h, p, allowed)
  BY <1>4, <1>8 DEF AllowListed
<1>10. resolved => Decide(h, p, allowed) = "gateway"
  BY <1>6, <1>7, <1>9 DEF Decide
<1>11. IsLocalTarget(h, p)
  BY <1>4 DEF IsLocalTarget
<1>12. resolved => Dialled(h, p) = [host |-> Gateway, port |-> p]
  BY <1>2, <1>3, <1>10, DialledElsewhere
<1> QED BY <1>5, <1>11, <1>12 DEF IsReached

(* However many sessions joined the proxy and had it recreated, the endpoint *)
(* a session declared on its own machine is reached: by every spelling if a  *)
(* loopback was declared, by the machine's address if that was; the          *)
(* connection comes to the proxy unless the probe failed or NO_PROXY is the  *)
(* wildcard, and is dialled at the gateway once the gateway resolves.        *)
THEOREM EndpointsAreReached == HostSpec => []EndpointIsReached
<1>1. HostInv => EndpointIsReached
  <2> SUFFICES ASSUME HostInv, NEW i \in DOMAIN sessions,
                      sessions[i].target.host \in Spellings(sessions[i]),
                      NEW h \in Spellings(sessions[i]), NEW p \in EndpointPorts(sessions[i]),
                      sessions[i].target.host \in Loopbacks \/ h = sessions[i].own
               PROVE  IsReached(sessions[i], h, p)
    BY DEF EndpointIsReached
  <2>1. h \in EquivalentHosts(sessions[i].target, {sessions[i].own})
    BY DEF EquivalentHosts, Spellings
  <2> QED BY <2>1, SpellingIsReached
<1> QED BY <1>1, HostAlways, PTL

LEMMA PeersAreLeftAlone == HostInv => PeersAreNotHijacked
<1> SUFFICES ASSUME HostInv, \A i \in DOMAIN sessions : sessions[i].own = own,
                    NEW h \in Addresses \ {own}, NEW p \in ModelPorts, Dialled(h, p).host # h
             PROVE  \E i \in DOMAIN sessions :
                       sessions[i].target.host = h /\ sessions[i].target.port \in {NoPort, p}
  BY DEF PeersAreNotHijacked
<1>1. Decide(h, p, allowed) = "gateway"
  BY DialledElsewhere
<1>2. h \notin Loopbacks
  BY DEF Addresses, Loopbacks
<1>3. PICK c \in ToSet(allowed) : c.host = h /\ c.port \in {NoPort, p}
  BY <1>1, <1>2 DEF Decide, AllowListed
<1>4. PICK i \in DOMAIN sessions :
         /\ sessions[i].target \in Declarable /\ sessions[i].own \in Machine
         /\ c.host \in EquivalentHosts(sessions[i].target, {sessions[i].own})
         /\ c.port = sessions[i].target.port
  BY AllowedIsSpelling
<1>5. sessions[i].own = own
  OBVIOUS
<1>6. sessions[i].target.host = h
  BY <1>2, <1>3, <1>4, <1>5 DEF EquivalentHosts
<1> QED BY <1>3, <1>4, <1>6

LEMMA LoopbackIsLeftAlone == HostInv => LoopbackIsTheContainers
<1> SUFFICES ASSUME HostInv, NEW h \in Loopbacks, NEW p \in ModelPorts, Dialled(h, p).host # h
             PROVE  \E i \in DOMAIN sessions : sessions[i].target.host \in Loopbacks
  BY DEF LoopbackIsTheContainers
<1>1. Decide(h, p, allowed) = "gateway"
  BY DialledElsewhere
<1>2. PICK c \in ToSet(allowed) : c.host \in Loopbacks
  BY <1>1 DEF Decide, AllowListed
<1>3. PICK i \in DOMAIN sessions :
         /\ sessions[i].target \in Declarable /\ sessions[i].own \in Machine
         /\ c.host \in EquivalentHosts(sessions[i].target, {sessions[i].own})
         /\ c.port = sessions[i].target.port
  BY AllowedIsSpelling
<1>4. sessions[i].own \notin Loopbacks
  BY <1>3 DEF Machine, Loopbacks
<1>5. sessions[i].target.host \in Loopbacks
  BY <1>2, <1>3, <1>4 DEF EquivalentHosts
<1> QED BY <1>5

LEMMA OwnPortIsAnswered == HostInv => SelfAddressedIsAnswered
<1> SUFFICES ASSUME HostInv,
                    \A i, j \in DOMAIN sessions :
                       sessions[i].target.port # NoPort /\ sessions[i].target.port = sessions[j].target.port,
                    NEW h \in Hosts \ {Gateway}
             PROVE  /\ allowed # <<>> => Dialled(h, OwnPort).host \in {"blocked", Gateway}
                    /\ Dialled(h, OwnPort) # [host |-> Gateway, port |-> OwnPort]
                    /\ SelfAddressed(h, OwnPort) =>
                          \A i \in DOMAIN sessions : Dialled(h, OwnPort).port = sessions[i].target.port
  BY DEF SelfAddressedIsAnswered
<1>1. CASE SelfAddressed(h, OwnPort)
  <2>1. allowed # <<>> /\ allowed \in Seq(Declarable)
    BY <1>1 DEF SelfAddressed, HostInv, HostTypeOK
  <2>2. Head(allowed) \in ToSet(allowed)
    BY <2>1 DEF ToSet
  <2>3. PICK i \in DOMAIN sessions :
           sessions[i].target \in Declarable /\ Head(allowed).port = sessions[i].target.port
    BY <2>2, AllowedIsSpelling
  <2>4. Head(allowed).port # NoPort /\ Head(allowed).port # OwnPort
    BY <2>3, DeclarableFields, HostLocalAssumption
  <2>5. Routed(h, OwnPort) = [host |-> Gateway, port |-> Head(allowed).port]
    BY <1>1, <2>4 DEF Routed
  <2>6. Dialled(h, OwnPort) = [host |-> Gateway, port |-> Head(allowed).port]
    BY <2>5 DEF Dialled, Decide
  <2> QED BY <2>3, <2>4, <2>6
<1>2. CASE ~SelfAddressed(h, OwnPort)
  <2>1. Routed(h, OwnPort) = [host |-> h, port |-> OwnPort]
    BY <1>2 DEF Routed
  <2>2. CASE allowed = <<>>
    <3>1. Dialled(h, OwnPort) = [host |-> h, port |-> OwnPort]
      BY <2>1, <2>2 DEF Dialled, Decide
    <3> QED BY <1>2, <2>2, <3>1
  <2>3. CASE allowed # <<>>
    <3>1. Dialled(h, OwnPort) = [host |-> "blocked", port |-> OwnPort]
      BY <2>1, <2>3 DEF Dialled, Decide
    <3> QED BY <1>2, <3>1 DEF Gateway
  <2> QED BY <2>2, <2>3
<1> QED BY <1>1, <1>2

(* The proxy redirects nothing without a session that declared it: a peer    *)
(* only at what was declared of it, as long as the machine has not moved, a  *)
(* loopback, then at any port, only once a loopback was declared, and of its *)
(* own port only what an agent's own model server answers.                   *)
THEOREM OthersAreLeftAlone == HostSpec => []RedirectionNeedsDeclaration
<1>1. HostInv => RedirectionNeedsDeclaration
  BY PeersAreLeftAlone, LoopbackIsLeftAlone, OwnPortIsAnswered DEF RedirectionNeedsDeclaration
<1> QED BY <1>1, HostAlways, PTL
-----------------------------------------------------------------------------
(* ContextCleaner *)

(* Least and greatest members of sets of numbers. *)

LEMMA LeastExists ==
    ASSUME NEW S, S \subseteq Nat, S # {}
    PROVE  \E x \in S : \A y \in S : x <= y
<1>1. PICK x \in S : \A y \in S : ~(<<y, x>> \in Smaller)
  BY SmallerIsWellFounded, WFMin
<1>2. \A y \in S : ~(y < x)
  BY <1>1 DEF Smaller
<1> QED BY <1>2

LEMMA MinIsLeast ==
    ASSUME NEW S, S \subseteq Nat, S # {}
    PROVE  Min(S) \in S /\ \A y \in S : Min(S) <= y
BY LeastExists DEF Min

LEMMA MaxIsGreatest ==
    ASSUME NEW n \in Nat, NEW S, S \subseteq 0..n, S # {}
    PROVE  Max(S) \in S /\ \A y \in S : Max(S) >= y
<1> DEFINE T == {n - x : x \in S}
<1>1. T \subseteq Nat /\ T # {}
  <2>1. PICK s \in S : TRUE
    OBVIOUS
  <2>2. n - s \in T
    BY <2>1
  <2>3. \A x \in S : n - x \in Nat
    OBVIOUS
  <2> QED BY <2>2, <2>3
<1>2. PICK t \in T : \A y \in T : t <= y
  <2> HIDE DEF T
  <2> QED BY <1>1, LeastExists
<1>3. PICK x \in S : t = n - x
  BY <1>2
<1>4. \A y \in S : x >= y
  BY <1>2, <1>3
<1> QED BY <1>4 DEF Max

-----------------------------------------------------------------------------
(* Messages. *)

Contents == Bodies \cup {"call", "omitted"}
Blocks == [type : {"text", "call", "result", "summary"}, body : Contents, id : Nat,
           ref : Nat, marked : BOOLEAN]
Roles == {"system", "user", "assistant", "tool"}
Messages == {m \in [role : Roles, str : BOOLEAN, blocks : Seq(Blocks)] : m.blocks # <<>>}

LEMMA MessageParts ==
    ASSUME NEW m \in Messages
    PROVE  /\ m.role \in Roles /\ m.str \in BOOLEAN /\ m.blocks \in Seq(Blocks)
           /\ Len(m.blocks) \in Nat /\ Len(m.blocks) > 0
           /\ \A j \in 1..Len(m.blocks) : m.blocks[j] \in Blocks
           /\ m = [role |-> m.role, str |-> m.str, blocks |-> m.blocks]
<1>1. m \in [role : Roles, str : BOOLEAN, blocks : Seq(Blocks)] /\ m.blocks # <<>>
  BY DEF Messages
<1>2. m.role \in Roles /\ m.str \in BOOLEAN /\ m.blocks \in Seq(Blocks)
  BY <1>1
<1>3. m = [role |-> m.role, str |-> m.str, blocks |-> m.blocks]
  BY <1>1
<1> DEFINE bs == m.blocks
<1>4. bs \in Seq(Blocks) /\ bs # <<>>
  BY <1>1, <1>2
<1> HIDE DEF bs
<1>5. Len(bs) \in Nat /\ Len(bs) > 0 /\ \A j \in 1..Len(bs) : bs[j] \in Blocks
  BY <1>4
<1> QED BY <1>2, <1>3, <1>5 DEF bs

\* A message with other blocks.
LEMMA WithBlocks ==
    ASSUME NEW m \in Messages, NEW bs \in Seq(Blocks), bs # <<>>
    PROVE  /\ [m EXCEPT !.blocks = bs] \in Messages
           /\ [m EXCEPT !.blocks = bs].role = m.role
           /\ [m EXCEPT !.blocks = bs].str = m.str
           /\ [m EXCEPT !.blocks = bs].blocks = bs
<1>1. m.role \in Roles /\ m.str \in BOOLEAN /\ m = [role |-> m.role, str |-> m.str, blocks |-> m.blocks]
  BY MessageParts
<1>2. [m EXCEPT !.blocks = bs] = [role |-> m.role, str |-> m.str, blocks |-> bs]
  BY <1>1
<1> QED BY <1>1, <1>2 DEF Messages

-----------------------------------------------------------------------------
(* What has been seen. *)

SeenMaps == [Bodies -> Nat]

LEMMA RememberType ==
    ASSUME NEW seen \in SeenMaps, NEW m, NEW b, NEW turn \in Nat, NEW older
    PROVE  Remember(seen, m, b, turn, older) \in SeenMaps
BY DEF Remember, SeenMaps

\* seen is the recursion of SeenAlong over the blocks of m.
SeesAlong(seen, m, turn, older, before) ==
    /\ seen[0] = before
    /\ \A j \in 1..Len(m.blocks) :
          seen[j] = Remember(seen[j - 1], m, m.blocks[j], turn, older)

LEMMA SeenAlongDef ==
    ASSUME NEW m, Len(m.blocks) \in Nat, NEW turn \in Nat, NEW older, NEW before \in SeenMaps
    PROVE  /\ SeenAlong(m, turn, older, before) \in [0..Len(m.blocks) -> SeenMaps]
           /\ SeesAlong(SeenAlong(m, turn, older, before), m, turn, older, before)
<1> DEFINE n == Len(m.blocks)
           F == [j \in 1..n |-> [s \in SeenMaps |-> Remember(s, m, m.blocks[j], turn, older)]]
           Recursive(f) == f = [j \in 0..n |->
               IF j = 0 THEN before ELSE Remember(f[j - 1], m, m.blocks[j], turn, older)]
           k == SeenAlong(m, turn, older, before)
<1>1. F \in StepFunctions(SeenMaps, n)
  BY RememberType DEF StepFunctions
<1>2. PICK f : Recursion(f, SeenMaps, before, F, n)
  <2> HIDE DEF F
  <2> QED BY <1>1, RecursionExists
<1>3. ASSUME NEW j \in 1..n
      PROVE  f[j] = Remember(f[j - 1], m, m.blocks[j], turn, older)
  <2>1. f[j - 1] \in SeenMaps /\ f[j] = F[j][f[j - 1]]
    <3> HIDE DEF F
    <3> QED BY <1>2 DEF Recursion
  <2>2. F[j] = [s \in SeenMaps |-> Remember(s, m, m.blocks[j], turn, older)]
    OBVIOUS
  <2> HIDE DEF F
  <2> QED BY <2>1, <2>2
<1>4. f \in [0..n -> SeenMaps] /\ f[0] = before
  <2> HIDE DEF F
  <2> QED BY <1>2 DEF Recursion
<1>5. Recursive(f)
  <2>1. \A j \in 0..n : f[j] =
           IF j = 0 THEN before ELSE Remember(f[j - 1], m, m.blocks[j], turn, older)
    <3>1. ASSUME NEW j \in 0..n, j # 0 PROVE j \in 1..n
      BY <3>1
    <3> HIDE DEF n
    <3> QED BY <1>3, <1>4, <3>1
  <2>2. f = [j \in 0..n |-> f[j]]
    BY <1>4
  <2> QED BY <2>1, <2>2
<1>6. Recursive(k)
  BY <1>5 DEF SeenAlong
<1>7. SeesAlong(k, m, turn, older, before) /\ k = [j \in 0..n |-> k[j]]
  <2> HIDE DEF k
  <2>1. \A j \in 0..n : k[j] =
           IF j = 0 THEN before ELSE Remember(k[j - 1], m, m.blocks[j], turn, older)
    BY <1>6
  <2>2. k = [j \in 0..n |-> k[j]]
    BY <1>6
  <2>3. \A j \in 1..n : j \in 0..n /\ j # 0
    OBVIOUS
  <2>4. 0 \in 0..n
    OBVIOUS
  <2>5. k[0] = before
    BY <2>1, <2>4
  <2>6. \A j \in 1..n : k[j] = Remember(k[j - 1], m, m.blocks[j], turn, older)
    BY <2>1, <2>3
  <2> QED BY <2>2, <2>5, <2>6 DEF SeesAlong
<1>8. \A j \in 0..n : k[j] = f[j]
  <2>1. k[0] = f[0]
    BY <1>4, <1>7 DEF SeesAlong
  <2>2. \A j \in 1..n : k[j - 1] = f[j - 1] => k[j] = f[j]
    <3> HIDE DEF k
    <3> QED BY <1>3, <1>7 DEF SeesAlong
  <2> HIDE DEF k, n
  <2>3. n \in Nat
    BY DEF n
  <2> QED BY <2>1, <2>2, <2>3, Agreement
<1>9. k \in [0..n -> SeenMaps]
  <2> HIDE DEF k
  <2>1. k = [j \in 0..n |-> f[j]]
    BY <1>7, <1>8
  <2> QED BY <1>4, <2>1
<1> QED BY <1>7, <1>9

\* The map that message t of messages is deduplicated with, and the one it leaves.
SeesAfter(seen, messages) ==
    /\ seen[0] = [b \in Bodies |-> 0]
    /\ \A t \in 1..Len(messages) :
          seen[t] = SeenAlong(messages[t], t, Older(t, messages), seen[t - 1])[Len(messages[t].blocks)]

LEMMA SeenStepType ==
    ASSUME NEW m \in Messages, NEW turn \in Nat, NEW older, NEW before \in SeenMaps
    PROVE  SeenAlong(m, turn, older, before)[Len(m.blocks)] \in SeenMaps
<1>1. Len(m.blocks) \in Nat
  BY MessageParts
<1>2. SeenAlong(m, turn, older, before) \in [0..Len(m.blocks) -> SeenMaps]
  BY <1>1, SeenAlongDef
<1> QED BY <1>1, <1>2

LEMMA SeenAfterDef ==
    ASSUME NEW messages \in Seq(Messages)
    PROVE  /\ SeenAfter(messages) \in [0..Len(messages) -> SeenMaps]
           /\ SeesAfter(SeenAfter(messages), messages)
<1> DEFINE n == Len(messages)
           Onward(s, t) == SeenAlong(messages[t], t, Older(t, messages), s)[Len(messages[t].blocks)]
           F == [t \in 1..n |-> [s \in SeenMaps |-> Onward(s, t)]]
           none == [b \in Bodies |-> 0]
           Recursive(f) == f = [t \in 0..n |-> IF t = 0 THEN none ELSE Onward(f[t - 1], t)]
           k == SeenAfter(messages)
<1>0. n \in Nat /\ \A t \in 1..n : messages[t] \in Messages /\ t \in Nat
  OBVIOUS
<1>1. F \in StepFunctions(SeenMaps, n)
  <2>1. \A t \in 1..n, s \in SeenMaps : Onward(s, t) \in SeenMaps
    BY <1>0, SeenStepType
  <2> HIDE DEF Onward
  <2> QED BY <2>1 DEF StepFunctions
<1>2. PICK f : Recursion(f, SeenMaps, none, F, n)
  <2>1. none \in SeenMaps
    BY DEF SeenMaps
  <2> HIDE DEF F, none, n
  <2> QED BY <1>0, <1>1, <2>1, RecursionExists
<1> HIDE DEF Onward
<1>3. ASSUME NEW t \in 1..n
      PROVE  f[t] = Onward(f[t - 1], t)
  <2>1. f[t - 1] \in SeenMaps /\ f[t] = F[t][f[t - 1]]
    <3> HIDE DEF F
    <3> QED BY <1>0, <1>2 DEF Recursion
  <2>2. F[t] = [s \in SeenMaps |-> Onward(s, t)]
    OBVIOUS
  <2> HIDE DEF F
  <2> QED BY <2>1, <2>2
<1>4. f \in [0..n -> SeenMaps] /\ f[0] = none
  <2> HIDE DEF F, none
  <2> QED BY <1>2 DEF Recursion
<1> HIDE DEF none
<1>5. Recursive(f)
  <2>1. \A t \in 0..n : f[t] = IF t = 0 THEN none ELSE Onward(f[t - 1], t)
    <3>1. ASSUME NEW t \in 0..n, t # 0 PROVE t \in 1..n
      BY <1>0, <3>1
    <3> HIDE DEF n
    <3> QED BY <1>3, <1>4, <3>1
  <2>2. f = [t \in 0..n |-> f[t]]
    BY <1>4
  <2> QED BY <2>1, <2>2
<1>6. Recursive(k)
  BY <1>5 DEF SeenAfter, Onward, none
<1>7. /\ k[0] = none /\ \A t \in 1..n : k[t] = Onward(k[t - 1], t)
      /\ k = [t \in 0..n |-> k[t]]
  <2> HIDE DEF k
  <2>1. \A t \in 0..n : k[t] = IF t = 0 THEN none ELSE Onward(k[t - 1], t)
    BY <1>6
  <2>2. k = [t \in 0..n |-> k[t]]
    BY <1>6
  <2>3. \A t \in 1..n : t \in 0..n /\ t # 0
    BY <1>0
  <2>4. 0 \in 0..n
    BY <1>0
  <2> QED BY <2>1, <2>2, <2>3, <2>4
<1>8. \A t \in 0..n : k[t] = f[t]
  <2>1. k[0] = f[0]
    BY <1>4, <1>7
  <2>2. \A t \in 1..n : k[t - 1] = f[t - 1] => k[t] = f[t]
    <3> HIDE DEF k
    <3> QED BY <1>3, <1>7
  <2> HIDE DEF k, n, F, Recursive
  <2>3. n \in Nat
    BY <1>0
  <2> QED BY <2>1, <2>2, <2>3, Agreement
<1>9. k \in [0..n -> SeenMaps]
  <2> HIDE DEF k
  <2>1. k = [t \in 0..n |-> f[t]]
    BY <1>7, <1>8
  <2> QED BY <1>4, <2>1
<1> QED BY <1>7, <1>9 DEF SeesAfter, Onward, none
-----------------------------------------------------------------------------
(* deduplicate_* *)

\* Blocks and messages as clients send them.
OriginalBlocks == {b \in Blocks : /\ b.ref = 0 /\ ~b.marked /\ b.type # "summary"
                                  /\ b.type # "call" => b.body \in Bodies}
SentMessages == {m \in Messages : m.blocks \in Seq(OriginalBlocks)}

LEMMA SentParts ==
    ASSUME NEW m \in SentMessages
    PROVE  m \in Messages /\ \A j \in 1..Len(m.blocks) : m.blocks[j] \in OriginalBlocks
BY DEF SentMessages

\* The same message, but for the contents that are replaced.
AlikeBlock(c, b) == c.type = b.type /\ c.body = b.body /\ c.id = b.id /\ c.marked = b.marked

AlikeMessage(out, m) ==
    /\ out \in Messages
    /\ out.role = m.role /\ out.str = m.str /\ Len(out.blocks) = Len(m.blocks)
    /\ \A j \in 1..Len(m.blocks) : AlikeBlock(out.blocks[j], m.blocks[j])

AlikeMessages(out, messages) ==
    /\ out \in Seq(Messages) /\ Len(out) = Len(messages)
    /\ \A t \in 1..Len(messages) : AlikeMessage(out[t], messages[t])

LEMMA DedupBlockIs ==
    ASSUME NEW seen \in SeenMaps, NEW m, NEW b \in OriginalBlocks, NEW older
    PROVE  LET c == DedupBlock(seen, m, b, older)
           IN  /\ c \in Blocks /\ AlikeBlock(c, b)
               /\ ~older => c = b
               /\ ~Repeats(seen, m, b, older) => c.ref = 0
               /\ c.ref # 0 => /\ c.ref = seen[b.body] /\ b.body \in Bodies
                               /\ b.type # "call"
<1>1. b \in Blocks /\ b.ref = 0 /\ (b.type # "call" => b.body \in Bodies)
  BY DEF OriginalBlocks
<1>2. CASE Repeats(seen, m, b, older)
  <2>1. b.type # "call" /\ older
    BY <1>2 DEF Repeats, LeftAlone
  <2>2. seen[b.body] \in Nat
    BY <1>1, <2>1 DEF SeenMaps
  <2> DEFINE c == [b EXCEPT !.ref = seen[b.body]]
  <2>3. c \in Blocks /\ AlikeBlock(c, b) /\ c.ref = seen[b.body]
    BY <1>1, <2>2 DEF Blocks, AlikeBlock
  <2>4. DedupBlock(seen, m, b, older) = c
    BY <1>2 DEF DedupBlock
  <2> HIDE DEF c
  <2> QED BY <1>1, <1>2, <2>1, <2>3, <2>4
<1>3. CASE ~Repeats(seen, m, b, older)
  BY <1>1, <1>3 DEF DedupBlock, AlikeBlock
<1> QED BY <1>2, <1>3

LEMMA DedupMessageIs ==
    ASSUME NEW m \in SentMessages, NEW turn \in Nat, NEW older, NEW before \in SeenMaps
    PROVE  LET out == DedupMessage(m, turn, older, before)
           IN  /\ AlikeMessage(out, m)
               /\ \A j \in 1..Len(m.blocks) :
                     out.blocks[j] = DedupBlock(SeenAlong(m, turn, older, before)[j - 1],
                                                m, m.blocks[j], older)
<1> DEFINE n == Len(m.blocks)
           seen == SeenAlong(m, turn, older, before)
           block(j) == DedupBlock(seen[j - 1], m, m.blocks[j], older)
           bs == [j \in 1..n |-> block(j)]
<1>1. /\ m \in Messages /\ n \in Nat /\ n > 0
      /\ \A j \in 1..n : m.blocks[j] \in OriginalBlocks
  BY SentParts, MessageParts
<1>2. \A j \in 1..n : seen[j - 1] \in SeenMaps
  <2>1. seen \in [0..n -> SeenMaps]
    BY <1>1, SeenAlongDef
  <2> HIDE DEF seen, n
  <2> QED BY <1>1, <2>1
<1> HIDE DEF seen
<1>3. \A j \in 1..n : block(j) \in Blocks /\ AlikeBlock(block(j), m.blocks[j])
  BY <1>1, <1>2, DedupBlockIs
<1> HIDE DEF block
<1>4. bs \in Seq(Blocks) /\ Len(bs) = n /\ bs # <<>> /\ \A j \in 1..n : bs[j] = block(j)
  <2> HIDE DEF n
  <2>1. bs \in [1..n -> Blocks]
    BY <1>3
  <2>2. bs \in Seq(Blocks)
    BY <1>1, <2>1, FunctionIsSeq
  <2>3. DOMAIN bs = 1..n
    OBVIOUS
  <2>4. Len(bs) = n
    <3> HIDE DEF bs
    <3> QED BY <1>1, <2>2, <2>3, LenProperties
  <2>5. bs # <<>>
    <3> HIDE DEF bs
    <3> QED BY <1>1, <2>4
  <2> QED BY <2>2, <2>4, <2>5
<1>5. DedupMessage(m, turn, older, before) = [m EXCEPT !.blocks = bs]
  BY DEF DedupMessage, block, seen
<1> HIDE DEF bs
<1> DEFINE out == [m EXCEPT !.blocks = bs]
<1>6. out \in Messages /\ out.role = m.role /\ out.str = m.str /\ out.blocks = bs
  BY <1>1, <1>4, WithBlocks
<1>7. DedupMessage(m, turn, older, before) = out
  BY <1>5
<1> HIDE DEF out
<1>8. AlikeMessage(out, m)
  BY <1>3, <1>4, <1>6 DEF AlikeMessage
<1>9. \A j \in 1..n : out.blocks[j] = block(j)
  BY <1>4, <1>6
<1> QED BY <1>7, <1>8, <1>9 DEF block, seen

\* Message t of Dedup(messages), and the map its blocks are looked up in.
SeenIn(messages, t) ==
    SeenAlong(messages[t], t, Older(t, messages), SeenAfter(messages)[t - 1])

LEMMA SeenInDef ==
    ASSUME NEW messages \in Seq(SentMessages), NEW t \in 1..Len(messages)
    PROVE  /\ SeenAfter(messages)[t - 1] \in SeenMaps
           /\ SeenIn(messages, t) \in [0..Len(messages[t].blocks) -> SeenMaps]
           /\ SeesAlong(SeenIn(messages, t), messages[t], t, Older(t, messages),
                        SeenAfter(messages)[t - 1])
           /\ SeenAfter(messages)[t] = SeenIn(messages, t)[Len(messages[t].blocks)]
<1> DEFINE n == Len(messages)
<1>1. n \in Nat /\ messages \in Seq(Messages) /\ messages[t] \in Messages /\ t \in Nat
  BY DEF SentMessages
<1>2. Len(messages[t].blocks) \in Nat
  BY <1>1, MessageParts
<1>3. SeenAfter(messages) \in [0..n -> SeenMaps] /\ SeesAfter(SeenAfter(messages), messages)
  BY <1>1, SeenAfterDef
<1>4. SeenAfter(messages)[t - 1] \in SeenMaps
  BY <1>1, <1>3
<1>5. SeenAfter(messages)[t] = SeenIn(messages, t)[Len(messages[t].blocks)]
  BY <1>3 DEF SeesAfter, SeenIn
<1> QED BY <1>1, <1>2, <1>4, <1>5, SeenAlongDef DEF SeenIn

LEMMA DedupIs ==
    ASSUME NEW messages \in Seq(SentMessages)
    PROVE  /\ AlikeMessages(Dedup(messages), messages)
           /\ \A t \in 1..Len(messages) : \A j \in 1..Len(messages[t].blocks) :
                 Dedup(messages)[t].blocks[j] =
                     DedupBlock(SeenIn(messages, t)[j - 1], messages[t], messages[t].blocks[j],
                                Older(t, messages))
<1> DEFINE n == Len(messages)
           message(t) == DedupMessage(messages[t], t, Older(t, messages), SeenAfter(messages)[t - 1])
           out == [t \in 1..n |-> message(t)]
<1>1. n \in Nat /\ \A t \in 1..n : messages[t] \in SentMessages /\ t \in Nat
  OBVIOUS
<1>2. ASSUME NEW t \in 1..n
      PROVE  /\ AlikeMessage(message(t), messages[t])
             /\ \A j \in 1..Len(messages[t].blocks) :
                   message(t).blocks[j] =
                     DedupBlock(SeenIn(messages, t)[j - 1], messages[t], messages[t].blocks[j],
                                Older(t, messages))
  <2>1. SeenAfter(messages)[t - 1] \in SeenMaps
    BY SeenInDef
  <2> QED BY <1>1, <2>1, DedupMessageIs DEF SeenIn
<1>3. Dedup(messages) = out
  BY DEF Dedup
<1> HIDE DEF message
<1>4. out \in Seq(Messages) /\ Len(out) = n /\ \A t \in 1..n : out[t] = message(t)
  <2> HIDE DEF n
  <2>1. out \in [1..n -> Messages]
    BY <1>2 DEF AlikeMessage, n
  <2>2. out \in Seq(Messages)
    BY <1>1, <2>1, FunctionIsSeq
  <2>3. DOMAIN out = 1..n
    OBVIOUS
  <2>4. Len(out) = n
    <3> HIDE DEF out
    <3> QED BY <1>1, <2>2, <2>3, LenProperties
  <2> QED BY <2>2, <2>4
<1> HIDE DEF out
<1>5. AlikeMessages(out, messages)
  BY <1>2, <1>4 DEF AlikeMessages
<1> QED BY <1>2, <1>3, <1>4, <1>5

\* A block that holds the content in full.
Holds(m, x) ==
    \E k \in 1..Len(m.blocks) :
        m.blocks[k].ref = 0 /\ m.blocks[k].body = x /\ m.blocks[k].type # "call"

\* Whatever has been seen is held in full by the turn it was seen at.
Known(seen, t, out) ==
    \A x \in Bodies : seen[x] # 0 => seen[x] \in 1..t /\ Holds(out[seen[x]], x)

LEMMA KnownAlong ==
    ASSUME NEW messages \in Seq(SentMessages), NEW t \in 1..Len(messages),
           Known(SeenAfter(messages)[t - 1], t, Dedup(messages))
    PROVE  \A j \in 0..Len(messages[t].blocks) :
              Known(SeenIn(messages, t)[j], t, Dedup(messages))
<1> DEFINE out == Dedup(messages)
           m == messages[t]
           n == Len(m.blocks)
           older == Older(t, messages)
           seen == SeenIn(messages, t)
           S == {j \in 0..n : Known(seen[j], t, out)}
<1>1. m \in SentMessages /\ n \in Nat /\ t \in 1..t
  <2>1. m \in SentMessages /\ t \in 1..t
    OBVIOUS
  <2> HIDE DEF m
  <2> QED BY <2>1, SentParts, MessageParts
<1>2. /\ seen \in [0..n -> SeenMaps]
      /\ SeesAlong(seen, m, t, older, SeenAfter(messages)[t - 1])
  BY SeenInDef
<1>3. /\ \A j \in 1..n : out[t].blocks[j] = DedupBlock(seen[j - 1], m, m.blocks[j], older)
      /\ Len(out[t].blocks) = n
  BY DedupIs DEF AlikeMessages, AlikeMessage
<1>4. Known(SeenAfter(messages)[t - 1], t, out)
  OBVIOUS
<1> HIDE DEF out, m, n, older, seen
<1>5. 0 \in S
  BY <1>1, <1>2, <1>4 DEF SeesAlong
<1>6. ASSUME NEW j \in 1..n, j - 1 \in S PROVE j \in S
  <2> DEFINE b == m.blocks[j]
             prev == seen[j - 1]
  <2>1. b \in OriginalBlocks /\ b.ref = 0
    BY <1>1, <1>6, SentParts DEF OriginalBlocks, n
  <2>2. seen[j] = Remember(prev, m, b, t, older) /\ prev \in SeenMaps
    BY <1>1, <1>2 DEF SeesAlong, n
  <2>3. Known(prev, t, out)
    BY <1>6
  <2>4. CASE LeftAlone(m, b) \/ Repeats(prev, m, b, older)
    BY <1>1, <2>2, <2>3, <2>4 DEF Remember
  <2>5. CASE ~(LeftAlone(m, b) \/ Repeats(prev, m, b, older))
    <3>1. out[t].blocks[j] = b
      BY <1>3, <2>5 DEF DedupBlock
    <3>2. b.type # "call"
      BY <2>5 DEF LeftAlone
    <3>3. Holds(out[t], b.body)
      BY <1>3, <2>1, <3>1, <3>2 DEF Holds
    <3>4. seen[j] = [prev EXCEPT ![b.body] = t]
      BY <2>2, <2>5 DEF Remember
    <3>5. ASSUME NEW x \in Bodies, seen[j][x] # 0
          PROVE  seen[j][x] \in 1..t /\ Holds(out[seen[j][x]], x)
      <4>1. CASE x = b.body
        <5>1. seen[j][x] = t
          BY <2>2, <3>4, <4>1 DEF SeenMaps
        <5> QED BY <1>1, <3>3, <4>1, <5>1
      <4>2. CASE x # b.body
        <5>1. seen[j][x] = prev[x]
          BY <2>2, <3>4, <4>2 DEF SeenMaps
        <5> QED BY <2>3, <3>5, <5>1 DEF Known
      <4> QED BY <4>1, <4>2
    <3>6. Known(seen[j], t, out)
      BY <3>5 DEF Known
    <3> QED BY <1>1, <3>6
  <2> QED BY <2>4, <2>5
<1>7. \A j \in 0..n : j \in S
  <2>1. \A j \in 1..n : j - 1 \in S => j \in S
    BY <1>6
  <2> HIDE DEF S
  <2> QED BY <1>1, <1>5, <2>1, BoundedInduction
<1> QED BY <1>7 DEF out, m, n, seen

LEMMA KnownAfter ==
    ASSUME NEW messages \in Seq(SentMessages)
    PROVE  \A t \in 0..Len(messages) : Known(SeenAfter(messages)[t], t, Dedup(messages))
<1> DEFINE out == Dedup(messages)
           n == Len(messages)
           seen == SeenAfter(messages)
           S == {t \in 0..n : Known(seen[t], t, out)}
<1>1. n \in Nat
  OBVIOUS
<1>2. 0 \in S
  <2>1. messages \in Seq(Messages)
    BY DEF SentMessages
  <2>2. seen[0] = [b \in Bodies |-> 0]
    BY <2>1, SeenAfterDef DEF SeesAfter
  <2> QED BY <1>1, <2>2 DEF Known
<1>3. ASSUME NEW t \in 1..n, t - 1 \in S PROVE t \in S
  <2>1. Known(seen[t - 1], t, out)
    <3>1. Known(seen[t - 1], t - 1, out)
      BY <1>3
    <3>2. 1..(t - 1) \subseteq 1..t
      OBVIOUS
    <3> QED BY <3>1, <3>2 DEF Known
  <2>2. seen[t] = SeenIn(messages, t)[Len(messages[t].blocks)]
    BY SeenInDef
  <2>3. Len(messages[t].blocks) \in 0..Len(messages[t].blocks)
    <3>1. messages[t] \in SentMessages
      OBVIOUS
    <3> QED BY <3>1, SentParts, MessageParts
  <2>4. Known(seen[t], t, out)
    BY <2>1, <2>2, <2>3, KnownAlong
  <2> QED BY <2>4
<1>4. \A t \in 0..n : t \in S
  <2>1. \A t \in 1..n : t - 1 \in S => t \in S
    BY <1>3
  <2> HIDE DEF S, n
  <2> QED BY <1>1, <1>2, <2>1, BoundedInduction
<1> QED BY <1>4

\* A content that was replaced is held in full by the turn it refers to.
LEMMA DedupRefers ==
    ASSUME NEW messages \in Seq(SentMessages), NEW i \in 1..Len(messages),
           NEW j \in 1..Len(messages[i].blocks), Dedup(messages)[i].blocks[j].ref # 0
    PROVE  LET b == Dedup(messages)[i].blocks[j]
           IN  b.ref \in 1..i /\ Holds(Dedup(messages)[b.ref], b.body)
<1> DEFINE out == Dedup(messages)
           seen == SeenIn(messages, i)[j - 1]
           c == messages[i].blocks[j]
           b == out[i].blocks[j]
<1>1. messages[i] \in SentMessages /\ i - 1 \in 0..Len(messages)
  OBVIOUS
<1>2. c \in OriginalBlocks /\ Len(messages[i].blocks) \in Nat
  BY <1>1, SentParts, MessageParts
<1>3. j - 1 \in 0..Len(messages[i].blocks)
  BY <1>2
<1>4. seen \in SeenMaps
  BY <1>3, SeenInDef
<1>5. Known(seen, i, out)
  <2>1. Known(SeenAfter(messages)[i - 1], i - 1, out)
    BY <1>1, KnownAfter
  <2>2. 1..(i - 1) \subseteq 1..i
    OBVIOUS
  <2>3. Known(SeenAfter(messages)[i - 1], i, out)
    BY <2>1, <2>2 DEF Known
  <2> QED BY <1>3, <2>3, KnownAlong
<1>6. b = DedupBlock(seen, messages[i], c, Older(i, messages))
  BY DedupIs
<1> HIDE DEF seen, c, b, out
<1>7. AlikeBlock(b, c) /\ b.ref # 0 => b.ref = seen[c.body] /\ c.body \in Bodies
  BY <1>2, <1>4, <1>6, DedupBlockIs
<1>8. b.ref # 0 /\ AlikeBlock(b, c)
  <2>1. b.ref # 0
    BY DEF b, out
  <2>2. AlikeBlock(b, c)
    BY <1>2, <1>4, <1>6, DedupBlockIs
  <2> QED BY <2>1, <2>2
<1>9. b.ref \in 1..i /\ Holds(out[b.ref], b.body)
  BY <1>5, <1>7, <1>8 DEF Known, AlikeBlock
<1> QED BY <1>9 DEF b, out

LEMMA AlikeKinds ==
    ASSUME NEW m \in Messages, NEW out, AlikeMessage(out, m)
    PROVE  Calls(out) = Calls(m) /\ Results(out) = Results(m)
<1>1. DOMAIN out.blocks = 1..Len(m.blocks) /\ DOMAIN m.blocks = 1..Len(m.blocks)
  <2>1. out.blocks \in Seq(Blocks) /\ m.blocks \in Seq(Blocks) /\ Len(out.blocks) = Len(m.blocks)
    BY MessageParts DEF AlikeMessage
  <2> QED BY <2>1, LenProperties
<1>2. \A j \in 1..Len(m.blocks) :
        out.blocks[j].type = m.blocks[j].type /\ out.blocks[j].id = m.blocks[j].id
  BY DEF AlikeMessage, AlikeBlock
<1> QED BY <1>1, <1>2 DEF Calls, Results
-----------------------------------------------------------------------------
(* merge_consecutive_roles *)

\* e ends with the contents of b.
EndsWith(e, b) ==
    /\ Len(e) >= Len(b)
    /\ \A i \in 1..Len(b) : LET c == e[Len(e) - Len(b) + i]
                            IN  c.body = b[i].body /\ c.ref = b[i].ref

LEMMA ContentIs ==
    ASSUME NEW m \in Messages
    PROVE  /\ Content(m) \in Seq(Blocks)
           /\ Calls(m) = {} =>
                /\ Len(Content(m)) = Len(m.blocks)
                /\ \A i \in 1..Len(m.blocks) :
                      Content(m)[i].body = m.blocks[i].body /\ Content(m)[i].ref = m.blocks[i].ref
<1> DEFINE bs == m.blocks
           S == {b \in Range(bs) : b.type # "call"}
           kept == Keep(bs, S)
           retyped(i) == [kept[i] EXCEPT !.type = "text", !.id = 0]
           out == [i \in 1..Len(kept) |-> retyped(i)]
<1>1. bs \in Seq(Blocks) /\ Len(bs) \in Nat /\ \A j \in 1..Len(bs) : bs[j] \in Blocks
  BY MessageParts
<1>2. Content(m) = out
  BY DEF Content
<1> HIDE DEF bs, S
<1>3. kept \in Seq(Blocks)
  BY <1>1, KeepType
<1> HIDE DEF kept
<1>5. \A i \in 1..Len(kept) :
        /\ retyped(i) \in Blocks
        /\ retyped(i).body = kept[i].body /\ retyped(i).ref = kept[i].ref
  <2>1. ASSUME NEW b \in Blocks
        PROVE  LET c == [b EXCEPT !.type = "text", !.id = 0]
               IN  c \in Blocks /\ c.body = b.body /\ c.ref = b.ref
    BY DEF Blocks
  <2>2. \A i \in 1..Len(kept) : kept[i] \in Blocks
    BY <1>3
  <2> QED BY <2>1, <2>2
<1> HIDE DEF retyped
<1>6. out \in Seq(Blocks) /\ Len(out) = Len(kept) /\ \A i \in 1..Len(kept) : out[i] = retyped(i)
  <2>1. Len(kept) \in Nat
    BY <1>3
  <2>2. out \in [1..Len(kept) -> Blocks] /\ DOMAIN out = 1..Len(kept)
    BY <1>5
  <2>3. out \in Seq(Blocks)
    BY <2>1, <2>2, FunctionIsSeq
  <2>4. Len(out) = Len(kept)
    <3> HIDE DEF out
    <3> QED BY <2>1, <2>2, <2>3, LenProperties
  <2> QED BY <2>3, <2>4
<1> HIDE DEF out
<1>7. CASE Calls(m) = {}
  <2>1. kept = bs
    <3>1. DOMAIN bs = 1..Len(bs)
      BY <1>1
    <3>2. \A j \in 1..Len(bs) : bs[j] \in S
      BY <1>7, <3>1 DEF Calls, S, Range, bs
    <3>3. bs \in Seq(S)
      <4>1. bs \in [1..Len(bs) -> S]
        BY <1>1, <3>1, <3>2
      <4> QED BY <1>1, <4>1, FunctionIsSeq
    <3> QED BY <3>3, KeepAll DEF kept
  <2> QED BY <1>2, <1>5, <1>6, <2>1 DEF bs
<1> QED BY <1>2, <1>6, <1>7

LEMMA JoinedIs ==
    ASSUME NEW p, NEW prev \in Messages, NEW m \in Messages
    PROVE  LET out == Joined(p, prev, m)
           IN  /\ out \in Messages /\ out.role = prev.role
               /\ Calls(m) = {} => EndsWith(out.blocks, m.blocks)
<1> DEFINE more == IF p = "openai" THEN Content(m) ELSE m.blocks
           bs == prev.blocks \o more
           str == prev.str /\ m.str
           out == [role |-> prev.role, str |-> str, blocks |-> bs]
<1>1. /\ prev.role \in Roles /\ prev.str \in BOOLEAN /\ prev.blocks \in Seq(Blocks)
      /\ Len(prev.blocks) \in Nat /\ Len(prev.blocks) > 0
      /\ prev = [role |-> prev.role, str |-> prev.str, blocks |-> prev.blocks]
  BY MessageParts
<1>2. m.str \in BOOLEAN /\ m.blocks \in Seq(Blocks) /\ Len(m.blocks) \in Nat
  BY MessageParts
<1>3. more \in Seq(Blocks)
  BY <1>2, ContentIs
<1>4. Calls(m) = {} =>
        /\ Len(more) = Len(m.blocks)
        /\ \A i \in 1..Len(m.blocks) :
              more[i].body = m.blocks[i].body /\ more[i].ref = m.blocks[i].ref
  BY ContentIs
<1>5. Joined(p, prev, m) = [prev EXCEPT !.str = str, !.blocks = bs]
  BY DEF Joined
<1> HIDE DEF more
<1>6. /\ bs \in Seq(Blocks) /\ Len(bs) = Len(prev.blocks) + Len(more)
      /\ \A i \in 1..(Len(prev.blocks) + Len(more)) :
            bs[i] = IF i <= Len(prev.blocks) THEN prev.blocks[i] ELSE more[i - Len(prev.blocks)]
  BY <1>1, <1>3, ConcatProperties
<1>7. str \in BOOLEAN
  BY <1>1, <1>2
<1> HIDE DEF bs, str
<1>8. Joined(p, prev, m) = out
  BY <1>1, <1>5
<1>9. Len(more) \in Nat
  BY <1>3
<1>10. bs # <<>>
  BY <1>1, <1>6, <1>9
<1>11. out \in Messages
  BY <1>1, <1>6, <1>7, <1>10 DEF Messages
<1>12. ASSUME Calls(m) = {} PROVE EndsWith(bs, m.blocks)
  <2> DEFINE a == Len(prev.blocks)
             n == Len(m.blocks)
             those == m.blocks
  <2>1. a \in Nat /\ n \in Nat /\ Len(more) = n /\ n = Len(those)
    BY <1>1, <1>2, <1>4, <1>12
  <2>2. /\ Len(bs) = a + n
        /\ \A i \in 1..(a + n) : bs[i] = IF i <= a THEN prev.blocks[i] ELSE more[i - a]
    BY <1>6, <2>1
  <2>3. \A i \in 1..n : more[i].body = those[i].body /\ more[i].ref = those[i].ref
    BY <1>4, <1>12
  <2> HIDE DEF a, n, those
  <2>4. Len(bs) >= n /\ Len(bs) - n = a
    BY <2>1, <2>2
  <2>5. ASSUME NEW i \in 1..n
        PROVE  bs[a + i] = more[i]
    <3> DEFINE q == a + i
    <3>1. q \in 1..(a + n) /\ ~(q <= a) /\ q - a = i
      BY <2>1
    <3> HIDE DEF q
    <3>2. bs[q] = more[q - a]
      BY <2>2, <3>1
    <3> QED BY <3>1, <3>2 DEF q
  <2>6. \A i \in 1..n : bs[Len(bs) - n + i].body = those[i].body /\ bs[Len(bs) - n + i].ref = those[i].ref
    BY <2>3, <2>4, <2>5
  <2>7. EndsWith(bs, those)
    BY <2>1, <2>4, <2>6 DEF EndsWith
  <2> QED BY <2>7 DEF those
<1> QED BY <1>8, <1>11, <1>12

\* What one more message does to the messages merged.
LEMMA MergeNextIs ==
    ASSUME NEW p, NEW merged \in Seq(Messages), NEW m \in Messages
    PROVE  LET out == MergeNext(p, merged, m)
           IN  /\ out \in Seq(Messages) /\ out # <<>>
               /\ out[1].role = IF merged = <<>> THEN m.role ELSE merged[1].role
               /\ Calls(m) = {} => EndsWith(Last(out).blocks, m.blocks)
<1>1. CASE merged # <<>> /\ Last(merged).role = m.role
  <2> DEFINE last == Last(merged)
             new == Joined(p, last, m)
             front == Front(merged)
             out == Append(front, new)
  <2>1. Len(merged) \in Nat /\ Len(merged) > 0 /\ last \in Messages
    BY <1>1 DEF Last
  <2>2. new \in Messages /\ new.role = last.role
        /\ (Calls(m) = {} => EndsWith(new.blocks, m.blocks))
    <3> HIDE DEF last
    <3> QED BY <2>1, JoinedIs
  <2>3. /\ front \in Seq(Messages) /\ Len(front) = Len(merged) - 1
        /\ \A i \in 1..(Len(merged) - 1) : front[i] = merged[i]
    <3>1. Len(merged) - 1 \in 0..Len(merged)
      BY <2>1
    <3>2. front = SubSeq(merged, 1, Len(merged) - 1)
      BY DEF Front
    <3> HIDE DEF front
    <3> QED BY <3>1, <3>2, FirstOf
  <2>4. MergeNext(p, merged, m) = out
    BY <1>1 DEF MergeNext
  <2>5. last = merged[Len(merged)]
    BY DEF Last
  <2> HIDE DEF last, new, front
  <2>6. /\ out \in Seq(Messages) /\ out # <<>> /\ Len(out) = Len(merged)
        /\ \A i \in 1..(Len(merged) - 1) : out[i] = merged[i]
        /\ out[Len(merged)] = new
    BY <2>1, <2>2, <2>3, AppendProperties
  <2> HIDE DEF out
  <2>7. out[1].role = merged[1].role
    <3>1. CASE Len(merged) = 1
      BY <2>2, <2>5, <2>6, <3>1
    <3>2. CASE Len(merged) # 1
      <4>1. 1 \in 1..(Len(merged) - 1)
        <5> DEFINE n == Len(merged)
        <5>1. n \in Nat /\ n > 0 /\ n # 1
          BY <2>1, <3>2
        <5> HIDE DEF n
        <5>2. 1 \in 1..(n - 1)
          BY <5>1
        <5> QED BY <5>2 DEF n
      <4> QED BY <2>6, <4>1
    <3> QED BY <3>1, <3>2
  <2>8. Last(out) = new
    BY <2>6 DEF Last
  <2> QED BY <1>1, <2>2, <2>4, <2>6, <2>7, <2>8
<1>2. CASE ~(merged # <<>> /\ Last(merged).role = m.role)
  <2> DEFINE out == Append(merged, m)
  <2>1. MergeNext(p, merged, m) = out
    BY <1>2 DEF MergeNext
  <2>2. /\ out \in Seq(Messages) /\ out # <<>> /\ Len(out) = Len(merged) + 1 /\ Len(merged) \in Nat
        /\ \A i \in 1..Len(merged) : out[i] = merged[i]
        /\ out[Len(merged) + 1] = m
    BY AppendProperties
  <2> HIDE DEF out
  <2>3. out[1].role = IF merged = <<>> THEN m.role ELSE merged[1].role
    <3>1. CASE merged = <<>>
      BY <2>2, <3>1
    <3>2. CASE merged # <<>>
      <4>1. 1 \in 1..Len(merged)
        BY <3>2, EmptySeq
      <4> QED BY <2>2, <3>2, <4>1
    <3> QED BY <3>1, <3>2
  <2>4. Last(out) = m
    BY <2>2 DEF Last
  <2>5. EndsWith(m.blocks, m.blocks)
    <3>1. Len(m.blocks) \in Nat
      BY MessageParts
    <3> QED BY <3>1 DEF EndsWith
  <2> QED BY <2>1, <2>2, <2>3, <2>4, <2>5
<1> QED BY <1>1, <1>2

\* merged is the recursion of Merging over messages.
MergesAlong(merged, p, messages) ==
    /\ merged[0] = <<>>
    /\ \A n \in 1..Len(messages) : merged[n] = MergeNext(p, merged[n - 1], messages[n])

LEMMA MergingDef ==
    ASSUME NEW p, NEW messages \in Seq(Messages)
    PROVE  /\ Merging(p, messages) \in [0..Len(messages) -> Seq(Messages)]
           /\ MergesAlong(Merging(p, messages), p, messages)
<1> DEFINE n == Len(messages)
           F == [i \in 1..n |-> [s \in Seq(Messages) |-> MergeNext(p, s, messages[i])]]
           Recursive(f) == f = [i \in 0..n |->
               IF i = 0 THEN <<>> ELSE MergeNext(p, f[i - 1], messages[i])]
           k == Merging(p, messages)
<1>0. n \in Nat /\ \A i \in 1..n : messages[i] \in Messages
  OBVIOUS
<1>1. F \in StepFunctions(Seq(Messages), n)
  <2>1. \A i \in 1..n, s \in Seq(Messages) : MergeNext(p, s, messages[i]) \in Seq(Messages)
    BY <1>0, MergeNextIs
  <2> QED BY <2>1 DEF StepFunctions
<1>2. PICK f : Recursion(f, Seq(Messages), <<>>, F, n)
  <2>1. <<>> \in Seq(Messages)
    OBVIOUS
  <2> HIDE DEF F, n
  <2> QED BY <1>0, <1>1, <2>1, RecursionExists
<1>3. ASSUME NEW i \in 1..n
      PROVE  f[i] = MergeNext(p, f[i - 1], messages[i])
  <2>1. f[i - 1] \in Seq(Messages) /\ f[i] = F[i][f[i - 1]]
    <3> HIDE DEF F
    <3> QED BY <1>0, <1>2 DEF Recursion
  <2>2. F[i] = [s \in Seq(Messages) |-> MergeNext(p, s, messages[i])]
    OBVIOUS
  <2> HIDE DEF F
  <2> QED BY <2>1, <2>2
<1>4. f \in [0..n -> Seq(Messages)] /\ f[0] = <<>>
  <2> HIDE DEF F
  <2> QED BY <1>2 DEF Recursion
<1>5. Recursive(f)
  <2>1. \A i \in 0..n : f[i] = IF i = 0 THEN <<>> ELSE MergeNext(p, f[i - 1], messages[i])
    <3>1. ASSUME NEW i \in 0..n, i # 0 PROVE i \in 1..n
      BY <1>0, <3>1
    <3> HIDE DEF n
    <3> QED BY <1>3, <1>4, <3>1
  <2>2. f = [i \in 0..n |-> f[i]]
    BY <1>4
  <2> QED BY <2>1, <2>2
<1>6. Recursive(k)
  BY <1>5 DEF Merging
<1>7. MergesAlong(k, p, messages) /\ k = [i \in 0..n |-> k[i]]
  <2> HIDE DEF k
  <2>1. \A i \in 0..n : k[i] = IF i = 0 THEN <<>> ELSE MergeNext(p, k[i - 1], messages[i])
    BY <1>6
  <2>2. k = [i \in 0..n |-> k[i]]
    BY <1>6
  <2>3. \A i \in 1..n : i \in 0..n /\ i # 0
    BY <1>0
  <2>4. 0 \in 0..n
    BY <1>0
  <2>5. k[0] = <<>>
    BY <2>1, <2>4
  <2>6. \A i \in 1..n : k[i] = MergeNext(p, k[i - 1], messages[i])
    BY <2>1, <2>3
  <2> QED BY <2>2, <2>5, <2>6 DEF MergesAlong
<1>8. \A i \in 0..n : k[i] = f[i]
  <2>1. k[0] = f[0]
    BY <1>4, <1>7 DEF MergesAlong
  <2>2. \A i \in 1..n : k[i - 1] = f[i - 1] => k[i] = f[i]
    <3> HIDE DEF k
    <3> QED BY <1>3, <1>7 DEF MergesAlong
  <2> HIDE DEF k, n, F, Recursive
  <2>3. n \in Nat
    BY <1>0
  <2> QED BY <2>1, <2>2, <2>3, Agreement
<1>9. k \in [0..n -> Seq(Messages)]
  <2> HIDE DEF k
  <2>1. k = [i \in 0..n |-> f[i]]
    BY <1>7, <1>8
  <2> QED BY <1>4, <2>1
<1> QED BY <1>7, <1>9

\* Merging keeps the role that comes first and the contents that come last.
LEMMA MergeEnds ==
    ASSUME NEW p, NEW messages \in Seq(Messages), messages # <<>>
    PROVE  LET out == MergeConsecutiveRoles(p, messages)
           IN  /\ out \in Seq(Messages) /\ out # <<>>
               /\ out[1].role = messages[1].role
               /\ Calls(Last(messages)) = {} => EndsWith(Last(out).blocks, Last(messages).blocks)
<1> DEFINE n == Len(messages)
           k == Merging(p, messages)
           S == {i \in 0..n : i = 0 \/ (k[i] # <<>> /\ k[i][1].role = messages[1].role)}
<1>1. n \in Nat /\ n > 0 /\ \A i \in 1..n : messages[i] \in Messages
  OBVIOUS
<1>2. /\ \A i \in 0..n : k[i] \in Seq(Messages)
      /\ k[0] = <<>> /\ \A i \in 1..n : k[i] = MergeNext(p, k[i - 1], messages[i])
  BY MergingDef DEF MergesAlong
<1> HIDE DEF k, n
<1>3. ASSUME NEW i \in 1..n, i - 1 \in S PROVE i \in S
  <2>1. i - 1 \in 0..n /\ i \in 0..n
    BY <1>1
  <2>2. k[i - 1] \in Seq(Messages) /\ messages[i] \in Messages
    BY <1>1, <1>2, <2>1
  <2>3. /\ k[i] # <<>>
        /\ k[i][1].role = IF k[i - 1] = <<>> THEN messages[i].role ELSE k[i - 1][1].role
    BY <1>2, <2>2, MergeNextIs
  <2>4. CASE i = 1
    BY <1>2, <2>1, <2>3, <2>4
  <2>5. CASE i # 1
    BY <1>3, <2>1, <2>3, <2>5
  <2> QED BY <2>4, <2>5
<1>4. n \in S
  <2>1. 0 \in S
    BY <1>1
  <2>2. \A i \in 1..n : i - 1 \in S => i \in S
    BY <1>3
  <2>3. \A i \in 0..n : i \in S
    <3> HIDE DEF S
    <3> QED BY <1>1, <2>1, <2>2, BoundedInduction
  <2> QED BY <1>1, <2>3
<1>5. n - 1 \in 0..n /\ n \in 1..n /\ n \in 0..n
  BY <1>1
<1>6. Calls(messages[n]) = {} => EndsWith(Last(k[n]).blocks, messages[n].blocks)
  BY <1>1, <1>2, <1>5, MergeNextIs
<1> QED BY <1>1, <1>2, <1>4, <1>5, <1>6 DEF MergeConsecutiveRoles, k, n, Last

\* No two messages in a row have one role.
Alternates(messages) ==
    \A i \in 2..Len(messages) : messages[i - 1].role # messages[i].role

LEMMA MergeNothing ==
    ASSUME NEW p, NEW messages \in Seq(Messages), Alternates(messages)
    PROVE  MergeConsecutiveRoles(p, messages) = messages
<1> DEFINE n == Len(messages)
           k == Merging(p, messages)
           S == {i \in 0..n : k[i] = SubSeq(messages, 1, i)}
<1>1. n \in Nat
  OBVIOUS
<1>2. k[0] = <<>> /\ \A i \in 1..n : k[i] = MergeNext(p, k[i - 1], messages[i])
  BY MergingDef DEF MergesAlong
<1> HIDE DEF k
<1>3. 0 \in S
  <2>1. SubSeq(messages, 1, 0) = <<>>
    BY FirstNone
  <2>2. k[0] = SubSeq(messages, 1, 0)
    BY <1>2, <2>1, Zenon
  <2>3. 0 \in 0..n
    BY <1>1
  <2> QED BY <2>2, <2>3, Zenon
<1>4. ASSUME NEW i \in 1..n, i - 1 \in S PROVE i \in S
  <2> DEFINE first == SubSeq(messages, 1, i - 1)
  <2>1. i - 1 \in 0..n /\ i \in 0..n
    BY <1>1
  <2>2. /\ first \in Seq(Messages) /\ Len(first) = i - 1
        /\ \A j \in 1..(i - 1) : first[j] = messages[j]
    BY <2>1, FirstOf
  <2>3. k[i - 1] = first
    BY <1>4
  <2>4. SubSeq(messages, 1, i) = Append(first, messages[i])
    BY FirstNext
  <2> HIDE DEF first
  <2>5. ~(first # <<>> /\ Last(first).role = messages[i].role)
    <3>1. CASE i = 1
      <4>1. Len(first) = 0
        BY <2>2, <3>1
      <4> QED BY <2>2, <4>1, EmptySeq
    <3>2. CASE i # 1
      <4>1. i - 1 \in 1..(i - 1) /\ i \in 2..n
        BY <1>1, <3>2
      <4>2. Last(first) = messages[i - 1]
        BY <2>2, <4>1 DEF Last
      <4> QED BY <4>1, <4>2 DEF Alternates
    <3> QED BY <3>1, <3>2
  <2>6. k[i] = Append(first, messages[i])
    <3>1. k[i] = MergeNext(p, first, messages[i])
      BY <1>2, <2>3
    <3> QED BY <2>5, <3>1 DEF MergeNext
  <2> QED BY <2>1, <2>4, <2>6
<1>5. n \in S
  <2>1. \A i \in 1..n : i - 1 \in S => i \in S
    BY <1>4
  <2>2. \A i \in 0..n : i \in S
    <3> HIDE DEF S, n
    <3> QED BY <1>1, <1>3, <2>1, BoundedInduction
  <2> QED BY <1>1, <2>2
<1> QED BY <1>5, FirstAll DEF MergeConsecutiveRoles, k
-----------------------------------------------------------------------------
(* summarize_*_history *)

LEMMA PrefixIs ==
    ASSUME NEW p, NEW messages
    PROVE  /\ PrefixLen(p, messages) \in 1..2
           /\ PrefixLen(p, messages) = 2 => messages[2].role = "user"
BY DEF PrefixLen

LEMMA SuffixFromIs ==
    ASSUME NEW p, NEW n \in Nat, NEW clean \in SUBSET (0..n), NEW prefix \in Nat
    PROVE  LET at == SuffixFrom(p, clean, prefix, n)
           IN  /\ at \in Nat
               /\ at # 0 => at \in clean
               /\ (p # "openai" /\ \E i \in clean : 0 < i /\ i <= n - RecentTurns)
                      => at <= n - RecentTurns
<1> DEFINE kept == n - RecentTurns
           at == SuffixFrom(p, clean, prefix, n)
<1>0. 0 \in Nat /\ \A i \in clean : i \in Nat
  OBVIOUS
<1>1. ASSUME NEW S \in SUBSET clean, S # {}
      PROVE  Min(S) \in S /\ Max(S) \in S
  <2>1. S \subseteq 0..n /\ S \subseteq Nat
    OBVIOUS
  <2> QED BY <1>1, <2>1, MinIsLeast, MaxIsGreatest
<1>2. CASE p = "openai"
  <2> DEFINE target  == IF kept < prefix + 1 THEN prefix + 1 ELSE kept
             back    == {i \in clean : prefix < i /\ i < target}
             forward == {i \in clean : i >= target}
  <2>1. at = IF forward # {} THEN Min(forward) ELSE IF back # {} THEN Max(back) ELSE 0
    BY <1>2 DEF SuffixFrom
  <2>2. back \in SUBSET clean /\ forward \in SUBSET clean
    OBVIOUS
  <2> HIDE DEF back, forward, at
  <2>3. at = 0 \/ at \in clean
    BY <1>1, <2>1, <2>2
  <2>4. at \in Nat
    BY <1>0, <2>3, Zenon
  <2> QED BY <1>2, <2>3, <2>4 DEF at
<1>3. CASE p # "openai"
  <2> DEFINE back    == {i \in clean : 0 < i /\ i <= kept}
             forward == {i \in clean : i > kept}
  <2>1. at = IF back # {} THEN Max(back) ELSE IF forward # {} THEN Min(forward) ELSE 0
    BY <1>3 DEF SuffixFrom
  <2>2. back \in SUBSET clean /\ forward \in SUBSET clean
    OBVIOUS
  <2>3. ASSUME NEW i \in clean, 0 < i /\ i <= kept PROVE at <= kept
    <3>1. i \in back
      BY <2>3
    <3>2. at \in back
      <4> HIDE DEF back, forward, at
      <4> QED BY <1>1, <2>1, <2>2, <3>1
    <3> QED BY <3>2
  <2>4. at = 0 \/ at \in clean
    <3> HIDE DEF back, forward, at
    <3> QED BY <1>1, <2>1, <2>2
  <2>5. at \in Nat
    <3> HIDE DEF at
    <3> QED BY <1>0, <2>4, Zenon
  <2> QED BY <1>3, <2>3, <2>4, <2>5
<1> QED BY <1>2, <1>3

LEMMA SuffixIs ==
    ASSUME NEW p, NEW messages \in Seq(Messages)
    PROVE  LET at == SuffixIdx(p, messages)
           IN  /\ at \in Nat
               /\ at # 0 => at < Len(messages) /\ CleanUser(p, messages[at + 1])
               /\ (/\ p # "openai"
                   /\ \E i \in 2..(Len(messages) - RecentTurns + 1) : CleanUser(p, messages[i]))
                      => at <= Len(messages) - RecentTurns
<1> DEFINE n == Len(messages)
           clean == CleanAt(p, messages)
           prefix == PrefixLen(p, messages)
           at == SuffixIdx(p, messages)
<1>1. n \in Nat /\ prefix \in Nat /\ RecentTurns \in Nat \ {0}
  BY PrefixIs, CleanerAssumption
<1>2. /\ clean \in SUBSET (0..n)
      /\ \A i \in clean : i < n /\ CleanUser(p, messages[i + 1])
  BY <1>1 DEF CleanAt
<1>3. ASSUME NEW i \in 2..(n - RecentTurns + 1), CleanUser(p, messages[i])
      PROVE  i - 1 \in clean /\ 0 < i - 1 /\ i - 1 <= n - RecentTurns
  <2>1. i - 1 \in 0..(n - 1) /\ i - 1 + 1 = i /\ 0 < i - 1 /\ i - 1 <= n - RecentTurns
    BY <1>1
  <2> DEFINE j == i - 1
  <2>2. CleanUser(p, messages[j + 1])
    BY <1>3, <2>1
  <2> HIDE DEF j
  <2>3. j \in clean
    BY <2>1, <2>2 DEF CleanAt, j
  <2> QED BY <2>1, <2>3 DEF j
<1>4. at = SuffixFrom(p, clean, prefix, n)
  BY DEF SuffixIdx
<1> HIDE DEF at, clean, prefix, n
<1>5. /\ at \in Nat /\ (at # 0 => at \in clean)
      /\ (p # "openai" /\ \E i \in clean : 0 < i /\ i <= n - RecentTurns) => at <= n - RecentTurns
  BY <1>1, <1>2, <1>4, SuffixFromIs
<1>6. (p # "openai" /\ \E i \in 2..(n - RecentTurns + 1) : CleanUser(p, messages[i]))
         => at <= n - RecentTurns
  BY <1>3, <1>5
<1> QED BY <1>2, <1>5, <1>6 DEF at, n

LEMMA SummaryIs ==
    ASSUME NEW k \in Nat
    PROVE  LET m == SummaryOf(k)
           IN  /\ m \in Messages /\ m.role = "assistant"
               /\ Calls(m) = {} /\ Results(m) = {}
               /\ Len(m.blocks) = 1 /\ m.blocks[1].marked = FALSE
<1> DEFINE no == FALSE
           b == [type |-> "summary", body |-> "omitted", id |-> k, ref |-> 0, marked |-> no]
           bs == <<b>>
           m == Message("assistant", TRUE, bs)
<1>1. SummaryOf(k) = m
  BY DEF SummaryOf, Block
<1>2. b \in Blocks /\ b.type = "summary" /\ b.marked = no /\ no \in BOOLEAN
  BY DEF Blocks, Contents
<1> HIDE DEF b
<1>3. bs \in Seq(Blocks) /\ Len(bs) = 1 /\ bs[1] = b /\ bs # <<>> /\ DOMAIN bs = 1..1
  BY <1>2
<1> HIDE DEF bs
<1>4. m \in Messages /\ m.role = "assistant" /\ m.blocks = bs
  BY <1>3 DEF Message, Messages, Roles
<1> HIDE DEF m
<1>5. \A i \in DOMAIN m.blocks : m.blocks[i].type = "summary"
  BY <1>2, <1>3, <1>4
<1>6. Calls(m) = {} /\ Results(m) = {}
  BY <1>5 DEF Calls, Results
<1> QED BY <1>1, <1>2, <1>3, <1>4, <1>6

\* out is messages with those between the first n and the last ones summarized.
Shortened(out, messages, n, at) ==
    /\ n \in 1..2 /\ at \in Nat /\ n < at /\ at < Len(messages)
    /\ out \in Seq(Messages) /\ Len(out) = n + 1 + (Len(messages) - at)
    /\ \A i \in 1..n : out[i] = messages[i]
    /\ out[n + 1] = SummaryOf(at - n)
    /\ \A i \in (n + 2)..Len(out) :
          i - n - 1 + at \in (at + 1)..Len(messages) /\ out[i] = messages[i - n - 1 + at]

LEMMA SummarizeIs ==
    ASSUME NEW p, NEW messages \in Seq(Messages),
           SuffixIdx(p, messages) > PrefixLen(p, messages)
    PROVE  /\ Shortened(Summarize(p, messages), messages, PrefixLen(p, messages), SuffixIdx(p, messages))
           /\ CleanUser(p, messages[SuffixIdx(p, messages) + 1])
<1> DEFINE at == SuffixIdx(p, messages)
           n == PrefixLen(p, messages)
           len == Len(messages)
           first == SubSeq(messages, 1, n)
           summ == SummaryOf(at - n)
           summary == <<summ>>
           last == SubSeq(messages, at + 1, len)
           front == first \o summary
           out == front \o last
<1>1. n \in 1..2 /\ at \in Nat /\ n < at /\ at < len /\ CleanUser(p, messages[at + 1]) /\ len \in Nat
  <2>1. n \in 1..2 /\ at \in Nat /\ at > n /\ len \in Nat
    BY PrefixIs, SuffixIs
  <2>2. at # 0
    BY <2>1
  <2> QED BY <2>1, <2>2, SuffixIs
<1>2. Summarize(p, messages) = out
  <2>1. ~(at <= n)
    BY <1>1
  <2> QED BY <2>1, Zenon DEF Summarize
<1> HIDE DEF at, n
<1>3. first \in Seq(Messages) /\ Len(first) = n /\ \A i \in 1..n : first[i] = messages[i]
  <2>1. n \in 0..len
    BY <1>1
  <2> QED BY <2>1, FirstOf
<1>4. summary \in Seq(Messages) /\ Len(summary) = 1 /\ summary[1] = summ
  <2>1. at - n \in Nat
    BY <1>1
  <2>2. summ \in Messages
    BY <2>1, SummaryIs
  <2> HIDE DEF summ
  <2> QED BY <2>2
<1>5. /\ last \in Seq(Messages) /\ Len(last) = len - at
      /\ \A i \in 1..(len - at) : last[i] = messages[at + i]
  <2>1. at + 1 \in Int /\ len \in Int /\ at + 1 <= len /\ \A i \in (at + 1)..len : messages[i] \in Messages
    BY <1>1
  <2>2. /\ last \in Seq(Messages) /\ Len(last) = len - (at + 1) + 1
        /\ \A i \in 1..(len - (at + 1) + 1) : last[i] = messages[at + 1 + i - 1]
    <3> HIDE DEF len
    <3> QED BY <2>1, SubSeqProperties
  <2> HIDE DEF last, len
  <2>3. len - (at + 1) + 1 = len - at
    BY <1>1
  <2>4. ASSUME NEW i \in 1..(len - at) PROVE last[i] = messages[at + i]
    <3>1. i \in 1..(len - (at + 1) + 1) /\ at + 1 + i - 1 = at + i
      BY <1>1, <2>3
    <3> QED BY <2>2, <3>1
  <2> QED BY <2>2, <2>3, <2>4
<1> HIDE DEF first, summ, summary, last, len
<1>6. /\ front \in Seq(Messages) /\ Len(front) = n + 1
      /\ \A i \in 1..(n + 1) : front[i] = IF i <= n THEN first[i] ELSE summary[i - n]
  <2>1. /\ front \in Seq(Messages) /\ Len(front) = Len(first) + Len(summary)
        /\ \A i \in 1..(Len(first) + Len(summary)) :
              front[i] = IF i <= Len(first) THEN first[i] ELSE summary[i - Len(first)]
    BY <1>3, <1>4, ConcatProperties
  <2> HIDE DEF front
  <2> QED BY <1>3, <1>4, <2>1
<1> HIDE DEF front
<1>7. /\ out \in Seq(Messages) /\ Len(out) = n + 1 + (len - at)
      /\ \A i \in 1..(n + 1 + (len - at)) :
            out[i] = IF i <= n + 1 THEN front[i] ELSE last[i - (n + 1)]
  <2>1. /\ out \in Seq(Messages) /\ Len(out) = Len(front) + Len(last)
        /\ \A i \in 1..(Len(front) + Len(last)) :
              out[i] = IF i <= Len(front) THEN front[i] ELSE last[i - Len(front)]
    BY <1>5, <1>6, ConcatProperties
  <2> HIDE DEF out
  <2> QED BY <1>5, <1>6, <2>1
<1> HIDE DEF out
<1>8. \A i \in 1..n : out[i] = messages[i]
  <2>1. ASSUME NEW i \in 1..n PROVE out[i] = messages[i]
    <3>1. i \in 1..(n + 1 + (len - at)) /\ i \in 1..(n + 1) /\ i <= n + 1 /\ i <= n
      BY <1>1
    <3> QED BY <1>3, <1>6, <1>7, <3>1
  <2> QED BY <2>1
<1>9. out[n + 1] = summ
  <2> DEFINE q == n + 1
  <2>1. q \in 1..(n + 1 + (len - at)) /\ q \in 1..(n + 1) /\ q <= n + 1 /\ ~(q <= n) /\ q - n = 1
    BY <1>1
  <2> HIDE DEF q
  <2>2. out[q] = front[q] /\ front[q] = summary[q - n]
    BY <1>6, <1>7, <2>1
  <2> QED BY <1>4, <2>1, <2>2 DEF q
<1>10. ASSUME NEW i \in (n + 2)..Len(out)
       PROVE  i - n - 1 + at \in (at + 1)..len /\ out[i] = messages[i - n - 1 + at]
  <2> DEFINE q == i - (n + 1)
  <2>1. /\ i \in 1..(n + 1 + (len - at)) /\ ~(i <= n + 1) /\ q \in 1..(len - at)
        /\ at + q = i - n - 1 + at /\ at + q \in (at + 1)..len
    BY <1>1, <1>7
  <2>2. out[i] = last[q]
    BY <1>7, <2>1
  <2> HIDE DEF q
  <2>3. last[q] = messages[at + q]
    BY <1>5, <2>1
  <2> QED BY <2>1, <2>2, <2>3
<1>11. Shortened(out, messages, n, at)
  BY <1>1, <1>7, <1>8, <1>9, <1>10 DEF Shortened, len, summ
<1> QED BY <1>1, <1>2, <1>11 DEF at, n

\* What follows the last of the messages that are not summarized at the start.
Opens(messages, n) == n \in 1..2 /\ messages[n].role \in {"user", "system"}

LEMMA ShortAlternates ==
    ASSUME NEW messages \in Seq(Messages), NEW out, NEW n, NEW at,
           Shortened(out, messages, n, at), Alternates(messages), Opens(messages, n),
           messages[at + 1].role = "user"
    PROVE  Alternates(out)
<1> DEFINE len == Len(messages)
<1>0. len \in Nat
  OBVIOUS
<1>1. /\ n \in 1..2 /\ at \in Nat /\ n < at /\ at < len
      /\ Len(out) = n + 1 + (len - at)
      /\ \A i \in 1..n : out[i] = messages[i]
      /\ out[n + 1].role = "assistant"
      /\ \A i \in (n + 2)..Len(out) :
            i - n - 1 + at \in (at + 1)..len /\ out[i] = messages[i - n - 1 + at]
  <2>1. at - n \in Nat
    BY DEF Shortened
  <2> QED BY <2>1, SummaryIs DEF Shortened
<1> HIDE DEF len
<1>2. SUFFICES ASSUME NEW i \in 2..Len(out) PROVE out[i - 1].role # out[i].role
  BY DEF Alternates
<1>3. CASE i <= n
  <2>1. i - 1 \in 1..n /\ i \in 1..n /\ i \in 2..len
    BY <1>0, <1>1, <1>3
  <2> QED BY <1>1, <2>1 DEF Alternates, len
<1>4. CASE i = n + 1
  <2>1. out[i - 1] = messages[n]
    <3>1. i - 1 = n /\ n \in 1..n
      BY <1>1, <1>4
    <3> QED BY <1>1, <3>1
  <2> QED BY <1>1, <1>4, <2>1 DEF Opens
<1>5. CASE i = n + 2
  <2>1. i - 1 = n + 1 /\ i - n - 1 + at = at + 1 /\ i \in (n + 2)..Len(out)
    BY <1>0, <1>1, <1>5
  <2>2. out[i] = messages[at + 1] /\ out[i - 1].role = "assistant"
    BY <1>1, <2>1
  <2> QED BY <2>2
<1>6. CASE i > n + 2
  <2> DEFINE q == i - n - 1 + at
  <2>1. /\ i \in (n + 2)..Len(out) /\ i - 1 \in (n + 2)..Len(out)
        /\ i - 1 - n - 1 + at = q - 1 /\ q \in 2..len
    BY <1>0, <1>1, <1>6
  <2>2. out[i] = messages[q] /\ out[i - 1] = messages[q - 1]
    BY <1>1, <2>1
  <2> HIDE DEF q
  <2> QED BY <2>1, <2>2 DEF Alternates, len
<1>7. i <= n \/ i = n + 1 \/ i = n + 2 \/ i > n + 2
  BY <1>0, <1>1
<1> QED BY <1>3, <1>4, <1>5, <1>6, <1>7

\* Each message of results answers the message before it, and no other has calls.
Matched(messages) ==
    /\ Results(messages[1]) = {}
    /\ \A i \in 2..Len(messages) : Results(messages[i]) = Calls(messages[i - 1])
    /\ Calls(messages[Len(messages)]) = {}

LEMMA ShortMatched ==
    ASSUME NEW messages \in Seq(Messages), NEW out, NEW n, NEW at,
           Shortened(out, messages, n, at), Matched(messages),
           Calls(messages[n]) = {}, Results(messages[at + 1]) = {}
    PROVE  Matched(out)
<1> DEFINE len == Len(messages)
<1>0. len \in Nat
  OBVIOUS
<1>1. /\ n \in 1..2 /\ at \in Nat /\ n < at /\ at < len
      /\ Len(out) = n + 1 + (len - at)
      /\ \A i \in 1..n : out[i] = messages[i]
      /\ Calls(out[n + 1]) = {} /\ Results(out[n + 1]) = {}
      /\ \A i \in (n + 2)..Len(out) :
            i - n - 1 + at \in (at + 1)..len /\ out[i] = messages[i - n - 1 + at]
  <2>1. at - n \in Nat
    BY DEF Shortened
  <2> QED BY <2>1, SummaryIs DEF Shortened
<1> HIDE DEF len
<1>2. Results(out[1]) = {}
  <2>1. 1 \in 1..n
    BY <1>1
  <2> QED BY <1>1, <2>1 DEF Matched
<1>3. ASSUME NEW i \in 2..Len(out) PROVE Results(out[i]) = Calls(out[i - 1])
  <2>3. CASE i <= n
    <3>1. i - 1 \in 1..n /\ i \in 1..n /\ i \in 2..len
      BY <1>0, <1>1, <2>3
    <3> QED BY <1>1, <3>1 DEF Matched, len
  <2>4. CASE i = n + 1
    <3>1. out[i - 1] = messages[n]
      <4>1. i - 1 = n /\ n \in 1..n
        BY <1>1, <2>4
      <4> QED BY <1>1, <4>1
    <3> QED BY <1>1, <2>4, <3>1
  <2>5. CASE i = n + 2
    <3>1. i - 1 = n + 1 /\ i - n - 1 + at = at + 1 /\ i \in (n + 2)..Len(out)
      BY <1>0, <1>1, <2>5
    <3>2. out[i] = messages[at + 1] /\ Calls(out[i - 1]) = {}
      BY <1>1, <3>1
    <3> QED BY <3>2
  <2>6. CASE i > n + 2
    <3> DEFINE q == i - n - 1 + at
    <3>1. /\ i \in (n + 2)..Len(out) /\ i - 1 \in (n + 2)..Len(out)
          /\ i - 1 - n - 1 + at = q - 1 /\ q \in 2..len
      BY <1>0, <1>1, <2>6
    <3>2. out[i] = messages[q] /\ out[i - 1] = messages[q - 1]
      BY <1>1, <3>1
    <3> HIDE DEF q
    <3> QED BY <3>1, <3>2 DEF Matched, len
  <2>7. i <= n \/ i = n + 1 \/ i = n + 2 \/ i > n + 2
    BY <1>0, <1>1
  <2> QED BY <2>3, <2>4, <2>5, <2>6, <2>7
<1>4. Calls(out[Len(out)]) = {}
  <2> DEFINE q == Len(out)
  <2>1. q \in (n + 2)..Len(out) /\ q - n - 1 + at = len
    BY <1>0, <1>1
  <2>2. out[q] = messages[len]
    BY <1>1, <2>1
  <2> QED BY <2>2 DEF Matched, len
<1> QED BY <1>2, <1>3, <1>4 DEF Matched
-----------------------------------------------------------------------------
(* The conversation. *)

\* Calls are the assistant's; results are a tool's, or in the other formats the user's.
Kinds(p, m) ==
    /\ Calls(m) # {} =>
         m.role = "assistant" /\ \A j \in 1..Len(m.blocks) : m.blocks[j].type = "call"
    /\ Results(m) # {} => m.role = IF p = "openai" THEN "tool" ELSE "user"

\* With OpenAI, no two calls are in one message.
OneByOne(p, messages) ==
    p = "openai" => \A i \in DOMAIN messages : \A x, y \in Calls(messages[i]) : x = y

Succeeds(prev, m) == prev.role # m.role /\ Results(m) = Calls(prev)

InOrder(messages) == \A i \in 2..Len(messages) : Succeeds(messages[i - 1], messages[i])

HistoryInv ==
    /\ provider \in {"anthropic", "openai", "gemini"}
    /\ history \in Seq(SentMessages)
    /\ \A i \in 1..Len(history) : Kinds(provider, history[i])
    /\ history # <<>> => history[1].role \in {"user", "system"} /\ Results(history[1]) = {}
    /\ OneByOne(provider, history) => InOrder(history)

\* What is sent is the conversation cleaned, and its newest message is no assistant's.
SentInv ==
    sent # <<>> =>
        /\ history # <<>> /\ Last(history).role \in {"user", "tool"}
        /\ sent = CleanMessages(provider, history)

CleanerInv == HistoryInv /\ SentInv

LEMMA HistoryParts ==
    ASSUME HistoryInv
    PROVE  /\ history \in Seq(Messages) /\ Len(history) \in Nat
           /\ \A i \in 1..Len(history) : history[i] \in SentMessages /\ history[i] \in Messages
           /\ DOMAIN history = 1..Len(history)
<1>1. history \in Seq(SentMessages) /\ SentMessages \subseteq Messages
  BY DEF HistoryInv, SentMessages
<1> QED BY <1>1

\* What Says adds to a conversation, if it fits, leaves the invariant true.
LEMMA SaysStep ==
    ASSUME CleanerInv, NEW m \in SentMessages, Says(m), Kinds(provider, m),
           history = <<>> => m.role \in {"user", "system"} /\ Results(m) = {},
           history # <<>> /\ OneByOne(provider, Append(history, m)) => Succeeds(Last(history), m)
    PROVE  CleanerInv'
<1> DEFINE n == Len(history)
           h == Append(history, m)
<1>1. history' = h /\ provider' = provider
  BY DEF Says
<1>2. /\ history \in Seq(SentMessages) /\ n \in Nat /\ DOMAIN history = 1..n
      /\ h \in Seq(SentMessages) /\ Len(h) = n + 1 /\ DOMAIN h = 1..(n + 1) /\ h # <<>>
      /\ \A i \in 1..n : h[i] = history[i]
      /\ h[n + 1] = m
  <2>1. history \in Seq(SentMessages)
    BY DEF CleanerInv, HistoryInv
  <2> QED BY <2>1
<1> HIDE DEF h
<1>3. \A i \in 1..(n + 1) : Kinds(provider, h[i])
  <2>1. \A i \in 1..(n + 1) : i \in 1..n \/ i = n + 1
    BY <1>2
  <2> QED BY <1>2, <2>1 DEF CleanerInv, HistoryInv
<1>4. h[1].role \in {"user", "system"} /\ Results(h[1]) = {}
  <2>1. CASE history = <<>>
    <3>1. n = 0
      BY <2>1
    <3> QED BY <1>2, <2>1, <3>1
  <2>2. CASE history # <<>>
    <3>1. 1 \in 1..n
      BY <1>2, <2>2, EmptySeq
    <3> QED BY <1>2, <2>2, <3>1 DEF CleanerInv, HistoryInv
  <2> QED BY <2>1, <2>2
<1>5. ASSUME OneByOne(provider, h) PROVE InOrder(h)
  <2>1. OneByOne(provider, history)
    <3>1. \A i \in 1..n : i \in 1..(n + 1)
      BY <1>2
    <3> QED BY <1>2, <1>5, <3>1 DEF OneByOne
  <2>2. InOrder(history)
    BY <2>1 DEF CleanerInv, HistoryInv
  <2>3. ASSUME NEW i \in 2..(n + 1) PROVE Succeeds(h[i - 1], h[i])
    <3>1. CASE i \in 2..n
      <4>1. i - 1 \in 1..n /\ i \in 1..n
        BY <3>1
      <4> QED BY <1>2, <2>2, <3>1, <4>1 DEF InOrder
    <3>2. CASE i = n + 1
      <4>1. i - 1 = n /\ n \in 1..n
        BY <1>2, <2>3, <3>2
      <4>2. history # <<>> /\ Last(history) = history[n]
        BY <1>2, <4>1 DEF Last
      <4>3. Succeeds(Last(history), m)
        BY <1>5, <4>2 DEF h
      <4> QED BY <1>2, <3>2, <4>1, <4>2, <4>3
    <3> QED BY <1>2, <2>3, <3>1, <3>2
  <2> QED BY <1>2, <2>3 DEF InOrder
<1>6. HistoryInv'
  BY <1>1, <1>2, <1>3, <1>4, <1>5 DEF CleanerInv, HistoryInv
<1>7. SentInv'
  <2>1. Last(h) = m
    BY <1>2 DEF Last
  <2>2. sent' # <<>> => m.role \in {"user", "tool"} /\ sent' = CleanMessages(provider, h)
    BY <1>1 DEF Says
  <2> QED BY <1>1, <1>2, <2>1, <2>2 DEF SentInv
<1> QED BY <1>6, <1>7 DEF CleanerInv

\* One block, as a message of the agent's.
LEMMA OneBlock ==
    ASSUME NEW role \in Roles, NEW str \in BOOLEAN, NEW b \in OriginalBlocks
    PROVE  LET m == Message(role, str, <<b>>)
           IN  /\ m \in SentMessages /\ m.role = role
               /\ Calls(m) = (IF b.type = "call" THEN {b.id} ELSE {})
               /\ Results(m) = (IF b.type = "result" THEN {b.id} ELSE {})
               /\ \A j \in 1..Len(m.blocks) : m.blocks[j] = b
<1> DEFINE bs == <<b>>
           m == Message(role, str, bs)
<1>1. b \in Blocks
  BY DEF OriginalBlocks
<1>2. /\ bs \in Seq(Blocks) /\ bs \in Seq(OriginalBlocks) /\ bs # <<>>
      /\ DOMAIN bs = 1..1 /\ Len(bs) = 1 /\ bs[1] = b
  BY <1>1
<1> HIDE DEF bs
<1>3. m.role = role /\ m.blocks = bs /\ m \in Messages
  BY <1>2 DEF Message, Messages
<1> HIDE DEF m
<1>4. m \in SentMessages
  BY <1>2, <1>3 DEF SentMessages
<1>5. Calls(m) = (IF b.type = "call" THEN {b.id} ELSE {})
  BY <1>2, <1>3 DEF Calls
<1>6. Results(m) = (IF b.type = "result" THEN {b.id} ELSE {})
  BY <1>2, <1>3 DEF Results
<1> QED BY <1>2, <1>3, <1>4, <1>5, <1>6 DEF m, bs

LEMMA BlockIs ==
    ASSUME NEW type \in {"text", "call", "result"}, NEW body, NEW id \in Nat,
           body = "call" \/ body \in Bodies, type # "call" => body \in Bodies
    PROVE  /\ Block(type, body, id) \in OriginalBlocks
           /\ Block(type, body, id).type = type /\ Block(type, body, id).id = id
<1> DEFINE no == FALSE
           b == [type |-> type, body |-> body, id |-> id, ref |-> 0, marked |-> no]
<1>1. no \in BOOLEAN /\ ~no
  OBVIOUS
<1>2. Block(type, body, id) = b
  BY DEF Block
<1> HIDE DEF no
<1>3. b \in Blocks
  BY <1>1 DEF Blocks, Contents
<1>4. b.ref = 0 /\ b.marked = no /\ b.type = type /\ b.body = body /\ b.id = id
  OBVIOUS
<1> HIDE DEF b
<1> QED BY <1>1, <1>2, <1>3, <1>4 DEF OriginalBlocks

LEMMA UserStep == ASSUME CleanerInv, UserAsks PROVE CleanerInv'
<1> USE DEF CleanerInv
<1>1. PICK b \in Bodies : \/ Says(User(b))
                          \/ (provider = "openai" /\ history = <<>> /\ Says(System(b)))
  BY DEF UserAsks
<1> DEFINE t == Block("text", b, 0)
<1>2. t \in OriginalBlocks /\ t.type = "text"
  BY BlockIs
<1> HIDE DEF t
<1>3. ASSUME history # <<>> PROVE Last(history).role \notin {"user", "tool"} /\ Calls(Last(history)) = {}
  <2> DEFINE n == Len(history)
             from == {i \in DOMAIN history : history[i].role = "assistant"}
  <2>1. n \in Nat /\ n > 0 /\ DOMAIN history = 1..n
    BY <1>3, HistoryParts
  <2>2. Last(history) = history[n] /\ Last(history).role \notin {"user", "tool"} /\ Pending = {}
    BY <1>3 DEF UserAsks, Last
  <2>3. CASE history[n].role = "assistant"
    <3>1. from \subseteq 0..n /\ n \in from
      BY <2>1, <2>3
    <3>2. Max(from) = n
      <4>1. Max(from) \in from /\ Max(from) >= n
        <5> HIDE DEF from
        <5> QED BY <2>1, <3>1, MaxIsGreatest
      <4>2. from \subseteq 1..n
        BY <2>1
      <4> DEFINE at == Max(from)
      <4>3. at \in 1..n /\ at >= n
        BY <4>1, <4>2
      <4> HIDE DEF at, n
      <4>4. at = n
        BY <2>1, <4>3
      <4> QED BY <4>4 DEF at
    <3>3. Pending = Calls(history[n]) \ UNION {Results(history[i]) : i \in {j \in DOMAIN history : j > n}}
      BY <3>1, <3>2 DEF Pending, Unanswered
    <3>4. {j \in DOMAIN history : j > n} = {}
      BY <2>1
    <3> QED BY <2>2, <3>3, <3>4
  <2>4. CASE history[n].role # "assistant"
    BY <2>1, <2>2, <2>4 DEF HistoryInv, Kinds
  <2> QED BY <2>2, <2>3, <2>4
<1>4. CASE Says(User(b))
  <2> DEFINE m == Message("user", provider # "gemini", <<t>>)
  <2>1. User(b) = m
    BY DEF User, t
  <2>2. m \in SentMessages /\ m.role = "user" /\ Calls(m) = {} /\ Results(m) = {}
    BY <1>2, OneBlock DEF Roles
  <2> HIDE DEF m
  <2>3. Kinds(provider, m)
    BY <2>2 DEF Kinds
  <2>4. history # <<>> => Succeeds(Last(history), m)
    BY <1>3, <2>2 DEF Succeeds
  <2>5. Says(m)
    BY <1>4, <2>1
  <2> QED BY <2>2, <2>3, <2>4, <2>5, SaysStep
<1>5. CASE history = <<>> /\ Says(System(b))
  <2> DEFINE m == Message("system", TRUE, <<t>>)
  <2>1. System(b) = m
    BY DEF System, t
  <2>2. m \in SentMessages /\ m.role = "system" /\ Calls(m) = {} /\ Results(m) = {}
    BY <1>2, OneBlock DEF Roles
  <2> HIDE DEF m
  <2>3. Kinds(provider, m)
    BY <2>2 DEF Kinds
  <2>4. Says(m)
    BY <1>5, <2>1
  <2> QED BY <1>5, <2>2, <2>3, <2>4, SaysStep
<1> QED BY <1>1, <1>4, <1>5

LEMMA AssistantStep == ASSUME CleanerInv, AssistantAnswers PROVE CleanerInv'
<1> USE DEF CleanerInv
<1> DEFINE n == 2 * Len(history)
           call(k) == Block("call", "call", n + k)
<1>1. n \in Nat /\ history # <<>> /\ Last(history).role \in {"user", "tool"}
  BY HistoryParts DEF AssistantAnswers
<1>2. Calls(Last(history)) = {}
  <2>1. Len(history) \in 1..Len(history)
    BY <1>1, HistoryParts
  <2> QED BY <1>1, <2>1 DEF Last, HistoryInv, Kinds
<1>3. ASSUME NEW m \in SentMessages, m.role = "assistant", Results(m) = {},
             Calls(m) = {} \/ \A j \in 1..Len(m.blocks) : m.blocks[j].type = "call", Says(m)
      PROVE  CleanerInv'
  <2>1. Kinds(provider, m)
    BY <1>3 DEF Kinds
  <2>2. Succeeds(Last(history), m)
    BY <1>1, <1>2, <1>3 DEF Succeeds
  <2> QED BY <1>1, <1>3, <2>1, <2>2, SaysStep
<1>4. ASSUME NEW b \in Bodies, Says(Message("assistant", provider = "openai", <<Block("text", b, 0)>>))
      PROVE  CleanerInv'
  <2> DEFINE t == Block("text", b, 0)
             m == Message("assistant", provider = "openai", <<t>>)
  <2>1. t \in OriginalBlocks /\ t.type = "text"
    BY BlockIs
  <2> HIDE DEF t
  <2>2. m \in SentMessages /\ m.role = "assistant" /\ Calls(m) = {} /\ Results(m) = {}
    BY <2>1, OneBlock DEF Roles
  <2>3. Says(m)
    BY <1>4 DEF t
  <2> HIDE DEF m
  <2> QED BY <1>3, <2>2, <2>3
<1>5. ASSUME Says(Message("assistant", FALSE, <<call(1)>>))
      PROVE  CleanerInv'
  <2> DEFINE no == FALSE
             c == call(1)
             m == Message("assistant", no, <<c>>)
  <2>1. c \in OriginalBlocks /\ c.type = "call" /\ no \in BOOLEAN
    BY <1>1, BlockIs
  <2>2. Says(m)
    BY <1>5
  <2> HIDE DEF c, no
  <2>3. /\ m \in SentMessages /\ m.role = "assistant" /\ Results(m) = {}
        /\ \A j \in 1..Len(m.blocks) : m.blocks[j] = c
    BY <2>1, OneBlock DEF Roles
  <2> HIDE DEF m
  <2> QED BY <1>3, <2>1, <2>2, <2>3
<1>6. ASSUME Says(Message("assistant", FALSE, <<call(1), call(2)>>))
      PROVE  CleanerInv'
  <2> DEFINE no == FALSE
             c == call(1)
             d == call(2)
             bs == <<c, d>>
             m == Message("assistant", no, bs)
  <2>1. /\ c \in OriginalBlocks /\ c.type = "call" /\ d \in OriginalBlocks /\ d.type = "call"
        /\ no \in BOOLEAN
    BY <1>1, BlockIs
  <2>2. Says(m)
    BY <1>6
  <2> HIDE DEF c, d, no
  <2>3. /\ bs \in Seq(OriginalBlocks) /\ bs # <<>> /\ Len(bs) = 2 /\ DOMAIN bs = 1..2
        /\ bs[1] = c /\ bs[2] = d
    BY <2>1
  <2> HIDE DEF bs
  <2>4. bs \in Seq(Blocks) /\ \A j \in 1..Len(bs) : bs[j].type = "call"
    <3>1. bs \in Seq(Blocks)
      BY <2>3 DEF OriginalBlocks
    <3>2. \A j \in 1..Len(bs) : j = 1 \/ j = 2
      BY <2>3
    <3> QED BY <2>1, <2>3, <3>1, <3>2
  <2>5. m.role = "assistant" /\ m.blocks = bs /\ m \in Messages
    BY <2>1, <2>3, <2>4 DEF Message, Messages, Roles
  <2> HIDE DEF m
  <2>6. m \in SentMessages
    BY <2>3, <2>5 DEF SentMessages
  <2>7. Results(m) = {}
    BY <2>3, <2>4, <2>5 DEF Results
  <2> QED BY <1>3, <2>2, <2>4, <2>5, <2>6, <2>7
<1> QED BY <1>4, <1>5, <1>6 DEF AssistantAnswers

\* With calls unanswered, the newest message is the one that holds them all.
LEMMA PendingIsNewest ==
    ASSUME HistoryInv, Pending # {}
    PROVE  /\ history # <<>> /\ Pending \subseteq Nat
           /\ OneByOne(provider, history) => Pending = Calls(Last(history))
<1> DEFINE n == Len(history)
           from == {i \in DOMAIN history : history[i].role = "assistant"}
           at == Max(from)
           later == {j \in DOMAIN history : j > at}
<1>1. n \in Nat /\ DOMAIN history = 1..n /\ \A i \in 1..n : history[i] \in Messages
  BY HistoryParts
<1>2. from # {}
  BY DEF Pending, Unanswered
<1>3. at \in from
  <2>1. from \subseteq 0..n
    BY <1>1
  <2> HIDE DEF from
  <2> QED BY <1>1, <1>2, <2>1, MaxIsGreatest
<1>4. at \in 1..n /\ history[at].role = "assistant"
  BY <1>1, <1>3
<1>5. Pending = Calls(history[at]) \ UNION {Results(history[i]) : i \in later}
  BY <1>2 DEF Pending, Unanswered
<1> HIDE DEF at, from
<1>6. Calls(history[at]) \subseteq Nat
  <2>1. history[at] \in Messages
    BY <1>1, <1>4
  <2> DEFINE m == history[at]
  <2>2. \A j \in DOMAIN m.blocks : m.blocks[j].id \in Nat
    <3> DEFINE bs == m.blocks
    <3>1. bs \in Seq(Blocks)
      BY <2>1, MessageParts
    <3> HIDE DEF bs
    <3>2. \A j \in DOMAIN bs : bs[j] \in Blocks
      BY <3>1
    <3> QED BY <3>2 DEF Blocks, bs
  <2> QED BY <2>2 DEF Calls
<1>7. ASSUME OneByOne(provider, history) PROVE Pending = Calls(Last(history))
  <2>1. InOrder(history)
    BY <1>7 DEF HistoryInv
  <2>2. CASE at = n
    <3>1. later = {}
      BY <1>1, <2>2
    <3>2. Last(history) = history[at]
      BY <2>2 DEF Last
    <3> QED BY <1>5, <3>1, <3>2
  <2>3. CASE at # n
    <3> DEFINE k == at + 1
    <3>1. k \in 1..n /\ k > at /\ k \in 2..n /\ k - 1 = at
      <4> HIDE DEF n
      <4> QED BY <1>1, <1>4, <2>3
    <3> HIDE DEF k
    <3>2. k \in later
      BY <1>1, <3>1
    <3>3. Results(history[k]) = Calls(history[at])
      BY <2>1, <3>1 DEF InOrder, Succeeds
    <3>4. Pending = {}
      BY <1>5, <3>2, <3>3
    <3> QED BY <3>4
  <2> QED BY <2>2, <2>3
<1>8. history # <<>>
  BY <1>1, <1>4
<1> QED BY <1>5, <1>6, <1>7, <1>8

LEMMA ToolsStep == ASSUME CleanerInv, ToolsAnswer PROVE CleanerInv'
<1> USE DEF CleanerInv
<1> DEFINE n == Len(history)
           last == Last(history)
<1>1. Pending # {}
  BY DEF ToolsAnswer
<1>2. /\ history # <<>> /\ Pending \subseteq Nat
      /\ OneByOne(provider, history) => Pending = Calls(last)
  BY <1>1, PendingIsNewest
<1>3. last \in Messages /\ Kinds(provider, last)
  <2>1. n \in 1..n
    BY <1>2, HistoryParts
  <2> QED BY <2>1, HistoryParts DEF Last, HistoryInv
<1>4. ASSUME NEW m, OneByOne(provider, Append(history, m))
      PROVE  OneByOne(provider, history)
  <2>1. /\ n \in Nat /\ DOMAIN history = 1..n /\ DOMAIN Append(history, m) = 1..(n + 1)
        /\ \A i \in 1..n : Append(history, m)[i] = history[i] /\ i \in 1..(n + 1)
    BY HistoryParts
  <2> QED BY <1>4, <2>1 DEF OneByOne
<1> HIDE DEF last
<1>5. ASSUME NEW m \in SentMessages, m.role = (IF provider = "openai" THEN "tool" ELSE "user"),
             Calls(m) = {}, OneByOne(provider, history) => Results(m) = Calls(last), Says(m)
      PROVE  CleanerInv'
  <2>1. Kinds(provider, m)
    BY <1>5 DEF Kinds
  <2>2. OneByOne(provider, history) => Succeeds(last, m)
    <3>1. OneByOne(provider, history) => last.role = "assistant"
      BY <1>1, <1>2, <1>3 DEF Kinds
    <3> QED BY <1>5, <3>1 DEF Succeeds
  <2> QED BY <1>2, <1>4, <1>5, <2>1, <2>2, SaysStep DEF last
<1>6. ASSUME NEW b \in Bodies, provider = "openai",
             Says(Message("tool", TRUE, <<Block("result", b, Min(Pending))>>))
      PROVE  CleanerInv'
  <2> DEFINE yes == TRUE
             id == Min(Pending)
             r == Block("result", b, id)
             m == Message("tool", yes, <<r>>)
  <2>1. id \in Pending /\ id \in Nat /\ yes \in BOOLEAN
    BY <1>1, <1>2, MinIsLeast
  <2>2. Says(m)
    BY <1>6
  <2> HIDE DEF id, yes
  <2>3. r \in OriginalBlocks /\ r.type = "result" /\ r.id = id
    BY <2>1, BlockIs
  <2> HIDE DEF r
  <2>4. m \in SentMessages /\ m.role = "tool" /\ Calls(m) = {} /\ Results(m) = {id}
    BY <2>1, <2>3, OneBlock DEF Roles
  <2> HIDE DEF m
  <2>5. ASSUME OneByOne(provider, history) PROVE Results(m) = Calls(last)
    <3>1. Len(history) \in DOMAIN history /\ last = history[Len(history)]
      BY <1>2, HistoryParts DEF Last, last
    <3>2. id \in Calls(last) /\ \A x, y \in Calls(last) : x = y
      BY <1>2, <1>6, <2>1, <2>5, <3>1 DEF OneByOne
    <3> QED BY <2>4, <3>2
  <2> QED BY <1>5, <1>6, <2>2, <2>4, <2>5
<1>7. ASSUME NEW b \in Bodies, provider # "openai",
             Says(Message("user", FALSE, [i \in 1..Len(last.blocks) |->
                                              Block("result", b, last.blocks[i].id)]))
      PROVE  CleanerInv'
  <2> DEFINE no == FALSE
             k == Len(last.blocks)
             result(i) == Block("result", b, last.blocks[i].id)
             bs == [i \in 1..k |-> result(i)]
             m == Message("user", no, bs)
  <2>1. k \in Nat /\ k > 0 /\ DOMAIN last.blocks = 1..k /\ \A i \in 1..k : last.blocks[i].id \in Nat
    <3>1. last.blocks \in Seq(Blocks) /\ k \in Nat /\ k > 0 /\ \A i \in 1..k : last.blocks[i] \in Blocks
      BY <1>3, MessageParts
    <3>2. DOMAIN last.blocks = 1..k
      BY <3>1, LenProperties
    <3> HIDE DEF k
    <3> QED BY <3>1, <3>2 DEF Blocks
  <2>2. \A i \in 1..k : /\ result(i) \in OriginalBlocks
                        /\ result(i).type = "result" /\ result(i).id = last.blocks[i].id
    BY <2>1, BlockIs
  <2>3. Says(m) /\ no \in BOOLEAN
    BY <1>7
  <2> HIDE DEF result, no, k
  <2>4. bs \in [1..k -> OriginalBlocks] /\ DOMAIN bs = 1..k /\ \A i \in 1..k : bs[i] = result(i)
    BY <2>2
  <2> HIDE DEF bs
  <2>5. bs \in Seq(OriginalBlocks)
    BY <2>1, <2>4, FunctionIsSeq
  <2>6. bs \in Seq(Blocks) /\ Len(bs) = k /\ bs # <<>>
    <3>1. bs \in Seq(Blocks)
      BY <2>5 DEF OriginalBlocks
    <3>2. Len(bs) = k
      BY <2>1, <2>4, <2>5, LenProperties
    <3> QED BY <2>1, <3>1, <3>2
  <2>7. m.role = "user" /\ m.blocks = bs /\ m \in Messages
    BY <2>3, <2>6 DEF Message, Messages, Roles
  <2> HIDE DEF m
  <2>8. m \in SentMessages
    BY <2>5, <2>7 DEF SentMessages
  <2>9. Calls(m) = {}
    BY <2>2, <2>4, <2>7 DEF Calls
  <2>10. Results(m) = {last.blocks[i].id : i \in 1..k}
    BY <2>2, <2>4, <2>7 DEF Results
  <2>11. ASSUME OneByOne(provider, history) PROVE Results(m) = Calls(last)
    <3>1. \A i \in 1..k : last.blocks[i].type = "call"
      BY <1>1, <1>2, <1>3, <2>11 DEF Kinds, k
    <3>2. Calls(last) = {last.blocks[i].id : i \in 1..k}
      BY <2>1, <3>1 DEF Calls
    <3> QED BY <2>10, <3>2
  <2> QED BY <1>5, <1>7, <2>3, <2>7, <2>8, <2>9, <2>11
<1> QED BY <1>6, <1>7 DEF ToolsAnswer, last

LEMMA CleanerAlways == CleanSpec => []CleanerInv
<1>1. CleanInit => CleanerInv
  <2> SUFFICES ASSUME CleanInit PROVE CleanerInv
    OBVIOUS
  <2>1. history \in Seq(SentMessages) /\ Len(history) = 0 /\ sent = <<>> /\ history = <<>>
    BY DEF CleanInit
  <2> QED BY <2>1 DEF CleanInit, CleanerInv, HistoryInv, SentInv, InOrder
<1>2. CleanerInv /\ [CleanNext]_cleanVars => CleanerInv'
  <2>1. CleanerInv /\ UNCHANGED cleanVars => CleanerInv'
    BY DEF cleanVars, CleanerInv, HistoryInv, SentInv
  <2> QED BY <2>1, UserStep, AssistantStep, ToolsStep DEF CleanNext
<1> QED BY <1>1, <1>2, PTL DEF CleanSpec
-----------------------------------------------------------------------------
(* What is sent. *)

\* What is replaced changes nothing about where the history is cut.
LEMMA AlikeSuffix ==
    ASSUME NEW p, NEW messages \in Seq(Messages), NEW d, AlikeMessages(d, messages)
    PROVE  PrefixLen(p, d) = PrefixLen(p, messages) /\ SuffixIdx(p, d) = SuffixIdx(p, messages)
<1> DEFINE n == Len(messages)
<1>1. /\ n \in Nat /\ Len(d) = n
      /\ \A t \in 1..n : d[t].role = messages[t].role /\ Results(d[t]) = Results(messages[t])
  <2>1. Len(d) = n /\ \A t \in 1..n : AlikeMessage(d[t], messages[t]) /\ messages[t] \in Messages
    BY DEF AlikeMessages
  <2>2. \A t \in 1..n : d[t].role = messages[t].role
    BY <2>1 DEF AlikeMessage
  <2> QED BY <2>1, <2>2, AlikeKinds
<1>2. PrefixLen(p, d) = PrefixLen(p, messages)
  <2>1. n > 1 => 1 \in 1..n /\ 2 \in 1..n
    BY <1>1
  <2> QED BY <1>1, <2>1 DEF PrefixLen
<1>3. CleanAt(p, d) = CleanAt(p, messages)
  <2> HIDE DEF n
  <2>1. \A i \in 0..(n - 1) : i + 1 \in 1..n
    BY <1>1
  <2>2. \A i \in 0..(n - 1) : CleanUser(p, d[i + 1]) = CleanUser(p, messages[i + 1])
    BY <1>1, <2>1 DEF CleanUser
  <2> QED BY <1>1, <2>2 DEF CleanAt, n
<1> QED BY <1>1, <1>2, <1>3 DEF SuffixIdx

\* Results are in messages of the one role they have in the format.
Placed(p, messages) ==
    \A i \in 1..Len(messages) :
        Results(messages[i]) # {} => messages[i].role = IF p = "openai" THEN "tool" ELSE "user"

\* The conversation and what is left of it when its repeated contents are replaced.
LEMMA DeduplicatedIs ==
    ASSUME HistoryInv, history # <<>>, Last(history).role \in {"user", "tool"}
    PROVE  LET d == Dedup(history)
           IN  /\ AlikeMessages(d, history) /\ d # <<>>
               /\ Placed(provider, d) /\ Opens(d, PrefixLen(provider, history))
               /\ Calls(d[PrefixLen(provider, history)]) = {}
               /\ Calls(d[Len(d)]) = {}
               /\ OneByOne(provider, history) => Alternates(d) /\ Matched(d)
<1> DEFINE d == Dedup(history)
           n == Len(history)
           k == PrefixLen(provider, history)
<1>1. /\ history \in Seq(Messages) /\ n \in Nat /\ n > 0
      /\ history \in Seq(SentMessages) /\ \A i \in 1..n : history[i] \in Messages
  BY HistoryParts DEF HistoryInv
<1>2. AlikeMessages(d, history)
  BY <1>1, DedupIs
<1>3. /\ Len(d) = n /\ d \in Seq(Messages)
      /\ \A i \in 1..n : /\ d[i].role = history[i].role
                         /\ Calls(d[i]) = Calls(history[i]) /\ Results(d[i]) = Results(history[i])
  <2> HIDE DEF d
  <2>1. Len(d) = n /\ d \in Seq(Messages) /\ \A i \in 1..n : AlikeMessage(d[i], history[i])
    BY <1>2 DEF AlikeMessages
  <2>2. \A i \in 1..n : d[i].role = history[i].role
    BY <2>1 DEF AlikeMessage
  <2> QED BY <1>1, <2>1, <2>2, AlikeKinds
<1> HIDE DEF d
<1>4. \A i \in 1..n : Kinds(provider, history[i])
  BY DEF HistoryInv
<1>5. Placed(provider, d)
  BY <1>3, <1>4 DEF Placed, Kinds
<1>6. k \in 1..n /\ history[k].role \in {"user", "system"} /\ k \in 1..2
  <2>1. CASE k = 2
    BY <1>1, <2>1 DEF PrefixLen
  <2>2. CASE k = 1
    BY <1>1, <2>2 DEF HistoryInv
  <2> QED BY <2>1, <2>2 DEF PrefixLen
<1> HIDE DEF k, n
<1>7. Opens(d, k) /\ Calls(d[k]) = {}
  BY <1>3, <1>4, <1>6 DEF Opens, Kinds
<1>8. Calls(d[n]) = {}
  <2>1. n \in 1..n /\ history[n] = Last(history)
    BY <1>1 DEF Last, n
  <2> QED BY <1>3, <1>4, <2>1 DEF Kinds
<1>9. ASSUME OneByOne(provider, history) PROVE Alternates(d) /\ Matched(d)
  <2>1. InOrder(history)
    BY <1>9 DEF HistoryInv
  <2>2. \A i \in 2..n : history[i - 1].role # history[i].role /\ Results(history[i]) = Calls(history[i - 1])
    BY <2>1 DEF InOrder, Succeeds, n
  <2>3. \A i \in 2..n : i \in 1..n /\ i - 1 \in 1..n
    BY <1>1
  <2>4. \A i \in 2..n : d[i - 1].role # d[i].role /\ Results(d[i]) = Calls(d[i - 1])
    BY <1>3, <2>2, <2>3
  <2>5. Results(d[1]) = {}
    BY <1>1, <1>3 DEF HistoryInv
  <2> QED BY <1>3, <1>8, <2>4, <2>5 DEF Alternates, Matched
<1>10. d # <<>>
  BY <1>1, <1>3, EmptySeq
<1> QED BY <1>2, <1>3, <1>5, <1>7, <1>8, <1>9, <1>10 DEF d, k

\* What is sent is the conversation with its repeated contents replaced, or that
\* with its middle summarized and its roles merged.
LEMMA SentIs ==
    ASSUME CleanerInv, sent # <<>>
    PROVE  LET d == Dedup(history)
               s == Summarize(provider, d)
               n == PrefixLen(provider, history)
               at == SuffixIdx(provider, history)
           IN  /\ ~Summarized(provider, history) => sent = d
               /\ Summarized(provider, history) =>
                    /\ sent = MergeConsecutiveRoles(provider, s)
                    /\ Shortened(s, d, n, at) /\ CleanUser(provider, d[at + 1])
<1> DEFINE p == provider
           d == Dedup(history)
           n == PrefixLen(p, history)
           at == SuffixIdx(p, history)
<1>1. /\ HistoryInv /\ history # <<>> /\ Last(history).role \in {"user", "tool"}
      /\ sent = CleanMessages(p, history)
  BY DEF CleanerInv, SentInv
<1>2. /\ AlikeMessages(d, history)
      /\ OneByOne(p, history) => Alternates(d)
  BY <1>1, DeduplicatedIs
<1> HIDE DEF d
<1>3. history \in Seq(Messages)
  BY <1>1, HistoryParts
<1>4. d \in Seq(Messages) /\ PrefixLen(p, d) = n /\ SuffixIdx(p, d) = at
  BY <1>2, <1>3, AlikeSuffix DEF AlikeMessages
<1>5. n \in Nat /\ at \in Nat /\ Len(history) \in Nat /\ MaxTurns \in Nat
  BY <1>3, PrefixIs, SuffixIs, CleanerAssumption
<1> HIDE DEF n, at
<1>6. ASSUME Summarized(p, history)
      PROVE  /\ sent = MergeConsecutiveRoles(p, Summarize(p, d))
             /\ Shortened(Summarize(p, d), d, n, at) /\ CleanUser(p, d[at + 1])
  <2>1. at > n /\ Len(history) > MaxTurns
    BY <1>6 DEF Summarized, at, n
  <2>2. sent = MergeConsecutiveRoles(p, Summarize(p, d))
    BY <1>1, <1>5, <1>6, <2>1 DEF CleanMessages, d
  <2>3. Shortened(Summarize(p, d), d, n, at) /\ CleanUser(p, d[at + 1])
    BY <1>4, <2>1, SummarizeIs
  <2> QED BY <2>2, <2>3
<1>7. ASSUME ~Summarized(p, history) PROVE sent = d
  <2>1. CASE Len(history) <= MaxTurns \/ p # "anthropic"
    BY <1>1, <1>7, <2>1 DEF CleanMessages, d
  <2>2. CASE Len(history) > MaxTurns /\ p = "anthropic"
    <3>1. sent = MergeConsecutiveRoles(p, Summarize(p, d))
      BY <1>1, <1>5, <2>2 DEF CleanMessages, d
    <3>2. Summarize(p, d) = d
      <4>1. at <= n
        BY <1>5, <1>7, <2>2 DEF Summarized, at, n
      <4> QED BY <1>4, <4>1 DEF Summarize
    <3>3. Alternates(d)
      BY <1>2, <2>2 DEF OneByOne
    <3> QED BY <1>4, <3>1, <3>2, <3>3, MergeNothing
  <2> QED BY <1>5, <2>1, <2>2
<1> QED BY <1>6, <1>7 DEF d, n, at

\* Where no calls are made in parallel no roles are merged.
LEMMA SummarizedIs ==
    ASSUME CleanerInv, sent # <<>>, OneByOne(provider, history), Summarized(provider, history)
    PROVE  sent = Summarize(provider, Dedup(history)) /\ Alternates(sent)
<1> DEFINE p == provider
           d == Dedup(history)
           s == Summarize(p, d)
           n == PrefixLen(p, history)
           at == SuffixIdx(p, history)
<1>1. Shortened(s, d, n, at) /\ CleanUser(p, d[at + 1]) /\ sent = MergeConsecutiveRoles(p, s)
  BY SentIs
<1>2. Alternates(d) /\ Opens(d, n) /\ d \in Seq(Messages)
  BY DeduplicatedIs DEF CleanerInv, SentInv, AlikeMessages
<1> HIDE DEF s, d, n, at
<1>3. d[at + 1].role = "user"
  BY <1>1 DEF CleanUser
<1>4. Alternates(s) /\ s \in Seq(Messages)
  BY <1>1, <1>2, <1>3, ShortAlternates DEF Shortened
<1>5. sent = s
  BY <1>1, <1>4, MergeNothing
<1> QED BY <1>4, <1>5 DEF s, d

LEMMA SentIsOrdered ==
    ASSUME CleanerInv, sent # <<>>, OneByOne(provider, history), provider # "gemini"
    PROVE  sent \in Seq(Messages) /\ Alternates(sent) /\ Matched(sent) /\ Placed(provider, sent)
<1> DEFINE p == provider
           d == Dedup(history)
           n == PrefixLen(p, history)
           at == SuffixIdx(p, history)
<1>1. /\ Alternates(d) /\ Matched(d) /\ Placed(p, d) /\ d \in Seq(Messages)
      /\ Calls(d[n]) = {}
  BY DeduplicatedIs DEF CleanerInv, SentInv, AlikeMessages
<1>2. CASE ~Summarized(p, history)
  BY <1>1, <1>2, SentIs
<1>3. CASE Summarized(p, history)
  <2> DEFINE s == Summarize(p, d)
  <2>1. sent = s /\ Alternates(sent)
    BY <1>3, SummarizedIs
  <2>2. Shortened(s, d, n, at) /\ CleanUser(p, d[at + 1])
    BY <1>3, SentIs
  <2> HIDE DEF s, d, n, at
  <2>3. Results(d[at + 1]) = {}
    <3>1. at + 1 \in 1..Len(d)
      BY <1>1, <2>2 DEF Shortened
    <3>2. p \in {"anthropic", "openai"}
      BY DEF CleanerInv, HistoryInv
    <3> QED BY <1>1, <2>2, <3>1, <3>2 DEF CleanUser, Placed
  <2>4. Matched(s)
    BY <1>1, <2>2, <2>3, ShortMatched
  <2>5. Placed(p, s)
    <3>1. SUFFICES ASSUME NEW i \in 1..Len(s), Results(s[i]) # {}
                   PROVE  s[i].role = IF p = "openai" THEN "tool" ELSE "user"
      BY DEF Placed
    <3>2. n \in 1..2 /\ at \in Nat /\ n < at /\ at < Len(d) /\ Len(d) \in Nat /\ Len(s) \in Nat
      BY <1>1, <2>2 DEF Shortened
    <3>3. CASE i <= n
      <4>1. i \in 1..n /\ i \in 1..Len(d)
        BY <3>2, <3>3
      <4> QED BY <1>1, <2>2, <3>1, <4>1 DEF Shortened, Placed
    <3>4. CASE i = n + 1
      <4>1. at - n \in Nat
        BY <3>2
      <4> QED BY <2>2, <3>1, <3>4, <4>1, SummaryIs DEF Shortened
    <3>5. CASE i > n + 1
      <4> DEFINE q == i - n - 1 + at
      <4>1. i \in (n + 2)..Len(s)
        BY <3>2, <3>5
      <4>2. q \in (at + 1)..Len(d) /\ s[i] = d[q]
        BY <2>2, <4>1 DEF Shortened
      <4>3. q \in 1..Len(d)
        BY <3>2, <4>2
      <4> HIDE DEF q
      <4> QED BY <1>1, <3>1, <4>2, <4>3 DEF Placed
    <3> QED BY <3>2, <3>3, <3>4, <3>5
  <2> QED BY <2>1, <2>2, <2>4, <2>5 DEF Shortened
<1> QED BY <1>2, <1>3
-----------------------------------------------------------------------------
(* The properties. *)

LEMMA ReferencesStep == ASSUME CleanerInv PROVE ReferencesResolve
<1> DEFINE d == Dedup(history)
<1>1. SUFFICES ASSUME ~Summarized(provider, history), NEW i \in DOMAIN sent,
                      NEW j \in DOMAIN sent[i].blocks, sent[i].blocks[j].ref # 0
               PROVE  LET b == sent[i].blocks[j]
                      IN  /\ b.ref <= i
                          /\ \E k \in DOMAIN sent[b.ref].blocks :
                                LET full == sent[b.ref].blocks[k]
                                IN  full.ref = 0 /\ full.body = b.body /\ full.type # "call"
  BY DEF ReferencesResolve
<1>2. sent # <<>>
  OBVIOUS
<1>3. sent = d
  BY <1>1, <1>2, SentIs
<1>4. /\ history \in Seq(SentMessages) /\ AlikeMessages(d, history)
  BY <1>2, DeduplicatedIs DEF CleanerInv, SentInv, HistoryInv
<1>5. /\ Len(history) \in Nat /\ Len(d) = Len(history) /\ DOMAIN d = 1..Len(history)
      /\ \A t \in 1..Len(history) : d[t] \in Messages /\ Len(d[t].blocks) = Len(history[t].blocks)
  <2> HIDE DEF d
  <2>1. Len(d) = Len(history) /\ d \in Seq(Messages) /\ Len(history) \in Nat
    BY <1>4 DEF AlikeMessages
  <2>2. \A t \in 1..Len(history) : Len(d[t].blocks) = Len(history[t].blocks) /\ d[t] \in Messages
    BY <1>4 DEF AlikeMessages, AlikeMessage
  <2>3. DOMAIN d = 1..Len(history)
    BY <2>1
  <2> QED BY <2>1, <2>2, <2>3
<1>6. \A t \in 1..Len(history) : DOMAIN d[t].blocks = 1..Len(d[t].blocks)
  <2> HIDE DEF d
  <2>1. \A t \in 1..Len(history) : d[t].blocks \in Seq(Blocks)
    BY <1>5, MessageParts
  <2> QED BY <2>1, LenProperties
<1>7. i \in 1..Len(history) /\ j \in 1..Len(history[i].blocks) /\ d[i].blocks[j].ref # 0
  BY <1>1, <1>3, <1>5, <1>6
<1> DEFINE b == d[i].blocks[j]
<1>8. b.ref \in 1..i /\ Holds(d[b.ref], b.body)
  BY <1>4, <1>7, DedupRefers
<1>9. b.ref \in 1..Len(history) /\ b.ref <= i
  <2> DEFINE r == b.ref
  <2>1. r \in 1..i
    BY <1>8
  <2> HIDE DEF b, r
  <2>2. r \in 1..Len(history) /\ r <= i
    BY <1>5, <1>7, <2>1
  <2> QED BY <2>2 DEF r
<1> HIDE DEF d
<1>10. PICK k \in 1..Len(d[b.ref].blocks) :
          d[b.ref].blocks[k].ref = 0 /\ d[b.ref].blocks[k].body = b.body
          /\ d[b.ref].blocks[k].type # "call"
  BY <1>8 DEF Holds
<1>11. k \in DOMAIN d[b.ref].blocks
  BY <1>6, <1>9, <1>10
<1> HIDE DEF b
<1>12. b = sent[i].blocks[j]
  BY <1>3 DEF b
<1> QED BY <1>3, <1>9, <1>10, <1>11, <1>12

\* In a conversation without parallel calls, every call has the next message answer it.
LEMMA FollowingIs ==
    ASSUME NEW messages \in Seq(Messages), Alternates(messages), Placed(provider, messages),
           NEW i \in 1..(Len(messages) - 1), Results(messages[i + 1]) # {}
    PROVE  Following(messages, i) = Results(messages[i + 1])
<1> DEFINE n == Len(messages)
<1>1. n \in Nat /\ DOMAIN messages = 1..n /\ i \in 1..(n - 1)
  OBVIOUS
<1>2. CASE provider # "openai"
  BY <1>1, <1>2 DEF Following
<1>3. CASE provider = "openai"
  <2> DEFINE next == {k \in DOMAIN messages :
                k > i /\ \A l \in (i + 1)..k : messages[l].role = "tool"}
             q == i + 1
  <2>1. q \in 1..n /\ q > i /\ q - 1 = i
    <3> HIDE DEF n
    <3> QED BY <1>1
  <2>2. messages[q].role = "tool"
    BY <1>3, <2>1 DEF Placed
  <2>3. q \in next
    <3>1. \A l \in (i + 1)..q : l = q
      BY <1>1
    <3> HIDE DEF q
    <3> QED BY <1>1, <2>1, <2>2, <3>1
  <2>4. ASSUME NEW k \in next PROVE k = q
    <3>1. k \in 1..n /\ k > i /\ \A l \in (i + 1)..k : messages[l].role = "tool"
      BY <1>1
    <3>2. SUFFICES ASSUME k # q PROVE FALSE
      OBVIOUS
    <3>3. q + 1 \in (i + 1)..k /\ q + 1 \in 2..n /\ q + 1 - 1 = q
      <4> HIDE DEF n
      <4> QED BY <1>1, <3>1, <3>2
    <3>4. messages[q + 1].role = "tool"
      BY <3>1, <3>3
    <3>5. messages[q + 1 - 1].role # messages[q + 1].role
      BY <3>3 DEF Alternates
    <3> QED BY <2>2, <3>3, <3>4, <3>5
  <2> HIDE DEF q
  <2>5. next = {q}
    BY <2>3, <2>4
  <2>6. Following(messages, i) = UNION {Results(messages[j]) : j \in next}
    BY <1>3 DEF Following
  <2> HIDE DEF next
  <2> QED BY <2>5, <2>6 DEF q
<1> QED BY <1>2, <1>3

LEMMA CallsStep == ASSUME CleanerInv PROVE CallsKeepResults
<1>1. SUFFICES ASSUME \/ provider = "anthropic"
                      \/ provider = "openai" /\ \A i \in DOMAIN history :
                            \A x, y \in Calls(history[i]) : x = y,
                      NEW i \in DOMAIN sent
               PROVE  /\ Results(sent[i]) # {} =>
                           \E j \in 1..(i - 1) : Results(sent[i]) \subseteq Calls(sent[j])
                      /\ Calls(sent[i]) # {} => Calls(sent[i]) = Following(sent, i)
  BY DEF CallsKeepResults
<1>2. sent # <<>>
  OBVIOUS
<1>3. sent \in Seq(Messages) /\ Alternates(sent) /\ Matched(sent) /\ Placed(provider, sent)
  <2>1. OneByOne(provider, history) /\ provider # "gemini"
    BY <1>1 DEF OneByOne
  <2> QED BY <1>2, <2>1, SentIsOrdered
<1> DEFINE n == Len(sent)
<1>4. n \in Nat /\ i \in 1..n
  BY <1>3
<1>5. ASSUME Results(sent[i]) # {}
      PROVE  \E j \in 1..(i - 1) : Results(sent[i]) \subseteq Calls(sent[j])
  <2>1. i \in 2..n
    BY <1>3, <1>4, <1>5 DEF Matched
  <2>2. Results(sent[i]) = Calls(sent[i - 1]) /\ i - 1 \in 1..(i - 1)
    BY <1>3, <2>1 DEF Matched
  <2> QED BY <2>2
<1>6. ASSUME Calls(sent[i]) # {} PROVE Calls(sent[i]) = Following(sent, i)
  <2>1. i \in 1..(n - 1)
    BY <1>3, <1>4, <1>6 DEF Matched
  <2>2. Results(sent[i + 1]) = Calls(sent[i])
    <3>1. i + 1 \in 2..n /\ i + 1 - 1 = i
      BY <2>1, <1>4
    <3> QED BY <1>3, <3>1 DEF Matched
  <2> QED BY <1>3, <1>6, <2>1, <2>2, FollowingIs
<1> QED BY <1>5, <1>6

\* The newest two messages keep their contents when what they repeat is replaced.
LEMMA NewestAreOriginal ==
    ASSUME HistoryInv, NEW t \in 1..Len(history), ~Older(t, history)
    PROVE  \A j \in 1..Len(history[t].blocks) :
              /\ Dedup(history)[t].blocks[j] = history[t].blocks[j]
              /\ history[t].blocks[j].ref = 0
<1> DEFINE m == history[t]
<1>1. t \in Nat /\ history \in Seq(SentMessages)
  BY HistoryParts DEF HistoryInv
<1>2. ASSUME NEW j \in 1..Len(m.blocks)
      PROVE  Dedup(history)[t].blocks[j] = m.blocks[j] /\ m.blocks[j].ref = 0
  <2> DEFINE seen == SeenIn(history, t)[j - 1]
  <2>1. m \in SentMessages
    BY <1>1, HistoryParts
  <2>2. m.blocks[j] \in OriginalBlocks /\ m.blocks[j].ref = 0 /\ Len(m.blocks) \in Nat
    BY <1>2, <2>1, SentParts, MessageParts DEF OriginalBlocks
  <2>3. seen \in SeenMaps
    <3>1. SeenIn(history, t) \in [0..Len(m.blocks) -> SeenMaps]
      BY <1>1, SeenInDef
    <3> QED BY <1>2, <2>2, <3>1
  <2>4. Dedup(history)[t].blocks[j] = DedupBlock(seen, m, m.blocks[j], Older(t, history))
    BY <1>1, <1>2, DedupIs
  <2> DEFINE older == Older(t, history)
             b == m.blocks[j]
  <2>5. ~older
    OBVIOUS
  <2> HIDE DEF seen, m, older, b
  <2>6. DedupBlock(seen, m, b, older) = b
    <3>1. b \in OriginalBlocks
      BY <2>2 DEF b
    <3> QED BY <2>3, <2>5, <3>1, DedupBlockIs
  <2> QED BY <2>2, <2>4, <2>6 DEF m, older, b
<1> QED BY <1>2 DEF m

LEMMA NewestIsOriginal ==
    ASSUME HistoryInv, history # <<>>
    PROVE  LET n == Len(history)
           IN  /\ n \in 1..n
               /\ \A j \in 1..Len(history[n].blocks) :
                     /\ Dedup(history)[n].blocks[j] = history[n].blocks[j]
                     /\ history[n].blocks[j].ref = 0
<1> DEFINE n == Len(history)
<1>1. n \in 1..n /\ n \in Nat
  BY HistoryParts
<1>2. ~Older(n, history)
  BY <1>1 DEF Older
<1> QED BY <1>1, <1>2, NewestAreOriginal

LEMMA NewestStep == ASSUME CleanerInv PROVE NewestIsVerbatim
<1> DEFINE n == Len(history)
           d == Dedup(history)
           newest == Last(history).blocks
           end == Last(sent).blocks
<1>1. SUFFICES ASSUME sent # <<>>
               PROVE  /\ Len(end) >= Len(newest)
                      /\ \A i \in DOMAIN newest :
                            LET b == end[Len(end) - Len(newest) + i]
                            IN  b.body = newest[i].body /\ b.ref = 0
                      /\ sent[1].role = history[1].role
  BY DEF NewestIsVerbatim
<1>2. HistoryInv /\ history # <<>> /\ Last(history).role \in {"user", "tool"}
  BY <1>1 DEF CleanerInv, SentInv
<1>3. /\ n \in 1..n /\ n \in Nat /\ Last(history) = history[n] /\ history[n] \in Messages
      /\ \A j \in 1..Len(newest) : d[n].blocks[j] = newest[j] /\ newest[j].ref = 0
  <2>1. Last(history) = history[n]
    BY DEF Last
  <2> QED BY <1>2, <2>1, NewestIsOriginal, HistoryParts
<1>4. newest \in Seq(Blocks) /\ Len(newest) \in Nat /\ DOMAIN newest = 1..Len(newest)
  BY <1>3, MessageParts
<1>5. /\ AlikeMessages(d, history) /\ d # <<>> /\ Calls(d[Len(d)]) = {}
  BY <1>2, DeduplicatedIs
<1>6. /\ Len(d) = n /\ d \in Seq(Messages) /\ d[1].role = history[1].role
      /\ Len(d[n].blocks) = Len(newest) /\ Last(d) = d[n]
  <2> HIDE DEF d
  <2>1. 1 \in 1..n
    BY <1>3
  <2> QED BY <1>3, <1>5, <2>1 DEF AlikeMessages, AlikeMessage, Last
<1> HIDE DEF newest
<1>7. EndsWith(end, d[n].blocks) /\ sent[1].role = history[1].role
  <2>1. CASE ~Summarized(provider, history)
    <3>1. sent = d
      BY <1>1, <2>1, SentIs
    <3>2. end = d[n].blocks
      BY <1>6, <3>1
    <3> DEFINE e == d[n].blocks
    <3>3. Len(e) \in Nat
      BY <1>4, <1>6
    <3> HIDE DEF e
    <3>4. EndsWith(e, e)
      BY <3>3 DEF EndsWith
    <3> QED BY <1>6, <3>1, <3>2, <3>4 DEF e
  <2>2. CASE Summarized(provider, history)
    <3> DEFINE s == Summarize(provider, d)
               k == PrefixLen(provider, history)
               at == SuffixIdx(provider, history)
    <3>1. Shortened(s, d, k, at) /\ sent = MergeConsecutiveRoles(provider, s)
      BY <1>1, <2>2, SentIs
    <3> HIDE DEF s, d, k, at
    <3>2. /\ s \in Seq(Messages) /\ Len(s) \in Nat /\ s # <<>> /\ s[1] = d[1]
      <4>1. Len(s) > 0 /\ 1 \in 1..k /\ Len(s) \in Nat /\ s \in Seq(Messages)
        BY <1>6, <3>1 DEF Shortened
      <4> QED BY <3>1, <4>1, EmptySeq DEF Shortened
    <3>3. Last(s) = d[n]
      <4> DEFINE q == Len(s)
      <4>1. q \in (k + 2)..Len(s) /\ q - k - 1 + at = n
        <5>1. /\ k \in 1..2 /\ at \in Nat /\ at < n /\ n \in Nat
              /\ q = k + 1 + (n - at)
          BY <1>3, <1>6, <3>1 DEF Shortened
        <5>2. Len(s) = q
          OBVIOUS
        <5> HIDE DEF q, n
        <5> QED BY <5>1, <5>2
      <4>2. s[q] = d[n]
        BY <3>1, <4>1 DEF Shortened
      <4> QED BY <4>2 DEF Last
    <3>4. sent[1].role = s[1].role /\ EndsWith(Last(sent).blocks, Last(s).blocks)
      BY <1>5, <1>6, <3>1, <3>2, <3>3, MergeEnds
    <3> QED BY <1>6, <3>2, <3>3, <3>4
  <2> QED BY <2>1, <2>2
<1> HIDE DEF end, d
<1>8. Len(end) >= Len(newest)
  BY <1>6, <1>7 DEF EndsWith
<1>9. ASSUME NEW i \in DOMAIN newest
      PROVE  /\ end[Len(end) - Len(newest) + i].body = newest[i].body
             /\ end[Len(end) - Len(newest) + i].ref = 0
  <2> DEFINE l == d[n].blocks
             c == end[Len(end) - Len(l) + i]
  <2>1. i \in 1..Len(l) /\ l[i] = newest[i] /\ newest[i].ref = 0 /\ Len(l) = Len(newest)
    BY <1>3, <1>4, <1>6, <1>9
  <2> HIDE DEF l
  <2>2. c.body = l[i].body /\ c.ref = l[i].ref
    BY <1>7, <2>1 DEF EndsWith, l
  <2> QED BY <2>1, <2>2
<1> QED BY <1>7, <1>8, <1>9

LEMMA RecentStep == ASSUME CleanerInv PROVE RecentTurnsSurvive
<1> DEFINE p == provider
           n == Len(history)
           d == Dedup(history)
           s == Summarize(p, d)
           k == PrefixLen(p, history)
           at == SuffixIdx(p, history)
<1>1. SUFFICES ASSUME KeepsRecent, NEW t \in (n - RecentTurns + 1)..n
               PROVE  LET c == Outgoing(t)
                          h == history[t]
                      IN  /\ c.role = h.role /\ Len(c.blocks) = Len(h.blocks)
                          /\ \A j \in DOMAIN h.blocks :
                                /\ c.blocks[j].body = h.blocks[j].body
                                /\ c.blocks[j].type = h.blocks[j].type
                                /\ c.blocks[j].id = h.blocks[j].id
                                /\ ~Older(t, history) => c.blocks[j].ref = 0
  BY DEF RecentTurnsSurvive, RecentPlaces
<1>0. /\ sent # <<>> /\ p # "openai" /\ Summarized(p, history)
      /\ \E i \in 2..(n - RecentTurns + 1) : CleanUser(p, history[i])
  BY <1>1 DEF KeepsRecent
<1>2. HistoryInv /\ history # <<>> /\ Last(history).role \in {"user", "tool"}
  BY <1>0 DEF CleanerInv, SentInv
<1>3. history \in Seq(Messages) /\ n \in Nat
  BY <1>2, HistoryParts
<1>4. AlikeMessages(d, history)
  BY <1>2, DeduplicatedIs
<1>5. Shortened(s, d, k, at)
  BY <1>0, SentIs
<1>6. sent = s
  BY <1>0, SummarizedIs DEF OneByOne
<1>7. at <= n - RecentTurns
  BY <1>0, <1>3, SuffixIs
<1>8. RecentTurns \in Nat \ {0}
  BY CleanerAssumption
<1> HIDE DEF s, d, k, at
<1>9. /\ Len(d) = n /\ k \in 1..2 /\ at \in Nat /\ at < n /\ Len(s) = k + 1 + (n - at)
      /\ \A i \in (k + 2)..Len(s) : s[i] = d[i - k - 1 + at]
  BY <1>4, <1>5 DEF Shortened, AlikeMessages
<1> DEFINE q == Len(s) - (n - t)
<1>10. q \in (k + 2)..Len(s) /\ q - k - 1 + at = t /\ t \in 1..n
  <2> HIDE DEF n
  <2> QED BY <1>1, <1>3, <1>7, <1>8, <1>9
<1>11. s[q] = d[t]
  BY <1>9, <1>10
<1>12. /\ d[t].role = history[t].role /\ Len(d[t].blocks) = Len(history[t].blocks)
       /\ \A j \in 1..Len(history[t].blocks) : AlikeBlock(d[t].blocks[j], history[t].blocks[j])
  BY <1>4, <1>10 DEF AlikeMessages, AlikeMessage
<1>13. Outgoing(t) = d[t]
  BY <1>6, <1>11 DEF Outgoing
<1>14. DOMAIN history[t].blocks = 1..Len(history[t].blocks)
  <2>1. history[t].blocks \in Seq(Blocks)
    BY <1>3, <1>10, MessageParts
  <2> QED BY <2>1
<1>15. ASSUME ~Older(t, history), NEW j \in 1..Len(history[t].blocks)
       PROVE  d[t].blocks[j].ref = 0
  BY <1>2, <1>10, <1>15, NewestAreOriginal DEF d
<1> QED BY <1>12, <1>13, <1>14, <1>15 DEF AlikeBlock
-----------------------------------------------------------------------------
(* inject_anthropic_cache_control *)

\* r is messages with the last block of each message in those marked, and no other.
MarkedAt(r, messages, those) ==
    /\ r \in Seq(Messages) /\ Len(r) = Len(messages)
    /\ \A i \in 1..Len(messages) :
          /\ Len(r[i].blocks) = Len(messages[i].blocks)
          /\ \A j \in 1..Len(messages[i].blocks) :
                r[i].blocks[j].marked <=> i \in those /\ j = Len(messages[i].blocks)
          /\ i \in those => ~r[i].str

Unmarked(messages) ==
    \A i \in 1..Len(messages) : \A j \in 1..Len(messages[i].blocks) : ~messages[i].blocks[j].marked

LEMMA MarkLastIs ==
    ASSUME NEW m \in Messages
    PROVE  LET out == MarkLast(m)
           IN  /\ out \in Messages /\ Len(out.blocks) = Len(m.blocks) /\ ~out.str
               /\ \A j \in 1..Len(m.blocks) :
                     out.blocks[j].marked <=> m.blocks[j].marked \/ j = Len(m.blocks)
<1> DEFINE n == Len(m.blocks)
           yes == TRUE
           no == FALSE
           b == [m.blocks[n] EXCEPT !.marked = yes]
           bs == [m.blocks EXCEPT ![n] = b]
           out == [role |-> m.role, str |-> no, blocks |-> bs]
<1>1. /\ m.role \in Roles /\ m.blocks \in Seq(Blocks) /\ n \in Nat /\ n > 0 /\ n \in 1..n
      /\ \A j \in 1..n : m.blocks[j] \in Blocks
      /\ m = [role |-> m.role, str |-> m.str, blocks |-> m.blocks]
  BY MessageParts
<1>2. yes /\ ~no /\ yes \in BOOLEAN /\ no \in BOOLEAN
  OBVIOUS
<1>3. MarkLast(m) = out
  <2>1. MarkLast(m) = [m EXCEPT !.str = no, !.blocks = bs]
    BY DEF MarkLast
  <2> HIDE DEF bs, no
  <2> QED BY <1>1, <2>1
<1> HIDE DEF yes, no
<1>4. b \in Blocks /\ b.marked = yes
  <2>1. m.blocks[n] \in Blocks
    BY <1>1
  <2> HIDE DEF n
  <2> QED BY <1>2, <2>1 DEF Blocks
<1> HIDE DEF b
<1>5. bs \in Seq(Blocks) /\ Len(bs) = n /\ bs[n] = b /\ \A j \in 1..n : j # n => bs[j] = m.blocks[j]
  <2> DEFINE old == m.blocks
  <2>1. old \in Seq(Blocks) /\ n = Len(old) /\ n \in 1..Len(old)
    BY <1>1
  <2> HIDE DEF old
  <2>2. [old EXCEPT ![n] = b] \in Seq(Blocks) /\ Len([old EXCEPT ![n] = b]) = Len(old)
    BY <1>4, <2>1
  <2>3. /\ [old EXCEPT ![n] = b][n] = b
        /\ \A j \in 1..n : j # n => [old EXCEPT ![n] = b][j] = old[j]
    BY <2>1
  <2> QED BY <2>1, <2>2, <2>3 DEF old
<1> HIDE DEF bs
<1>6. bs # <<>>
  BY <1>1, <1>5, EmptySeq
<1>7. out \in Messages /\ out.blocks = bs /\ out.str = no
  BY <1>1, <1>2, <1>5, <1>6 DEF Messages
<1> HIDE DEF out
<1>8. ASSUME NEW j \in 1..n PROVE bs[j].marked <=> m.blocks[j].marked \/ j = n
  BY <1>2, <1>4, <1>5
<1> QED BY <1>2, <1>3, <1>5, <1>7, <1>8

\* A request as a client may have marked it.
LEMMA RequestIs ==
    ASSUME NEW messages \in Seq(Messages), Unmarked(messages), NEW those
    PROVE  MarkedAt([i \in 1..Len(messages) |->
                        IF i \in those THEN MarkLast(messages[i]) ELSE messages[i]], messages, those)
<1> DEFINE n == Len(messages)
           message(i) == IF i \in those THEN MarkLast(messages[i]) ELSE messages[i]
           r == [i \in 1..n |-> message(i)]
<1>1. n \in Nat /\ \A i \in 1..n : messages[i] \in Messages
  OBVIOUS
<1>2. ASSUME NEW i \in 1..n
      PROVE  /\ message(i) \in Messages /\ Len(message(i).blocks) = Len(messages[i].blocks)
             /\ \A j \in 1..Len(messages[i].blocks) :
                   message(i).blocks[j].marked <=> i \in those /\ j = Len(messages[i].blocks)
             /\ i \in those => ~message(i).str
  <2>1. \A j \in 1..Len(messages[i].blocks) : ~messages[i].blocks[j].marked
    BY DEF Unmarked
  <2>2. CASE i \in those
    BY <1>1, <2>1, <2>2, MarkLastIs
  <2>3. CASE i \notin those
    BY <1>1, <2>1, <2>3
  <2> QED BY <2>2, <2>3
<1>3. r = [i \in 1..Len(messages) |->
                        IF i \in those THEN MarkLast(messages[i]) ELSE messages[i]]
  OBVIOUS
<1> HIDE DEF message
<1>4. r \in [1..n -> Messages] /\ \A i \in 1..n : r[i] = message(i)
  BY <1>2
<1> HIDE DEF r
<1>5. r \in Seq(Messages) /\ Len(r) = n
  <2>1. r \in Seq(Messages)
    BY <1>1, <1>4, FunctionIsSeq
  <2>2. DOMAIN r = 1..n
    BY <1>4
  <2> QED BY <1>1, <2>1, <2>2, LenProperties
<1>6. MarkedAt(r, messages, those)
  BY <1>2, <1>4, <1>5 DEF MarkedAt
<1> QED BY <1>3, <1>6

LEMMA MarkOneMore ==
    ASSUME NEW messages \in Seq(Messages), NEW those, NEW r, MarkedAt(r, messages, those),
           NEW k \in 1..Len(messages)
    PROVE  MarkedAt([r EXCEPT ![k] = MarkLast(@)], messages, those \cup {k})
<1> DEFINE n == Len(messages)
           m == MarkLast(r[k])
           out == [r EXCEPT ![k] = m]
<1>1. n \in Nat /\ r \in Seq(Messages) /\ Len(r) = n /\ k \in 1..n /\ DOMAIN r = 1..n
  BY DEF MarkedAt
<1>2. r[k] \in Messages
  BY <1>1
<1>3. /\ m \in Messages /\ Len(m.blocks) = Len(r[k].blocks) /\ ~m.str
      /\ \A j \in 1..Len(r[k].blocks) :
            m.blocks[j].marked <=> r[k].blocks[j].marked \/ j = Len(r[k].blocks)
  BY <1>2, MarkLastIs
<1> HIDE DEF m
<1>4. out \in Seq(Messages) /\ Len(out) = n
  BY <1>1, <1>3
<1>5. out[k] = m /\ \A i \in 1..n : i # k => out[i] = r[i]
  BY <1>1
<1>6. [r EXCEPT ![k] = MarkLast(@)] = out
  BY DEF m
<1> HIDE DEF out
<1>7. ASSUME NEW i \in 1..n
      PROVE  /\ Len(out[i].blocks) = Len(messages[i].blocks)
             /\ \A j \in 1..Len(messages[i].blocks) :
                   out[i].blocks[j].marked <=> i \in those \cup {k} /\ j = Len(messages[i].blocks)
             /\ i \in those \cup {k} => ~out[i].str
  <2>1. /\ Len(r[i].blocks) = Len(messages[i].blocks)
        /\ \A j \in 1..Len(messages[i].blocks) :
              r[i].blocks[j].marked <=> i \in those /\ j = Len(messages[i].blocks)
        /\ i \in those => ~r[i].str
    BY DEF MarkedAt
  <2>2. CASE i = k
    BY <1>3, <1>5, <2>1, <2>2
  <2>3. CASE i # k
    BY <1>5, <2>1, <2>3
  <2> QED BY <2>2, <2>3
<1>8. MarkedAt(out, messages, those \cup {k})
  BY <1>4, <1>7 DEF MarkedAt
<1> QED BY <1>6, <1>8

LEMMA MarksAre ==
    ASSUME NEW messages \in Seq(Messages), NEW those, NEW r, MarkedAt(r, messages, those)
    PROVE  Marks(r) = {<<i, Len(messages[i].blocks)>> : i \in those \cap (1..Len(messages))}
<1> DEFINE n == Len(messages)
           len(i) == Len(messages[i].blocks)
           of(i) == {i} \X {j \in 1..Len(r[i].blocks) : r[i].blocks[j].marked}
<1>1. Len(r) = n /\ \A i \in 1..n : /\ len(i) \in Nat /\ len(i) > 0 /\ Len(r[i].blocks) = len(i)
                                    /\ \A j \in 1..len(i) :
                                          r[i].blocks[j].marked <=> i \in those /\ j = len(i)
  <2>1. \A i \in 1..n : messages[i] \in Messages
    OBVIOUS
  <2>2. \A i \in 1..n : len(i) \in Nat /\ len(i) > 0
    BY <2>1, MessageParts
  <2> QED BY <2>2 DEF MarkedAt
<1> HIDE DEF n, len
<1>2. ASSUME NEW i \in 1..n PROVE of(i) = IF i \in those THEN {<<i, len(i)>>} ELSE {}
  <2>1. {j \in 1..Len(r[i].blocks) : r[i].blocks[j].marked} = IF i \in those THEN {len(i)} ELSE {}
    BY <1>1
  <2> QED BY <2>1
<1>3. Marks(r) = UNION {of(i) : i \in 1..n}
  BY <1>1 DEF Marks
<1> HIDE DEF of
<1>4. Marks(r) = {<<i, len(i)>> : i \in those \cap (1..n)}
  BY <1>2, <1>3
<1> QED BY <1>4 DEF n, len

\* A request's messages have at most three marks to begin with.
LEMMA MarksAreFinite ==
    ASSUME NEW messages \in Seq(Messages), NEW those, NEW r, MarkedAt(r, messages, those),
           those \subseteq {1, Len(messages) - 1, Len(messages)}
    PROVE  IsFiniteSet(Marks(r)) /\ Cardinality(Marks(r)) \in Nat
<1> DEFINE n == Len(messages)
           at(i) == <<i, Len(messages[i].blocks)>>
           S == ({at(1)} \cup {at(n - 1)}) \cup {at(n)}
<1>1. IsFiniteSet(S)
  <2>1. IsFiniteSet({at(1)})
    BY FS_Singleton
  <2>2. IsFiniteSet({at(1)} \cup {at(n - 1)})
    BY <2>1, FS_AddElement
  <2> QED BY <2>2, FS_AddElement
<1>2. Marks(r) \subseteq S
  BY MarksAre
<1> QED BY <1>1, <1>2, FS_Subset, FS_CardinalityType

\* A message is marked but one, unless it is already.
LEMMA InjectedMarks ==
    ASSUME NEW messages \in Seq(Messages), Len(messages) >= 2, NEW those,
           NEW r, MarkedAt(r, messages, those),
           those \subseteq {1, Len(messages) - 1, Len(messages)}
    PROVE  LET k   == Len(messages) - 1
               out == [r EXCEPT ![k] = MarkLast(@)]
           IN  /\ k \in 1..Len(messages)
               /\ MayMark(r) <=> k \notin those
               /\ Last(out[k].blocks).marked
               /\ k \in those => Last(r[k].blocks).marked
               /\ k \notin those => Cardinality(Marks(out)) = Cardinality(Marks(r)) + 1
<1> DEFINE n == Len(messages)
           k == n - 1
           out == [r EXCEPT ![k] = MarkLast(@)]
           l == Len(messages[k].blocks)
<1>1. n \in Nat /\ k \in 1..n /\ Len(r) = n /\ k = Len(r) - 1
  BY DEF MarkedAt
<1>2. messages[k] \in Messages /\ l \in Nat /\ l > 0
  <2>1. messages[k] \in Messages
    BY <1>1
  <2> QED BY <2>1, MessageParts
<1>3. MarkedAt(out, messages, those \cup {k})
  BY <1>1, MarkOneMore
<1> HIDE DEF out
<1>4. ASSUME NEW q, NEW marked, MarkedAt(q, messages, marked)
      PROVE  /\ q[k].blocks # <<>> /\ (k \in marked => ~q[k].str)
             /\ Last(q[k].blocks).marked <=> k \in marked
  <2>1. q[k] \in Messages /\ Len(q[k].blocks) = l
    <3>1. /\ q \in Seq(Messages) /\ Len(q) = n
          /\ \A i \in 1..n : Len(q[i].blocks) = Len(messages[i].blocks)
      BY <1>4 DEF MarkedAt
    <3> HIDE DEF k, n
    <3> QED BY <1>1, <3>1
  <2>2. l \in 1..l
    BY <1>2
  <2>3. Last(q[k].blocks) = q[k].blocks[l]
    BY <2>1 DEF Last
  <2>4. /\ q[k].blocks[l].marked <=> k \in marked
        /\ (k \in marked => ~q[k].str)
    BY <1>1, <1>4, <2>2 DEF MarkedAt
  <2> QED BY <2>1, <2>3, <2>4 DEF Messages
<1>5. Last(out[k].blocks).marked /\ (Last(r[k].blocks).marked <=> k \in those)
  BY <1>3, <1>4
<1>6. MayMark(r) <=> k \notin those
  <2>1. Len(r) >= 2
    BY <1>1
  <2>2. r[k].blocks # <<>> /\ (k \in those => ~r[k].str) /\ (Last(r[k].blocks).marked <=> k \in those)
    BY <1>4
  <2> HIDE DEF k, n
  <2>3. MayMark(r) <=> r[k].str \/ (r[k].blocks # <<>> /\ ~Last(r[k].blocks).marked)
    BY <1>1, <2>1 DEF MayMark
  <2> QED BY <2>2, <2>3
<1>7. ASSUME k \notin those PROVE Cardinality(Marks(out)) = Cardinality(Marks(r)) + 1
  <2> DEFINE at(i) == <<i, Len(messages[i].blocks)>>
  <2>1. Marks(r) = {at(i) : i \in those \cap (1..n)}
    BY MarksAre
  <2>2. Marks(out) = {at(i) : i \in (those \cup {k}) \cap (1..n)}
    BY <1>3, MarksAre
  <2>3. Marks(out) = Marks(r) \cup {at(k)}
    <3> HIDE DEF k, n, at
    <3> QED BY <1>1, <2>1, <2>2
  <2>4. at(k) \notin Marks(r)
    <3> HIDE DEF k, n
    <3> QED BY <1>7, <2>1
  <2>5. IsFiniteSet(Marks(r))
    BY MarksAreFinite
  <2> HIDE DEF at
  <2> QED BY <2>3, <2>4, <2>5, FS_AddElement
<1> QED BY <1>1, <1>5, <1>6, <1>7 DEF out, k, n

\* The conversation of an Anthropic request has no mark of the proxy's before.
LEMMA SentIsUnmarked ==
    ASSUME CleanerInv, sent # <<>>, provider = "anthropic"
    PROVE  sent \in Seq(Messages) /\ Unmarked(sent)
<1> DEFINE p == provider
           d == Dedup(history)
           n == PrefixLen(p, history)
           at == SuffixIdx(p, history)
<1>1. AlikeMessages(d, history)
  BY DeduplicatedIs DEF CleanerInv, SentInv
<1>2. d \in Seq(Messages) /\ Unmarked(d)
  <2> HIDE DEF d
  <2>1. /\ d \in Seq(Messages) /\ Len(d) = Len(history)
        /\ \A t \in 1..Len(history) : AlikeMessage(d[t], history[t])
    BY <1>1 DEF AlikeMessages
  <2>2. ASSUME NEW t \in 1..Len(history), NEW j \in 1..Len(d[t].blocks)
        PROVE  ~d[t].blocks[j].marked
    <3>1. /\ j \in 1..Len(history[t].blocks)
          /\ d[t].blocks[j].marked = history[t].blocks[j].marked
      BY <2>1, <2>2 DEF AlikeMessage, AlikeBlock
    <3>2. history[t].blocks[j] \in OriginalBlocks
      BY <2>2, <3>1, HistoryParts, SentParts DEF CleanerInv
    <3> QED BY <3>1, <3>2 DEF OriginalBlocks
  <2> QED BY <2>1, <2>2 DEF Unmarked
<1>3. CASE ~Summarized(p, history)
  BY <1>2, <1>3, SentIs
<1>4. CASE Summarized(p, history)
  <2> DEFINE s == Summarize(p, d)
  <2>1. sent = s /\ Shortened(s, d, n, at)
    BY <1>4, SentIs, SummarizedIs DEF OneByOne
  <2> HIDE DEF s, d, n, at
  <2>2. n \in 1..2 /\ at \in Nat /\ n < at /\ at < Len(d) /\ Len(d) \in Nat /\ Len(s) \in Nat
    BY <1>2, <2>1 DEF Shortened
  <2>3. ASSUME NEW i \in 1..Len(s), NEW j \in 1..Len(s[i].blocks) PROVE ~s[i].blocks[j].marked
    <3>1. CASE i <= n
      <4>1. i \in 1..n /\ i \in 1..Len(d)
        BY <2>2, <3>1
      <4> QED BY <1>2, <2>1, <2>3, <4>1 DEF Shortened, Unmarked
    <3>2. CASE i = n + 1
      <4>1. at - n \in Nat
        BY <2>2
      <4>2. s[i] = SummaryOf(at - n)
        BY <2>1, <3>2 DEF Shortened
      <4>3. Len(s[i].blocks) = 1 /\ s[i].blocks[1].marked = FALSE
        BY <4>1, <4>2, SummaryIs
      <4>4. j = 1
        BY <2>3, <4>3
      <4> QED BY <4>3, <4>4
    <3>3. CASE i > n + 1
      <4> DEFINE q == i - n - 1 + at
      <4>1. i \in (n + 2)..Len(s)
        BY <2>2, <3>3
      <4>2. q \in (at + 1)..Len(d) /\ s[i] = d[q]
        BY <2>1, <4>1 DEF Shortened
      <4>3. q \in 1..Len(d)
        BY <2>2, <4>2
      <4> HIDE DEF q
      <4> QED BY <1>2, <2>3, <4>2, <4>3 DEF Unmarked
    <3> QED BY <2>2, <3>1, <3>2, <3>3
  <2> QED BY <2>1, <2>3 DEF Shortened, Unmarked
<1> QED BY <1>3, <1>4

LEMMA MarksStep == ASSUME CleanerInv PROVE CacheMarksWithinLimit
<1> DEFINE n == Len(sent)
           request(those) == [i \in 1..n |-> IF i \in those THEN MarkLast(sent[i]) ELSE sent[i]]
<1>1. SUFFICES ASSUME provider = "anthropic", sent # <<>>,
                      NEW sys \in Systems, NEW tls \in ToolLists,
                      NEW those \in SUBSET {1, n - 1, n}
               PROVE  LET out    == Inject(sys, tls, request(those))
                          before == CountExisting(sys, tls, request(those))
                          after  == CountExisting(out.system, out.tools, out.messages)
                      IN  /\ after <= Max({4, before})
                          /\ after < 4 /\ n >= 2 => Last(out.messages[n - 1].blocks).marked
  BY DEF CacheMarksWithinLimit
<1>2. sent \in Seq(Messages) /\ Unmarked(sent) /\ n \in Nat
  BY <1>1, SentIsUnmarked
<1> DEFINE r == request(those)
           more == [r EXCEPT ![n - 1] = MarkLast(@)]
<1>3. MarkedAt(r, sent, those)
  BY <1>2, RequestIs
<1> HIDE DEF request
<1>4. Len(r) = n
  BY <1>3 DEF MarkedAt
<1> HIDE DEF r
<1> DEFINE c == Cardinality(Marks(r))
           s == IF sys = "marked" THEN 1 ELSE 0
           t == IF tls = "marked" THEN 1 ELSE 0
           before == CountExisting(sys, tls, r)
           out == Inject(sys, tls, r)
           after == CountExisting(out.system, out.tools, out.messages)
<1>5. c \in Nat
  BY <1>1, <1>2, <1>3, MarksAreFinite
<1>6. before = s + t + c
  BY DEF CountExisting
<1> DEFINE budget == 4 - before
           system == budget > 0 /\ sys \in {"string", "plain"}
           left == budget - (IF system THEN 1 ELSE 0)
           toolsToo == left > 0 /\ tls = "plain"
           rest == left - (IF toolsToo THEN 1 ELSE 0)
           mark == rest > 0 /\ MayMark(r)
           messages == IF mark THEN more ELSE r
<1>7. /\ out.system = IF system THEN "marked" ELSE sys
      /\ out.tools = IF toolsToo THEN "marked" ELSE tls
      /\ out.messages = messages
  BY <1>4 DEF Inject
<1> DEFINE s1 == IF system THEN 1 ELSE s
           t1 == IF toolsToo THEN 1 ELSE t
           c1 == IF mark THEN c + 1 ELSE c
<1>8. /\ (n >= 2 /\ mark => Cardinality(Marks(more)) = c + 1 /\ Last(more[n - 1].blocks).marked)
      /\ (n >= 2 /\ ~MayMark(r) => Last(r[n - 1].blocks).marked)
      /\ (MayMark(r) => n >= 2)
  <2>1. MayMark(r) => n >= 2
    BY <1>4 DEF MayMark
  <2>2. CASE n >= 2
    <3>1. /\ MayMark(r) <=> n - 1 \notin those
          /\ Last(more[n - 1].blocks).marked
          /\ n - 1 \in those => Last(r[n - 1].blocks).marked
          /\ n - 1 \notin those => Cardinality(Marks(more)) = c + 1
      BY <1>1, <1>2, <1>3, <2>2, InjectedMarks
    <3> HIDE DEF more, c, n
    <3> QED BY <2>1, <3>1 DEF mark
  <2> QED BY <2>1, <2>2
<1>9. after = s1 + t1 + c1
  <2>1. Cardinality(Marks(messages)) = c1
    <3> HIDE DEF more
    <3>1. CASE mark
      BY <1>8, <3>1
    <3>2. CASE ~mark
      BY <3>2
    <3> QED BY <3>1, <3>2
  <2>2. (IF out.system = "marked" THEN 1 ELSE 0) = s1
    <3> HIDE DEF out
    <3> QED BY <1>7 DEF Systems
  <2>3. (IF out.tools = "marked" THEN 1 ELSE 0) = t1
    <3> HIDE DEF out
    <3> QED BY <1>7 DEF ToolLists
  <2> HIDE DEF out, messages, c1, s1, t1
  <2> QED BY <1>7, <2>1, <2>2, <2>3 DEF CountExisting
<1>10. s \in 0..1 /\ t \in 0..1 /\ (system => s = 0) /\ (toolsToo => t = 0)
  OBVIOUS
<1> HIDE DEF c, s, t, before, after, out
<1>11. system \in BOOLEAN /\ toolsToo \in BOOLEAN /\ mark \in BOOLEAN
  BY DEF MayMark
<1>12. before \in Nat /\ after \in Nat /\ (after <= 4 \/ after = before)
       /\ (after < 4 => rest > 0)
  <2> DEFINE may == MayMark(r)
  <2> HIDE DEF may
  <2>1. CASE budget <= 0
    BY <1>5, <1>6, <1>9, <1>10, <2>1
  <2>2. CASE budget > 0
    BY <1>5, <1>6, <1>9, <1>10, <2>2
  <2> QED BY <1>5, <1>6, <1>10, <2>1, <2>2
<1>13. after <= Max({4, before})
  <2> DEFINE S == {4, before}
  <2>1. S \subseteq 0..(4 + before) /\ S # {} /\ 4 + before \in Nat /\ 4 \in S /\ before \in S
    BY <1>12
  <2>2. Max(S) >= 4 /\ Max(S) >= before /\ Max(S) \in S
    <3> HIDE DEF S
    <3> QED BY <2>1, MaxIsGreatest
  <2>3. Max(S) \in Nat
    BY <1>12, <2>2
  <2> DEFINE x == Max(S)
  <2> HIDE DEF x
  <2>4. after <= x
    BY <1>12, <2>2, <2>3 DEF x
  <2> QED BY <2>4 DEF x
<1>14. ASSUME after < 4, n >= 2 PROVE Last(out.messages[n - 1].blocks).marked
  <2>1. rest > 0
    BY <1>12, <1>14
  <2> HIDE DEF rest, more
  <2>2. CASE MayMark(r)
    BY <1>7, <1>8, <1>14, <2>1, <2>2
  <2>3. CASE ~MayMark(r)
    BY <1>7, <1>8, <1>14, <2>3
  <2> QED BY <2>2, <2>3
<1> QED BY <1>13, <1>14 DEF out, before, after, r
-----------------------------------------------------------------------------
(* The theorems. *)

(* Whatever conversation an agent has, tool calls keep their results in what *)
(* is sent to Anthropic, and to OpenAI while no calls are made in parallel   *)
(* (anthropic.py:135-152, openai.py:129-150).                                *)
THEOREM CallsAreKept == CleanSpec => []CallsKeepResults
BY CleanerAlways, CallsStep, PTL

(* While nothing is summarized, a content that was replaced names a turn     *)
(* that is sent, no later, and holds it in full (anthropic.py:31-132).       *)
THEOREM ReferencesAreResolved == CleanSpec => []ReferencesResolve
BY CleanerAlways, ReferencesStep, PTL

(* The newest message reaches the model as it was sent, at the end, and as   *)
(* many recent turns as configured stay turns of their own, with all their   *)
(* blocks in their order, none of the newest two a reference                 *)
(* (payload_cleaner.py:24, anthropic.py:127-132).                            *)
THEOREM RecentTurnsAreSent == CleanSpec => []RecentTurnsAreKept
<1>1. CleanerInv => RecentTurnsAreKept
  BY NewestStep, RecentStep DEF RecentTurnsAreKept
<1> QED BY <1>1, CleanerAlways, PTL

(* The proxy never takes the marks of an Anthropic request past four, and    *)
(* marks the message before the newest whenever there is room for it         *)
(* (anthropic.py:297-319).                                                   *)
THEOREM MarksAreLimited == CleanSpec => []CacheMarksWithinLimit
BY CleanerAlways, MarksStep, PTL
==============================================================================
