----------------------------- MODULE MCSessions -----------------------------
(***************************************************************************)
(* The two machines a session goes through before its agent runs: the      *)
(* proxy container (ProxyLifecycle) and the CA directory (CaStore).  They  *)
(* share no variable, so a behaviour of one with the other at rest is all  *)
(* there is to check: `part` says which of them moves.                     *)
(***************************************************************************)
EXTENDS ProxyLifecycle, CaStore

VARIABLE part

MCInit == LifeInit /\ CaInit /\ part \in {"proxy", "ca"}

\* The machine at rest has one of its initial states only.  A docker rm -f that
\* may fail is tried with commands one after the other, queries that may fail
\* with those and with commands that overlap, a copy that cannot be written with
\* processes one after the other: a docker that can fail may also not fail.
MCStart ==
    /\ MCInit
    /\ part = "proxy" => alone /\ disk /\ serial # obeys /\ (reads => serial)
    /\ part = "ca" => (alone \/ disk) /\ serial /\ obeys /\ reads /\ container.up = "none"

\* Commands are interchangeable: the first is the one that begins first.
First == CHOOSE c \in Commands : TRUE
FirstComesFirst == (\E c \in Commands : cmd[c].stage # "unborn") => cmd[First].stage # "unborn"

\* Commands that overlap need the endpoint on a port of theirs, or none.
OneEndpointOverlaps == serial \/ \A c \in Commands : cmd[c].target \subseteq Ports

MCNext ==
    \/ /\ part = "proxy" /\ LifeNext /\ FirstComesFirst' /\ OneEndpointOverlaps'
       /\ UNCHANGED <<part, caVars>>
    \/ part = "ca" /\ CaNext /\ UNCHANGED <<part, lifeVars>>

MCSpec == MCStart /\ [][MCNext]_<<part, lifeVars, caVars>> /\ LifeFairness
=============================================================================
