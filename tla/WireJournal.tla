---------------------------- MODULE WireJournal ----------------------------
(***************************************************************************)
(* What the wire log promises its readers: every accepted record is        *)
(* settled once, in the order of acceptance, either written to the journal *)
(* or dropped; a crash drops what waits.  The journal only grows.          *)
(***************************************************************************)
EXTENDS Naturals, Sequences

CONSTANT Records

VARIABLES state, waiting, journal

vars == <<state, waiting, journal>>

Init ==
    /\ state = [r \in Records |-> "new"]
    /\ waiting = <<>>
    /\ journal = <<>>

Accept(r) ==
    /\ state[r] = "new"
    /\ state' = [state EXCEPT ![r] = "waiting"]
    /\ waiting' = Append(waiting, r)
    /\ UNCHANGED journal

Refuse(r) ==
    /\ state[r] = "new"
    /\ state' = [state EXCEPT ![r] = "dropped"]
    /\ UNCHANGED <<waiting, journal>>

Settle(outcome) ==
    /\ waiting # <<>>
    /\ state' = [state EXCEPT ![Head(waiting)] = outcome]
    /\ waiting' = Tail(waiting)
    /\ journal' = IF outcome = "written" THEN Append(journal, Head(waiting)) ELSE journal

Crash ==
    /\ \E refused \in SUBSET {r \in Records : state[r] = "new"} :
          state' = [r \in Records |->
                       IF state[r] = "waiting" \/ r \in refused THEN "dropped" ELSE state[r]]
    /\ waiting' = <<>>
    /\ UNCHANGED journal

Next ==
    \/ \E r \in Records : Accept(r) \/ Refuse(r)
    \/ \E outcome \in {"written", "dropped"} : Settle(outcome)
    \/ Crash

Spec == Init /\ [][Next]_vars
=============================================================================
