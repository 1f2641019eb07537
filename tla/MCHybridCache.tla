---------------------------- MODULE MCHybridCache ----------------------------
(* Small instances of HybridCache for TLC: plan and ask are two wordings of   *)
(* one prompt, persona is ask under another system prompt, mirror is ask sent *)
(* to another provider, blank has no user words and is unlike all others.     *)
EXTENDS HybridCache, TLC

CONSTANTS
    plan, ask, persona, blank, mirror,
    reader,        \* the process that also looks up, where there are two
    MaxRows        \* bound on the rows of the table, where it is bounded

MCProvider == [k \in Keys |-> IF k = mirror THEN "anthropic" ELSE "openai"]
MCSystem == [k \in Keys |-> IF k = persona THEN "other" ELSE "usual"]
MCTokenless == Keys \cap {blank}
MCSimilar ==
    {pair \in Keys \X Keys : pair[1] = pair[2] \/ blank \notin {pair[1], pair[2]}}

\* Of the tables of many keys, those with few rows.
FewRows == Cardinality(Present) <= MaxRows

\* Two processes of which one only stores, sweeps and clears while the other does
\* everything; a sweep that has begun goes on.
Storing(p) == Put(p) \/ Clear(p) \/ Fail(p)
SharedNext ==
    \/ \E p \in Procs : Storing(p) \/ (p = reader /\ Get(p))
    \/ Tick
SharedSpec == Init /\ [][SharedNext]_vars /\ \A p \in Procs : WF_vars(Sweep(p))
=============================================================================
