------------------------------ MODULE MCWireLog ------------------------------
(***************************************************************************)
(* Small instances of WireLog for TLC: a loop and another caller, with two *)
(* records and a crash, or the loop alone with an append that may hang.    *)
(* Callers are interchangeable and so are records, so the first dump is    *)
(* that of the first record by the first caller (TLC's own symmetry would  *)
(* not do for liveness).                                                   *)
(***************************************************************************)
EXTENDS WireLogInv

FirstCaller == CHOOSE c \in Callers : TRUE
FirstRecord == CHOOSE r \in Records : TRUE

FirstComesFirst ==
    \A r \in Records :
        (\A q \in Records : future[q] = "none") /\ future'[r] # "none"
            => r = FirstRecord /\ arg'[FirstCaller] = r
=============================================================================
