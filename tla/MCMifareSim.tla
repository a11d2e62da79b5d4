---------------------------- MODULE MCMifareSim -----------------------------
(***************************************************************************)
(* Constants of MifareSim for TLC.                                         *)
(***************************************************************************)
EXTENDS MifareSim

MCTrailers == {[a |-> 0, b |-> 0, acd |-> 0, act |-> 1, val |-> -1],
               [a |-> 1, b |-> 1, acd |-> 6, act |-> 3, val |-> -1]}
MCPlain == {<<"plain", 0>>}
=============================================================================
