------------------------------ MODULE MCCalls ------------------------------
(***************************************************************************)
(* For TLC: call frames with a short VM stack, and, apart from them, the   *)
(* ways in and out of C functions with few activations, and dynamic-wind   *)
(* with few calls.                                                         *)
(***************************************************************************)
EXTENDS Frames, Control, Winds, TLC

VARIABLE part

PartInit == Init /\ ControlInit /\ WindInit /\ part \in {"frames", "control", "winds"}

PartNext ==
  /\ UNCHANGED part
  /\ \/ part = "frames" /\ Next /\ UNCHANGED <<controlVars, windVars>>
     \/ part = "control" /\ ControlNext /\ UNCHANGED <<vars, windVars>>
     \/ part = "winds" /\ WindNext /\ UNCHANGED <<vars, controlVars>>

PartSpec == PartInit /\ [][PartNext]_<<vars, part, controlVars, windVars>>

Symmetric == Permutations(Val) \cup Permutations(Addr)
=============================================================================
