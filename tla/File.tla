-------------------------------- MODULE File --------------------------------
(***************************************************************************)
(* What an input and an output port share (struct file of lib/port.c): the *)
(* size of the buffer and the count cnt, "characters left", which getc_    *)
(* and putc_ take below zero when there is nothing to read, or no room.    *)
(***************************************************************************)
EXTENDS Integers, FiniteSets, Sequences

CONSTANTS
  BufSize, \* PIC_BUFSIZ
  MaxPast  \* bound of the runs: bytes asked for, or written, past the end

ASSUME FileAssumption ==
  /\ MaxPast \in Nat
  /\ BufSize \in Nat \ {0}
=============================================================================
