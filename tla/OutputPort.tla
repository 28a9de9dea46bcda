----------------------------- MODULE OutputPort ----------------------------
(***************************************************************************)
(* An output port (lib/port.c): the buffer of struct file between write-u8 *)
(* (and everything printed, which goes through pic_fputc), write-bytevector *)
(* and pic_vfprintf, and the write function of the port's type.  Here cnt, *)
(* the variable ocnt, is the room left in the buffer, less the place putc_ *)
(* keeps for the byte that makes it overflow.                              *)
(*                                                                         *)
(* The bytes the program writes are numbered.  The write function may take *)
(* any part of what it is offered, at least one byte, or fail; pic_malloc  *)
(* does not return without memory and no code sets FILE_LNBUF, so ports    *)
(* are never unbuffered nor line buffered.                                 *)
(***************************************************************************)
EXTENDS File

CONSTANTS
  MaxWrite, \* bound of the runs: bytes one write-bytevector writes
  MaxBytes  \* bound of the runs: bytes the program writes in all

ASSUME OutputAssumption == {MaxWrite, MaxBytes} \subseteq Nat

VARIABLES
  sound, \* whether the write function is one that never fails
  total, \* bytes the program has written
  obuf,   \* what the buffer holds, from base up to ptr
  ocnt,   \* "characters left"
  base,  \* whether the buffer is allocated
  oflag,  \* subset of WRITE, ERR; empty once the port is closed
  out,   \* bytes the write function has taken
  oneed,  \* bytes a write-bytevector has not copied yet
  opc     \* "run", "fwrite" in its loop, "undefined" after a memcpy out of bounds

outputVars == <<sound, total, obuf, ocnt, base, oflag, out, oneed, opc>>

\* The n bytes from number i + 1 on.
Numbered(i, n) == [j \in 1 .. n |-> i + j]

OutputInit ==
  /\ sound \in BOOLEAN
  /\ total = 0 /\ obuf = <<>> /\ ocnt = 0 /\ base = FALSE
  /\ oflag = {"WRITE"} /\ out = <<>> /\ oneed = 0 /\ opc = "run"

CanFlush == oflag = {"WRITE"}

\* How many of the bytes s the write loop of flushbuf can get rid of: all, or
\* those before the write function fails; what is left is then lost.
Taken(s) == {n \in 0 .. Len(s) : n < Len(s) => ~sound}

\* Mutant: cnt is left at zero, as pic_fseek leaves it.
DrainNoRoom(s) ==
  \E n \in Taken(s) :
    /\ out' = out \o SubSeq(s, 1, n)
    /\ oflag' = IF n < Len(s) THEN oflag \cup {"ERR"} ELSE oflag
    /\ obuf' = <<>> /\ ocnt' = 0 /\ base' = TRUE

\* flushbuf, for a buffer that holds s.
Drain(s) ==
  \E n \in Taken(s) :
    /\ out' = out \o SubSeq(s, 1, n)
    /\ oflag' = IF n < Len(s) THEN oflag \cup {"ERR"} ELSE oflag
    /\ obuf' = <<>> /\ ocnt' = BufSize - 1 /\ base' = TRUE

\* The check of the procedures for bytes.  display and the other printing
\* procedures have none (ext/write.c:558-596): printing to a closed port or to
\* an input port is not modelled.
Writing == opc = "run" /\ "WRITE" \in oflag

\* pic_fputc: putc_, which leaves the byte that does not fit to flushbuf.
WriteU8 ==
  /\ Writing
  /\ total < MaxBytes
  /\ total' = total + 1
  /\ \/ /\ ocnt > 0
        /\ ocnt' = ocnt - 1
        /\ obuf' = Append(obuf, total + 1)
        /\ UNCHANGED <<base, oflag, out>>
     \/ /\ ocnt <= 0 /\ CanFlush
        /\ Drain(Append(obuf, total + 1))
     \/ /\ ocnt <= 0 /\ ~CanFlush
        /\ ocnt > -MaxPast
        /\ ocnt' = ocnt - 1
        /\ UNCHANGED <<obuf, base, oflag, out>>
  /\ UNCHANGED <<oneed, opc, sound>>

WriteBytevector ==
  /\ Writing
  /\ \E k \in 1 .. MaxWrite : total + k <= MaxBytes /\ oneed' = k
  /\ opc' = "fwrite"
  /\ UNCHANGED <<total, obuf, ocnt, base, oflag, out, sound>>

\* The loop of pic_fwrite and the one around it, once more than cnt bytes are
\* left.  flushbuf(EOF) never says that it succeeded, so pic_fwrite returns and
\* write-bytevector calls it again.  The copy is undefined when cnt is negative
\* or the buffer does not have room for cnt bytes.
OutOfBounds == ocnt < 0 \/ Len(obuf) + (IF oneed > ocnt THEN ocnt ELSE oneed) > BufSize

CopyOutOfBounds ==
  /\ opc = "fwrite" /\ OutOfBounds
  /\ opc' = "undefined"
  /\ UNCHANGED <<total, obuf, ocnt, base, oflag, out, oneed, sound>>

CopyAndFlush ==
  /\ opc = "fwrite" /\ ~OutOfBounds /\ oneed > ocnt
  /\ total' = total + ocnt /\ oneed' = oneed - ocnt
  /\ \/ CanFlush /\ Drain(obuf \o Numbered(total, ocnt))
     \/ /\ ~CanFlush
        /\ obuf' = obuf \o Numbered(total, ocnt)
        /\ UNCHANGED <<ocnt, base, oflag, out>>
  /\ UNCHANGED <<opc, sound>>

CopyLast ==
  /\ opc = "fwrite" /\ ~OutOfBounds /\ oneed <= ocnt
  /\ obuf' = obuf \o Numbered(total, oneed)
  /\ total' = total + oneed /\ ocnt' = ocnt - oneed
  /\ oneed' = 0 /\ opc' = "run"
  /\ UNCHANGED <<base, oflag, out, sound>>

FWrite == CopyOutOfBounds \/ CopyAndFlush \/ CopyLast

\* flush-output-port and get-output-bytevector: pic_fflush.
Flush ==
  /\ Writing
  /\ CanFlush
  /\ Drain(obuf)
  /\ UNCHANGED <<total, oneed, opc, sound>>

\* Mutant: pic_fseek empties the buffer without writing it.
SeekDropping ==
  /\ Writing
  /\ obuf' = <<>> /\ ocnt' = 0
  /\ UNCHANGED <<total, base, oflag, out, oneed, opc, sound>>

\* pic_fseek, with which pic_vfprintf begins and ends: the buffer is flushed
\* and left with no room, so that the next byte goes through flushbuf.
Seek ==
  /\ Writing
  /\ obuf' = <<>> /\ ocnt' = 0
  /\ \/ /\ CanFlush
        /\ \E n \in Taken(obuf) :
             /\ out' = out \o SubSeq(obuf, 1, n)
             /\ oflag' = IF n < Len(obuf) THEN oflag \cup {"ERR"} ELSE oflag
        /\ base' = TRUE
     \/ ~CanFlush /\ UNCHANGED <<base, oflag, out>>
  /\ UNCHANGED <<total, oneed, opc, sound>>

\* Mutant: the port is closed without a flush.
CloseDropping ==
  /\ Writing
  /\ oflag' = {} /\ obuf' = <<>> /\ ocnt' = 0 /\ base' = FALSE
  /\ UNCHANGED <<total, out, oneed, opc, sound>>

\* pic_fclose: pic_fflush, then the buffer is freed.
CloseOutput ==
  /\ Writing
  /\ oflag' = {} /\ obuf' = <<>> /\ ocnt' = 0 /\ base' = FALSE
  /\ \/ /\ CanFlush
        /\ \E n \in Taken(obuf) : out' = out \o SubSeq(obuf, 1, n)
     \/ ~CanFlush /\ UNCHANGED out
  /\ UNCHANGED <<total, oneed, opc, sound>>

OutputNext == WriteU8 \/ WriteBytevector \/ FWrite \/ Flush \/ Seek \/ CloseOutput

OutputSpec == OutputInit /\ [][OutputNext]_outputVars

\* The loops of write-bytevector are C code over a write function that returns.
OutputFairSpec == OutputSpec /\ WF_outputVars(FWrite)

-----------------------------------------------------------------------------
(* At most cnt more bytes fit the buffer, and all fields have their type.  *)
OutputTypeOK ==
  /\ sound \in BOOLEAN /\ total \in 0 .. MaxBytes /\ obuf \in Seq(1 .. MaxBytes)
  /\ ocnt \in -MaxPast .. BufSize - 1 /\ base \in BOOLEAN
  /\ oflag \subseteq {"WRITE", "ERR"} /\ out \in Seq(1 .. MaxBytes)
  /\ oneed \in 0 .. MaxWrite /\ opc \in {"run", "fwrite", "undefined"}

\* Whatever fails, the sink has a prefix of what was written: after a lost
\* byte nothing follows, neither later writes nor the flush of a close.
SinkHasPrefix == Len(out) <= total /\ out = Numbered(0, Len(out))

\* Until something fails the buffer has room for cnt bytes and one more.
RoomForOne ==
  oflag = {"WRITE"} => ocnt >= 0 /\ (base => Len(obuf) + ocnt + 1 <= BufSize)

(* What the write function took followed by the buffer is what the program *)
(* wrote, as long as nothing failed: bytes and bytevectors, flushes, seeks *)
(* and the buffer filling up in the middle of a bytevector lose nothing,   *)
(* repeat nothing and reorder nothing, and the buffer never overflows.     *)
(* Whatever fails, the sink has a prefix of what was written.  And TypeOK. *)
NothingLost ==
  /\ OutputTypeOK
  /\ oflag = {"WRITE"} => out \o obuf = Numbered(0, total)
  /\ SinkHasPrefix /\ RoomForOne

(* A port over a sink that does not fail has delivered everything when it  *)
(* is closed, by the program or by the finalizer.                          *)
ClosedIsComplete == oflag = {} /\ sound => out = Numbered(0, total)

(* write-bytevector returns if the sink does not fail, though pic_fwrite   *)
(* reports each flush as a failure.                                        *)
WriteEnds == sound /\ opc = "fwrite" ~> opc # "fwrite"

=============================================================================
