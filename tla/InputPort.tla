----------------------------- MODULE InputPort -----------------------------
(***************************************************************************)
(* A binary input port (lib/port.c): the stdio-like buffer of struct file  *)
(* between the read function of the port's type and the procedures         *)
(* read-u8, peek-u8 and read-bytevector!.  The count cnt serves as both    *)
(* the number of bytes left and, when getc_ takes it below zero, the       *)
(* signal to fill the buffer.                                              *)
(*                                                                         *)
(* Byte i of the source is the number i.  The read function may answer     *)
(* with any number of bytes the buffer has room for; with 0, the end of    *)
(* the input, even when more comes later (a terminal: file_read clears     *)
(* the end-of-file of the C stream); or with -1, an error.                 *)
(***************************************************************************)
EXTENDS File

CONSTANTS
  Length,  \* bytes in the source
  MaxWant  \* bound of the runs: bytes one read-bytevector! asks for

ASSUME InputAssumption == {Length, MaxWant} \subseteq Nat

VARIABLES
  pos,   \* bytes the read function has delivered
  buf,   \* what the buffer holds, from base
  ptr,   \* position of the next byte in the buffer
  cnt,   \* "characters left"
  flag,  \* subset of READ, EOF, ERR; empty once the port is closed
  got,   \* bytes the program has consumed
  need,  \* bytes a read-bytevector! still wants
  pc     \* "run", "fread" in its loop, "undefined" after a memcpy of cnt < 0

vars == <<pos, buf, ptr, cnt, flag, got, need, pc>>

Source(n) == [i \in 1 .. n |-> i]

\* Bytes i + 1 .. i + n of the buffer.
Bytes(i, n) == SubSeq(buf, i + 1, i + n)

Init ==
  /\ pos = 0 /\ buf = <<>> /\ ptr = 0 /\ cnt = 0
  /\ flag = {"READ"} /\ got = <<>> /\ need = 0 /\ pc = "run"

\* Mutant: fillbuf looks at the error flag only.
CanFillAtEOF == "READ" \in flag /\ "ERR" \notin flag

CanFill == flag = {"READ"}

\* What the read function may answer.
Answers == {n \in -1 .. BufSize : pos + n <= Length}

\* fillbuf got n; the first "used" bytes are consumed at once (one by getc_,
\* none when the byte is put back).
Fill(n, used) ==
  /\ ptr' = IF n > 0 THEN used ELSE 0
  /\ cnt' = IF n > 0 THEN n - used ELSE 0
  /\ pos' = IF n > 0 THEN pos + n ELSE pos
  /\ buf' = [i \in 1 .. (IF n > Len(buf) THEN n ELSE Len(buf)) |->
               IF i <= n THEN pos + i ELSE buf[i]]
  /\ flag' = flag \cup (IF n = 0 THEN {"EOF"} ELSE IF n < 0 THEN {"ERR"} ELSE {})

\* getc_ takes cnt below zero and fillbuf does nothing about it.
PastEnd ==
  /\ cnt <= 0 /\ ~CanFill
  /\ cnt > -MaxPast
  /\ cnt' = cnt - 1
  /\ UNCHANGED <<pos, buf, ptr, flag, got>>

Reading == pc = "run" /\ "READ" \in flag

ReadU8 ==
  /\ Reading
  /\ \/ /\ cnt > 0
        /\ got' = got \o Bytes(ptr, 1)
        /\ ptr' = ptr + 1 /\ cnt' = cnt - 1
        /\ UNCHANGED <<pos, buf, flag>>
     \/ /\ cnt <= 0 /\ CanFill
        /\ \E n \in Answers :
             /\ Fill(n, 1)
             /\ got' = IF n > 0 THEN Append(got, pos + 1) ELSE got
     \/ PastEnd
  /\ UNCHANGED <<need, pc>>

\* Mutant: the byte is not put back when the buffer was just filled.
PeekU8Taking ==
  /\ Reading
  /\ \/ cnt > 0 /\ UNCHANGED <<pos, buf, ptr, cnt, flag>>
     \/ cnt <= 0 /\ CanFill /\ \E n \in Answers : Fill(n, 1)
     \/ PastEnd
  /\ UNCHANGED <<got, need, pc>>

\* peek-u8 and the reader's peek: pic_fgetc, then pic_ungetc unless it was EOF.
PeekU8 ==
  /\ Reading
  /\ \/ cnt > 0 /\ UNCHANGED <<pos, buf, ptr, cnt, flag>>
     \/ cnt <= 0 /\ CanFill /\ \E n \in Answers : Fill(n, 0)
     \/ PastEnd
  /\ UNCHANGED <<got, need, pc>>

ReadBytevector ==
  /\ Reading
  /\ \E k \in 0 .. MaxWant : need' = k
  /\ pc' = "fread"
  /\ UNCHANGED <<pos, buf, ptr, cnt, flag, got>>

\* The loop of pic_fread, once more than cnt bytes are wanted.
CopyNegative ==
  /\ pc = "fread" /\ need > cnt /\ cnt < 0
  /\ pc' = "undefined"
  /\ UNCHANGED <<pos, buf, ptr, cnt, flag, got, need>>

\* Mutant: the loop goes on whatever fillbuf answers.
CopyAndFillForever ==
  /\ pc = "fread" /\ need > cnt /\ cnt >= 0
  /\ got' = got \o Bytes(ptr, cnt)
  /\ need' = need - cnt
  /\ \/ /\ CanFill
        /\ \E n \in Answers : Fill(n, 0) /\ pc' = pc
     \/ /\ ~CanFill
        /\ ptr' = ptr + cnt /\ pc' = pc
        /\ UNCHANGED <<pos, buf, cnt, flag>>

CopyAndFill ==
  /\ pc = "fread" /\ need > cnt /\ cnt >= 0
  /\ got' = got \o Bytes(ptr, cnt)
  /\ need' = need - cnt
  /\ \/ /\ CanFill
        /\ \E n \in Answers : Fill(n, 0) /\ pc' = IF n > 0 THEN "fread" ELSE "run"
     \/ /\ ~CanFill
        /\ ptr' = ptr + cnt /\ pc' = "run"
        /\ UNCHANGED <<pos, buf, cnt, flag>>

CopyRest ==
  /\ pc = "fread" /\ need <= cnt
  /\ got' = got \o Bytes(ptr, need)
  /\ ptr' = ptr + need /\ cnt' = cnt - need
  /\ need' = 0 /\ pc' = "run"
  /\ UNCHANGED <<pos, buf, flag>>

FRead == CopyNegative \/ CopyAndFill \/ CopyRest

\* pic_fclose frees the buffer; ptr and cnt are left as they are.  read does
\* not ask whether the port is open (ext/read.c:773): its use of them is not
\* modelled.
Close ==
  /\ Reading
  /\ flag' = {}
  /\ UNCHANGED <<pos, buf, ptr, cnt, got, need, pc>>

Next == ReadU8 \/ PeekU8 \/ ReadBytevector \/ FRead \/ Close

Spec == Init /\ [][Next]_vars

\* pic_fread is a loop of C code over a read function that returns.
FairSpec == Spec /\ WF_vars(FRead)

-----------------------------------------------------------------------------
(* The next byte and the cnt bytes from it on lie in the buffer.           *)
TypeOK ==
  /\ pos \in 0 .. Length /\ buf \in Seq(1 .. Length) /\ Len(buf) <= BufSize
  /\ cnt \in -MaxPast .. BufSize /\ ptr \in Nat
  /\ cnt > 0 => ptr + cnt <= Len(buf)
  /\ flag \subseteq {"READ", "EOF", "ERR"} /\ got \in Seq(1 .. Length)
  /\ need \in 0 .. MaxWant /\ pc \in {"run", "fread", "undefined"}

(* What the program has read, followed by what is left in the buffer, is   *)
(* the source as far as it was delivered: peeking, short reads and mixing  *)
(* bytes with bytevectors neither lose nor repeat nor reorder a byte.      *)
(* And TypeOK.                                                             *)
InOrder ==
  /\ TypeOK
  /\ "READ" \in flag => got \o Bytes(ptr, cnt) = Source(pos)

(* Once the end of the input or an error was met the port stays there: no  *)
(* byte is read afterwards, even from a source that could go on.           *)
EndIsFinal ==
  [][flag \cap {"EOF", "ERR"} # {} => pos' = pos /\ got' = got]_vars

(* read-bytevector! returns, however short the reads of the source are.    *)
ReadEnds == pc = "fread" ~> pc # "fread"

(* "characters left": pic_fread copies cnt bytes, so cnt is not negative   *)
(* there.  It is after two reads at the end of the input.                  *)
CharactersLeft == pc = "fread" => cnt >= 0
=============================================================================
