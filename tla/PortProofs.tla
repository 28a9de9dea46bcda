----------------------------- MODULE PortProofs ----------------------------
(***************************************************************************)
(* Proofs about InputPort and OutputPort, for a source of any length, any  *)
(* number of bytes written and a buffer of any size.  Input: no byte is    *)
(* lost, repeated or reordered, and none is read once the end of the input *)
(* or an error was met.  Output: whatever fails the sink has a prefix of   *)
(* what was written, while nothing failed no byte is lost and the buffer   *)
(* does not overflow, and a port over a sink that does not fail is         *)
(* complete when it is closed.                                             *)
(***************************************************************************)
EXTENDS InputPort, OutputPort, SequenceTheorems, TLAPS

\* The bytes of the source.
Number == 1 .. Length

\* "characters left", as long as getc_ has not taken it below zero.
Left == IF cnt > 0 THEN cnt ELSE 0

(* The program has read the source from its beginning, and the bytes left  *)
(* in the buffer are those that come next.                                 *)
BytesInPlace ==
  /\ Len(got) + Left = pos
  /\ \A i \in 1 .. Len(got) : got[i] = i
  /\ \A i \in 1 .. Left : buf[ptr + i] = Len(got) + i

(* At the end of the input and after an error nothing is left to read; and *)
(* pic_fread runs on open ports only.                                      *)
IInv ==
  /\ TypeOK
  /\ "READ" \in flag => BytesInPlace
  /\ flag \cap {"EOF", "ERR"} # {} => cnt <= 0
  /\ pc = "fread" => "READ" \in flag

-----------------------------------------------------------------------------
(* The operators.                                                          *)

(* What the buffer holds from base + i on.                                 *)
LEMMA BytesProperties ==
  ASSUME TypeOK, NEW i \in Nat, NEW n \in Int, i + n <= Len(buf)
  PROVE  /\ Bytes(i, n) \in Seq(Number)
         /\ Len(Bytes(i, n)) = IF n > 0 THEN n ELSE 0
         /\ \A j \in 1 .. n : Bytes(i, n)[j] = buf[i + j]
<1>1. buf \in Seq(Number) /\ Len(buf) \in Nat
  BY DEF TypeOK, Number
<1>2. \A j \in (i + 1) .. (i + n) : buf[j] \in Number
  <2>1. \A j \in (i + 1) .. (i + n) : j \in 1 .. Len(buf)
    BY <1>1
  <2>. QED
    BY <1>1, <2>1
<1>3. /\ SubSeq(buf, i + 1, i + n) \in Seq(Number)
      /\ Len(SubSeq(buf, i + 1, i + n)) =
           IF i + 1 <= i + n THEN (i + n) - (i + 1) + 1 ELSE 0
      /\ \A j \in 1 .. (i + n) - (i + 1) + 1 :
           SubSeq(buf, i + 1, i + n)[j] = buf[i + 1 + j - 1]
  BY <1>2, SubSeqProperties
<1>4. (i + n) - (i + 1) + 1 = n /\ \A j \in Int : i + 1 + j - 1 = i + j
  OBVIOUS
<1>. QED
  BY <1>3, <1>4 DEF Bytes

(* Consuming n of the bytes that are left.                                 *)
LEMMA TakeBytes ==
  ASSUME IInv, "READ" \in flag, NEW n \in Nat, n <= Left
  PROVE  /\ got \o Bytes(ptr, n) \in Seq(Number)
         /\ Len(got \o Bytes(ptr, n)) = Len(got) + n
         /\ \A i \in 1 .. Len(got) + n : (got \o Bytes(ptr, n))[i] = i
<1>1. /\ cnt \in Int /\ ptr \in Nat /\ Len(got) \in Nat /\ got \in Seq(Number)
      /\ Len(buf) \in Nat
      /\ (cnt > 0 => ptr + cnt <= Len(buf))
  BY FileAssumption DEF IInv, TypeOK, Number
<1>2. CASE n = 0
  <2>1. Bytes(ptr, n) = <<>>
    BY <1>1, <1>2, SubSeqEmpty DEF Bytes
  <2>2. got \o Bytes(ptr, n) = got
    BY <1>1, <2>1, ConcatEmptySeq
  <2>3. \A i \in 1 .. Len(got) : got[i] = i
    BY DEF IInv, BytesInPlace
  <2>4. Len(got) + n = Len(got)
    BY <1>1, <1>2
  <2>. QED
    BY <1>1, <2>2, <2>3, <2>4
<1>3. CASE n > 0
  <2>1. cnt > 0 /\ ptr + n <= Len(buf)
    BY <1>1, <1>3 DEF Left
  <2>2. /\ Bytes(ptr, n) \in Seq(Number) /\ Len(Bytes(ptr, n)) = n
        /\ \A j \in 1 .. n : Bytes(ptr, n)[j] = buf[ptr + j]
    BY <1>1, <1>3, <2>1, BytesProperties DEF IInv
  <2>3. \A j \in 1 .. n : Bytes(ptr, n)[j] = Len(got) + j
    <3>1. \A j \in 1 .. n : j \in 1 .. Left
      BY <1>1 DEF Left
    <3>. QED
      BY <2>2, <3>1 DEF IInv, BytesInPlace
  <2>4. \A i \in 1 .. Len(got) : got[i] = i
    BY DEF IInv, BytesInPlace
  <2> DEFINE b == Bytes(ptr, n)
  <2> HIDE DEF b
  <2>5. /\ got \o b \in Seq(Number) /\ Len(got \o b) = Len(got) + n
        /\ \A i \in 1 .. Len(got) + n : (got \o b)[i] =
             IF i <= Len(got) THEN got[i] ELSE b[i - Len(got)]
    <3>1. b \in Seq(Number) /\ Len(b) = n
      BY <2>2 DEF b
    <3>2. /\ got \o b \in Seq(Number) /\ Len(got \o b) = Len(got) + Len(b)
          /\ \A i \in 1 .. Len(got) + Len(b) : (got \o b)[i] =
               IF i <= Len(got) THEN got[i] ELSE b[i - Len(got)]
      BY <1>1, <3>1, ConcatProperties
    <3>. QED
      BY <3>1, <3>2
  <2>6. ASSUME NEW i \in 1 .. Len(got) + n
        PROVE  (got \o b)[i] = i
    <3>1. CASE i <= Len(got)
      BY <2>4, <2>5, <3>1
    <3>2. CASE i > Len(got)
      <4>1. i - Len(got) \in 1 .. n /\ Len(got) + (i - Len(got)) = i
        BY <1>1, <3>2
      <4>. QED
        BY <1>1, <2>3, <2>5, <3>2, <4>1 DEF b
    <3>3. i <= Len(got) \/ i > Len(got)
      BY <1>1
    <3>. QED
      BY <3>1, <3>2, <3>3
  <2>. QED
    BY <2>5, <2>6 DEF b
<1>. QED
  BY <1>2, <1>3

(* fillbuf puts the next bytes of the source into the buffer.              *)
LEMMA FillsInOrder ==
  ASSUME IInv, CanFill, NEW n \in Answers, NEW used \in 0 .. 1, Fill(n, used)
  PROVE  /\ pos' \in 0 .. Length /\ buf' \in Seq(Number) /\ Len(buf') <= BufSize
         /\ cnt' \in 0 .. BufSize /\ ptr' \in Nat
         /\ (cnt' > 0 => ptr' + cnt' <= Len(buf'))
         /\ flag' \subseteq {"READ", "EOF", "ERR"} /\ "READ" \in flag'
         /\ flag' \cap {"EOF", "ERR"} # {} <=> n <= 0
         /\ n > 0 => /\ cnt' = n - used /\ ptr' = used /\ pos' = pos + n
                     /\ \A i \in 1 .. n : buf'[i] = pos + i
         /\ n <= 0 => cnt' = 0 /\ pos' = pos
<1>1. /\ n \in Int /\ n <= BufSize /\ pos + n <= Length /\ pos \in Nat /\ pos <= Length
      /\ buf \in Seq(Number) /\ Len(buf) \in Nat /\ Len(buf) <= BufSize
      /\ Length \in Nat /\ BufSize \in Nat /\ used \in Nat
  BY FileAssumption, InputAssumption DEF IInv, TypeOK, Answers, Number
<1> DEFINE m == IF n > Len(buf) THEN n ELSE Len(buf)
           f == [i \in 1 .. m |-> IF i <= n THEN pos + i ELSE buf[i]]
<1>2. m \in Nat /\ m <= BufSize /\ n <= m
  BY <1>1
<1>3. ASSUME NEW i \in 1 .. m
      PROVE  (IF i <= n THEN pos + i ELSE buf[i]) \in Number
  <2>1. CASE i <= n
    BY <1>1, <1>2, <2>1 DEF Number
  <2>2. CASE i > n
    <3>1. i \in 1 .. Len(buf)
      BY <1>1, <1>2, <2>2
    <3>. QED
      BY <1>1, <1>2, <2>2, <3>1
  <2>. QED
    BY <1>1, <1>2, <2>1, <2>2 DEF Number
<1>4. buf' = f
  BY DEF Fill
<1> HIDE DEF m
<1>5. f \in Seq(Number) /\ Len(f) = m
  BY <1>2, <1>3
<1>6. n > 0 => \A i \in 1 .. n : buf'[i] = pos + i
  BY <1>1, <1>2, <1>4
<1>7. flag' = flag \cup (IF n = 0 THEN {"EOF"} ELSE IF n < 0 THEN {"ERR"} ELSE {})
      /\ flag = {"READ"}
  BY DEF Fill, CanFill
<1>8. CASE n > 0
  <2>1. ptr' = used /\ cnt' = n - used /\ pos' = pos + n
    BY <1>8 DEF Fill
  <2>. QED
    BY <1>1, <1>2, <1>4, <1>5, <1>6, <1>7, <1>8, <2>1
<1>9. CASE n <= 0
  <2>1. ptr' = 0 /\ cnt' = 0 /\ pos' = pos
    BY <1>1, <1>9 DEF Fill
  <2>2. /\ buf' \in Seq(Number) /\ Len(buf') <= BufSize
    BY <1>2, <1>4, <1>5
  <2>3. flag' \subseteq {"READ", "EOF", "ERR"} /\ "READ" \in flag'
    BY <1>7
  <2>4. flag' \cap {"EOF", "ERR"} # {}
    <3>1. n = 0 \/ n < 0
      BY <1>1, <1>9
    <3>. QED
      BY <1>7, <3>1
  <2>5. pos' \in 0 .. Length /\ cnt' \in 0 .. BufSize /\ ptr' \in Nat /\ ~(cnt' > 0) /\ ~(n > 0)
    BY <1>1, <1>9, <2>1
  <2>. QED
    BY <1>9, <2>1, <2>2, <2>3, <2>4, <2>5
<1>. QED
  BY <1>1, <1>8, <1>9

-----------------------------------------------------------------------------
(* The actions.                                                            *)

(* The fields that no property but TypeOK speaks of.                       *)
Rest == need \in 0 .. MaxWant /\ pc \in {"run", "fread", "undefined"}

(* Bytes are in place after any step that consumes some of those left.     *)
LEMMA TakingKeeps ==
  ASSUME IInv, "READ" \in flag, NEW n \in Nat, n <= Left, cnt >= 0,
         got' = got \o Bytes(ptr, n), ptr' = ptr + n, cnt' = cnt - n,
         UNCHANGED <<pos, buf, flag>>, Rest'
  PROVE  IInv'
<1>1. /\ cnt \in Int /\ cnt <= BufSize /\ ptr \in Nat /\ Len(got) \in Nat /\ Left = cnt
      /\ cnt > 0 => ptr + cnt <= Len(buf)
      /\ MaxPast \in Nat /\ BufSize \in Nat /\ Len(buf) \in Nat
  BY FileAssumption DEF IInv, TypeOK, Left
<1>2. /\ got' \in Seq(Number) /\ Len(got') = Len(got) + n
      /\ \A i \in 1 .. Len(got) + n : got'[i] = i
  BY TakeBytes
<1>3. cnt' = cnt - n /\ cnt' >= 0 /\ Left' = cnt - n
  BY <1>1 DEF Left
<1>4. TypeOK'
  <2>1. cnt' \in -MaxPast .. BufSize /\ ptr' \in Nat /\ (cnt' > 0 => ptr' + cnt' <= Len(buf'))
    BY <1>1, <1>3
  <2>. QED
    BY <1>2, <2>1 DEF IInv, TypeOK, Rest, Number
<1>5. BytesInPlace'
  <2>1. Len(got) + Left = pos /\ \A i \in 1 .. Left : buf[ptr + i] = Len(got) + i
    BY DEF IInv, BytesInPlace
  <2>2. Len(got') + Left' = pos'
    BY <1>1, <1>2, <1>3, <2>1
  <2>3. ASSUME NEW i \in 1 .. (cnt - n)
        PROVE  buf[ptr + n + i] = Len(got) + n + i
    <3>1. n + i \in 1 .. Left /\ ptr + (n + i) = ptr + n + i /\ Len(got) + (n + i) = Len(got) + n + i
      BY <1>1
    <3>. QED
      BY <2>1, <3>1
  <2>. QED
    BY <1>2, <1>3, <2>2, <2>3 DEF BytesInPlace
<1>6. flag' \cap {"EOF", "ERR"} # {} => cnt' <= 0
  BY <1>1, <1>3 DEF IInv
<1>. QED
  BY <1>4, <1>5, <1>6 DEF IInv

(* getc_ past the end of the input only counts.                            *)
LEMMA PastEndKeeps ==
  ASSUME IInv, PastEnd, UNCHANGED <<need, pc>>
  PROVE  IInv'
<1>1. /\ cnt \in Int /\ cnt <= 0 /\ cnt' = cnt - 1 /\ cnt > -MaxPast
      /\ MaxPast \in Nat /\ BufSize \in Nat
  BY FileAssumption DEF IInv, TypeOK, PastEnd
<1>2. UNCHANGED <<pos, buf, ptr, flag, got, need, pc>>
  BY DEF PastEnd
<1>3. Left = 0 /\ Left' = 0
  BY <1>1 DEF Left
<1>4. TypeOK'
  <2>1. cnt' \in -MaxPast .. BufSize /\ ~(cnt' > 0)
    BY <1>1
  <2>. QED
    BY <1>2, <2>1 DEF IInv, TypeOK
<1>5. "READ" \in flag => BytesInPlace'
  BY <1>2, <1>3 DEF IInv, BytesInPlace
<1>. QED
  BY <1>1, <1>2, <1>4, <1>5 DEF IInv

(* A fresh buffer follows what has been read when nothing is left of the   *)
(* one before.                                                             *)
LEMMA FillingKeeps ==
  ASSUME IInv, CanFill, NEW n \in Answers, NEW used \in 0 .. 1, Fill(n, used),
         NEW g \in Seq(Number), Len(g) = pos, \A i \in 1 .. Len(g) : g[i] = i,
         got' = IF used = 1 /\ n > 0 THEN Append(g, pos + 1) ELSE g,
         Rest'
  PROVE  IInv'
<1>1. /\ n \in Int /\ n <= BufSize /\ pos + n <= Length /\ pos \in Nat
      /\ MaxPast \in Nat /\ BufSize \in Nat /\ Length \in Nat
  BY FileAssumption, InputAssumption DEF IInv, TypeOK, Answers
<1>2. /\ pos' \in 0 .. Length /\ buf' \in Seq(Number) /\ Len(buf') <= BufSize
      /\ cnt' \in 0 .. BufSize /\ ptr' \in Nat
      /\ (cnt' > 0 => ptr' + cnt' <= Len(buf'))
      /\ flag' \subseteq {"READ", "EOF", "ERR"} /\ "READ" \in flag'
      /\ flag' \cap {"EOF", "ERR"} # {} <=> n <= 0
      /\ n > 0 => /\ cnt' = n - used /\ ptr' = used /\ pos' = pos + n
                  /\ \A i \in 1 .. n : buf'[i] = pos + i
      /\ n <= 0 => cnt' = 0 /\ pos' = pos
  BY FillsInOrder
<1>3. Left' = cnt'
  BY <1>1, <1>2 DEF Left
<1>4. CASE used = 1 /\ n > 0
  <2>1. got' = Append(g, pos + 1) /\ pos + 1 \in Number
    BY <1>1, <1>4 DEF Number
  <2>2. /\ got' \in Seq(Number) /\ Len(got') = pos + 1
        /\ \A i \in 1 .. pos : got'[i] = i
        /\ got'[pos + 1] = pos + 1
    BY <2>1, AppendProperties
  <2>3. \A i \in 1 .. Len(got') : got'[i] = i
    BY <1>1, <2>2
  <2>4. ASSUME NEW i \in 1 .. (n - 1)
        PROVE  buf'[1 + i] = pos + 1 + i
    <3>1. 1 + i \in 1 .. n /\ pos + (1 + i) = pos + 1 + i
      BY <1>1
    <3>. QED
      BY <1>2, <1>4, <3>1
  <2>5. BytesInPlace'
    <3>1. cnt' = n - 1 /\ ptr' = 1 /\ pos' = pos + n /\ Left' = n - 1
      BY <1>2, <1>3, <1>4
    <3>2. Len(got') + Left' = pos'
      BY <1>1, <2>2, <3>1
    <3>. QED
      BY <2>2, <2>3, <2>4, <3>1, <3>2 DEF BytesInPlace
  <2>6. TypeOK'
    BY <1>1, <1>2, <2>2 DEF TypeOK, Rest, Number
  <2>. QED
    BY <1>2, <1>4, <2>5, <2>6 DEF IInv
<1>5. CASE ~(used = 1 /\ n > 0)
  <2>1. got' = g
    BY <1>5
  <2>2. n > 0 => used = 0
    BY <1>5
  <2>3. TypeOK'
    BY SMTT(30), <1>1, <1>2, <2>1 DEF TypeOK, Rest, Number
  <2>4. CASE n > 0
    <3>1. cnt' = n /\ ptr' = 0 /\ pos' = pos + n
      BY <1>1, <1>2, <2>2, <2>4
    <3>2. \A i \in 1 .. n : buf'[0 + i] = pos + i
      BY <1>2, <2>4
    <3>3. BytesInPlace'
      BY <1>1, <1>3, <2>1, <3>1, <3>2 DEF BytesInPlace
    <3>. QED
      BY <1>2, <2>3, <2>4, <3>3 DEF IInv
  <2>5. CASE n <= 0
    <3>1. cnt' = 0 /\ pos' = pos
      BY <1>2, <2>5
    <3>2. BytesInPlace'
      BY <1>1, <1>3, <2>1, <3>1 DEF BytesInPlace
    <3>. QED
      BY <1>2, <2>3, <3>1, <3>2 DEF IInv
  <2>. QED
    BY <1>1, <2>4, <2>5
<1>. QED
  BY <1>4, <1>5

(* read-u8, peek-u8 and each turn of read-bytevector!.                     *)
LEMMA NextKeepsIInv ==
  ASSUME IInv, Next
  PROVE  IInv'
<1>1. /\ cnt \in Int /\ ptr \in Nat /\ pos \in Nat /\ need \in Nat /\ need <= MaxWant
      /\ got \in Seq(Number) /\ Len(got) \in Nat /\ MaxWant \in Nat /\ Rest
  BY FileAssumption, InputAssumption DEF IInv, TypeOK, Rest, Number
<1>2. cnt <= 0 => Left = 0
  BY <1>1 DEF Left
<1>3. cnt >= 0 => Left = cnt
  BY <1>1 DEF Left
<1>4. CanFill => "READ" \in flag
  BY DEF CanFill
<1>5. ASSUME "READ" \in flag, cnt <= 0
      PROVE  Len(got) = pos /\ \A i \in 1 .. Len(got) : got[i] = i
  BY <1>1, <1>2, <1>5 DEF IInv, BytesInPlace
<1>6. CASE ReadU8
  <2>1. Rest' /\ UNCHANGED <<need, pc>> /\ "READ" \in flag
    BY <1>1, <1>6 DEF ReadU8, Reading, Rest
  <2>2. CASE /\ cnt > 0
             /\ got' = got \o Bytes(ptr, 1) /\ ptr' = ptr + 1 /\ cnt' = cnt - 1
             /\ UNCHANGED <<pos, buf, flag>>
    <3>1. 1 \in Nat /\ 1 <= Left /\ cnt >= 0
      BY <1>1, <1>3, <2>2
    <3>. QED
      BY <2>1, <2>2, <3>1, TakingKeeps
  <2>3. ASSUME cnt <= 0, CanFill, NEW n \in Answers, Fill(n, 1),
               got' = IF n > 0 THEN Append(got, pos + 1) ELSE got
        PROVE  IInv'
    <3>1. got' = IF 1 = 1 /\ n > 0 THEN Append(got, pos + 1) ELSE got
      BY <2>3
    <3>2. Len(got) = pos /\ (\A i \in 1 .. Len(got) : got[i] = i) /\ 1 \in 0 .. 1
      BY <1>5, <2>1, <2>3
    <3>. QED
      BY <1>1, <2>1, <2>3, <3>1, <3>2, FillingKeeps
  <2>4. CASE PastEnd
    BY <2>1, <2>4, PastEndKeeps
  <2>. QED
    BY <1>6, <2>2, <2>3, <2>4 DEF ReadU8
<1>7. CASE PeekU8
  <2>1. Rest' /\ UNCHANGED <<got, need, pc>> /\ "READ" \in flag
    BY <1>1, <1>7 DEF PeekU8, Reading, Rest
  <2>2. CASE cnt > 0 /\ UNCHANGED <<pos, buf, ptr, cnt, flag>>
    BY <2>1, <2>2 DEF IInv, TypeOK, BytesInPlace, Left
  <2>3. ASSUME cnt <= 0, CanFill, NEW n \in Answers, Fill(n, 0)
        PROVE  IInv'
    <3>1. got' = IF 0 = 1 /\ n > 0 THEN Append(got, pos + 1) ELSE got
      BY <2>1
    <3>2. Len(got) = pos /\ (\A i \in 1 .. Len(got) : got[i] = i) /\ 0 \in 0 .. 1
      BY <1>5, <2>1, <2>3
    <3>. QED
      BY <1>1, <2>1, <2>3, <3>1, <3>2, FillingKeeps
  <2>4. CASE PastEnd
    BY <2>1, <2>4, PastEndKeeps
  <2>. QED
    BY <1>7, <2>2, <2>3, <2>4 DEF PeekU8
<1>8. CASE ReadBytevector
  <2>1. Rest' /\ UNCHANGED <<pos, buf, ptr, cnt, flag, got>> /\ "READ" \in flag
    BY <1>8 DEF ReadBytevector, Reading, Rest
  <2>. QED
    BY <2>1 DEF IInv, TypeOK, BytesInPlace, Left, Rest
<1>9. CASE CopyNegative
  <2>1. pc' = "undefined" /\ UNCHANGED <<pos, buf, ptr, cnt, flag, got, need>>
    BY <1>9 DEF CopyNegative
  <2>. QED
    BY <2>1 DEF IInv, TypeOK, BytesInPlace, Left
<1>10. CASE CopyAndFill
  <2>1. /\ cnt >= 0 /\ cnt \in Nat /\ cnt <= Left /\ need' = need - cnt /\ "READ" \in flag
        /\ got' = got \o Bytes(ptr, cnt) /\ pc' \in {"fread", "run"}
    BY <1>1, <1>3, <1>10 DEF CopyAndFill, IInv
  <2>2. Rest'
    BY <1>1, <1>10, <2>1 DEF CopyAndFill, Rest
  <2>3. ASSUME CanFill, NEW n \in Answers, Fill(n, 0)
        PROVE  IInv'
    <3>1. /\ got' \in Seq(Number) /\ Len(got') = Len(got) + cnt
          /\ \A i \in 1 .. Len(got) + cnt : got'[i] = i
      BY <2>1, TakeBytes
    <3>2. Len(got') = pos
      BY <1>3, <2>1, <3>1 DEF IInv, BytesInPlace
    <3>3. PICK g \in Seq(Number) : g = got'
      BY <3>1
    <3>4. Len(g) = pos /\ \A i \in 1 .. Len(g) : g[i] = i
      BY <3>1, <3>2, <3>3
    <3>5. got' = IF 0 = 1 /\ n > 0 THEN Append(g, pos + 1) ELSE g
      BY <3>3
    <3>6. 0 \in 0 .. 1
      OBVIOUS
    <3>. QED
      BY <2>2, <2>3, <3>4, <3>5, <3>6, FillingKeeps
  <2>4. CASE ~CanFill
    <3>1. flag \cap {"EOF", "ERR"} # {}
      BY <2>1, <2>4 DEF CanFill, IInv, TypeOK
    <3>2. cnt = 0
      BY <1>1, <2>1, <3>1 DEF IInv
    <3>3. ptr' = ptr + cnt /\ cnt' = cnt - cnt /\ UNCHANGED <<pos, buf, flag>>
      BY <1>10, <2>4, <3>2 DEF CopyAndFill
    <3>. QED
      BY <2>1, <2>2, <3>3, TakingKeeps
  <2>. QED
    BY <1>10, <2>3, <2>4 DEF CopyAndFill
<1>11. CASE CopyRest
  <2>1. /\ pc = "fread" /\ need <= cnt /\ got' = got \o Bytes(ptr, need)
        /\ ptr' = ptr + need /\ cnt' = cnt - need /\ need' = 0 /\ pc' = "run"
        /\ UNCHANGED <<pos, buf, flag>>
    BY <1>11 DEF CopyRest
  <2>2. "READ" \in flag /\ cnt >= 0 /\ need <= Left
    BY <1>1, <1>3, <2>1 DEF IInv
  <2>3. Rest'
    BY <1>1, <2>1 DEF Rest
  <2>. QED
    BY <1>1, <2>1, <2>2, <2>3, TakingKeeps
<1>12. CASE Close
  <2>1. flag' = {} /\ UNCHANGED <<pos, buf, ptr, cnt, got, need, pc>> /\ pc = "run"
    BY <1>12 DEF Close, Reading
  <2>2. TypeOK'
    BY <2>1, FileAssumption DEF IInv, TypeOK
  <2>. QED
    BY <2>1, <2>2 DEF IInv
<1>. QED
  BY <1>6, <1>7, <1>8, <1>9, <1>10, <1>11, <1>12 DEF Next, FRead

(* The invariant holds in every state.                                     *)
THEOREM InputInvariant == Spec => []IInv
<1>1. Init => IInv
  BY FileAssumption, InputAssumption
     DEF Init, IInv, TypeOK, BytesInPlace, Left
<1>2. ASSUME IInv, UNCHANGED vars
      PROVE  IInv'
  BY <1>2 DEF vars, IInv, TypeOK, BytesInPlace, Left
<1>. QED
  BY <1>1, <1>2, NextKeepsIInv, PTL DEF Spec

(* What the program has read, followed by what is left in the buffer, is   *)
(* the source as far as it was delivered.                                  *)
THEOREM ReadsInOrder == Spec => []InOrder
<1>1. ASSUME IInv, "READ" \in flag
      PROVE  got \o Bytes(ptr, cnt) = Source(pos)
  <2>1. /\ cnt \in Int /\ ptr \in Nat /\ pos \in Nat /\ Left \in Nat /\ pos <= Length
        /\ got \in Seq(Number) /\ Len(got) \in Nat /\ Length \in Nat
    BY <1>1, FileAssumption, InputAssumption DEF IInv, TypeOK, Number, Left
  <2>2. Bytes(ptr, cnt) = Bytes(ptr, Left)
    <3>1. CASE cnt > 0
      BY <3>1 DEF Left
    <3>2. CASE cnt <= 0
      <4>1. ptr + cnt < ptr + 1 /\ ptr + 0 < ptr + 1 /\ Left = 0
        BY <2>1, <3>2 DEF Left
      <4>2. Bytes(ptr, cnt) = <<>> /\ Bytes(ptr, 0) = <<>>
        BY <2>1, <4>1, SubSeqEmpty DEF Bytes
      <4>. QED
        BY <4>1, <4>2
    <3>. QED
      BY <2>1, <3>1, <3>2
  <2>3. /\ got \o Bytes(ptr, Left) \in Seq(Number)
        /\ Len(got \o Bytes(ptr, Left)) = Len(got) + Left
        /\ \A i \in 1 .. Len(got) + Left : (got \o Bytes(ptr, Left))[i] = i
    BY <1>1, <2>1, TakeBytes
  <2>4. Len(got) + Left = pos
    BY <1>1 DEF IInv, BytesInPlace
  <2>5. Source(pos) \in Seq(Number) /\ Len(Source(pos)) = pos
        /\ \A i \in 1 .. pos : Source(pos)[i] = i
    BY <2>1 DEF Source, Number
  <2>6. PICK s \in Seq(Number) : s = got \o Bytes(ptr, Left)
    BY <2>3
  <2>7. Len(s) = pos /\ \A i \in 1 .. pos : s[i] = i
    BY <2>3, <2>4, <2>6
  <2>8. s = Source(pos)
    BY <2>5, <2>7, SeqEqual
  <2>. QED
    BY <2>2, <2>6, <2>8
<1>2. IInv => InOrder
  BY <1>1 DEF InOrder, IInv
<1>. QED
  BY <1>2, InputInvariant, PTL

(* Once the end of the input or an error was met, no step delivers a byte  *)
(* or reads one.                                                           *)
THEOREM EndStaysFinal == Spec => EndIsFinal
<1>1. ASSUME IInv, [Next]_vars, flag \cap {"EOF", "ERR"} # {}
      PROVE  pos' = pos /\ got' = got
  <2>1. /\ cnt \in Int /\ cnt <= 0 /\ ptr \in Nat /\ need \in Nat
        /\ got \in Seq(Number) /\ ~CanFill
    BY <1>1, FileAssumption, InputAssumption DEF IInv, TypeOK, CanFill, Number
  <2>2. got \o Bytes(ptr, 0) = got
    <3>1. ptr + 0 < ptr + 1
      BY <2>1
    <3>2. Bytes(ptr, 0) = <<>>
      BY <2>1, <3>1, SubSeqEmpty DEF Bytes
    <3>. QED
      BY <2>1, <3>2, ConcatEmptySeq
  <2>3. CASE ReadU8
    BY <2>1, <2>3 DEF ReadU8, PastEnd
  <2>4. CASE PeekU8
    BY <2>1, <2>4 DEF PeekU8, PastEnd
  <2>5. CASE ReadBytevector \/ CopyNegative \/ Close \/ UNCHANGED vars
    BY <2>5 DEF ReadBytevector, CopyNegative, Close, vars
  <2>6. CASE CopyAndFill
    <3>1. cnt = 0
      BY <2>1, <2>6 DEF CopyAndFill
    <3>. QED
      BY <2>1, <2>2, <2>6, <3>1 DEF CopyAndFill
  <2>7. CASE CopyRest
    <3>1. need = 0
      BY <2>1, <2>7 DEF CopyRest
    <3>. QED
      BY <2>2, <2>7, <3>1 DEF CopyRest
  <2>. QED
    BY <1>1, <2>3, <2>4, <2>5, <2>6, <2>7 DEF Next, FRead
<1>2. IInv /\ [Next]_vars
        => [flag \cap {"EOF", "ERR"} # {} => pos' = pos /\ got' = got]_vars
  BY <1>1
<1>. QED
  BY <1>2, InputInvariant, PTL DEF Spec, EndIsFinal

-----------------------------------------------------------------------------
(* Output ports.                                                           *)

\* The bytes the program writes.
OutputNumber == 1 .. MaxBytes

\* s is the bytes from number i + 1 on.
From(s, i) == \A j \in 1 .. Len(s) : s[j] = i + j

(* The sink has the first bytes written, and the buffer those that follow. *)
OutputInPlace ==
  /\ From(out, 0) /\ Len(out) <= total
  /\ oflag = {"WRITE"} => Len(out) + Len(obuf) = total /\ From(obuf, Len(out))

(* The loops of write-bytevector run on open ports and do not write more   *)
(* bytes than they were given; a sink that does not fail sets no error     *)
(* flag; and closing left nothing in the buffer.                           *)
OutputIInv ==
  /\ OutputTypeOK
  /\ OutputInPlace /\ RoomForOne
  /\ opc = "fwrite" => "WRITE" \in oflag /\ total + oneed <= MaxBytes
  /\ sound => "ERR" \notin oflag
  /\ sound /\ oflag = {} => Len(out) = total

-----------------------------------------------------------------------------
(* The operators.                                                          *)

(* The types of the fields, for the provers.                               *)
LEMMA FieldTypes ==
  ASSUME OutputIInv
  PROVE  /\ total \in Nat /\ total <= MaxBytes /\ MaxBytes \in Nat
         /\ obuf \in Seq(OutputNumber) /\ Len(obuf) \in Nat
         /\ out \in Seq(OutputNumber) /\ Len(out) \in Nat
         /\ ocnt \in Int /\ ocnt >= -MaxPast /\ ocnt <= BufSize - 1
         /\ oneed \in Nat /\ oneed <= MaxWrite
         /\ BufSize \in Nat /\ BufSize > 0 /\ MaxPast \in Nat /\ MaxWrite \in Nat
<1>1. OutputTypeOK
  BY DEF OutputIInv
<1>2. obuf \in Seq(OutputNumber) /\ out \in Seq(OutputNumber)
  BY <1>1 DEF OutputTypeOK, OutputNumber
<1>. QED
  BY <1>1, <1>2, FileAssumption, OutputAssumption DEF OutputTypeOK

(* A sequence of consecutive bytes followed by the next ones.              *)
LEMMA JoinBytes ==
  ASSUME NEW i \in Nat, NEW s \in Seq(OutputNumber), NEW t \in Seq(OutputNumber),
         From(s, i), From(t, i + Len(s))
  PROVE  s \o t \in Seq(OutputNumber) /\ Len(s \o t) = Len(s) + Len(t) /\ From(s \o t, i)
<1>1. Len(s) \in Nat /\ Len(t) \in Nat
  OBVIOUS
<1>2. /\ s \o t \in Seq(OutputNumber) /\ Len(s \o t) = Len(s) + Len(t)
      /\ \A j \in 1 .. Len(s) + Len(t) :
           (s \o t)[j] = IF j <= Len(s) THEN s[j] ELSE t[j - Len(s)]
  BY ConcatProperties
<1>3. ASSUME NEW j \in 1 .. Len(s) + Len(t)
      PROVE  (s \o t)[j] = i + j
  <2>1. CASE j <= Len(s)
    <3>1. j \in 1 .. Len(s)
      BY <1>1, <2>1
    <3>. QED
      BY <1>2, <2>1, <3>1 DEF From
  <2>2. CASE j > Len(s)
    <3>1. /\ j - Len(s) \in 1 .. Len(t) /\ ~(j <= Len(s))
          /\ i + Len(s) + (j - Len(s)) = i + j
      BY <1>1, <2>2
    <3>2. t[j - Len(s)] = i + Len(s) + (j - Len(s))
      BY <3>1 DEF From
    <3>. QED
      BY <1>2, <3>1, <3>2
  <2>3. j <= Len(s) \/ j > Len(s)
    BY <1>1
  <2>. QED
    BY <2>1, <2>2, <2>3
<1>. QED
  BY <1>2, <1>3 DEF From

(* The first bytes of consecutive ones.                                    *)
LEMMA FirstBytes ==
  ASSUME NEW i \in Nat, NEW s \in Seq(OutputNumber), From(s, i), NEW n \in 0 .. Len(s)
  PROVE  SubSeq(s, 1, n) \in Seq(OutputNumber) /\ Len(SubSeq(s, 1, n)) = n /\ From(SubSeq(s, 1, n), i)
<1>1. n \in Nat /\ Len(s) \in Nat /\ n <= Len(s)
  OBVIOUS
<1>2. \A j \in 1 .. n : j \in 1 .. Len(s) /\ s[j] \in OutputNumber
  BY <1>1
<1>3. /\ SubSeq(s, 1, n) \in Seq(OutputNumber)
      /\ Len(SubSeq(s, 1, n)) = IF 1 <= n THEN n - 1 + 1 ELSE 0
      /\ \A j \in 1 .. n - 1 + 1 : SubSeq(s, 1, n)[j] = s[1 + j - 1]
  BY <1>1, <1>2, SubSeqProperties
<1>4. Len(SubSeq(s, 1, n)) = n
  BY <1>1, <1>3
<1>5. ASSUME NEW j \in 1 .. n
      PROVE  SubSeq(s, 1, n)[j] = i + j
  <2>1. j \in 1 .. n - 1 + 1 /\ 1 + j - 1 = j
    BY <1>1
  <2>. QED
    BY <1>2, <1>3, <2>1 DEF From
<1>. QED
  BY <1>3, <1>4, <1>5 DEF From

(* The bytes write-bytevector copies.                                      *)
LEMMA NumberedBytes ==
  ASSUME NEW i \in Nat, NEW n \in Nat, MaxBytes \in Nat, i + n <= MaxBytes
  PROVE  Numbered(i, n) \in Seq(OutputNumber) /\ Len(Numbered(i, n)) = n /\ From(Numbered(i, n), i)
<1>1. \A j \in 1 .. n : i + j \in OutputNumber
  BY DEF OutputNumber
<1>2. Numbered(i, n) \in Seq(OutputNumber) /\ Len(Numbered(i, n)) = n
  BY <1>1 DEF Numbered
<1>. QED
  BY <1>2 DEF From, Numbered

(* Consecutive bytes from the first on are what Numbered says.             *)
LEMMA AllNumbered ==
  ASSUME NEW s \in Seq(OutputNumber), From(s, 0), Len(s) <= MaxBytes, MaxBytes \in Nat
  PROVE  s = Numbered(0, Len(s))
<1>1. Len(s) \in Nat /\ 0 + Len(s) <= MaxBytes
  OBVIOUS
<1>2. /\ Numbered(0, Len(s)) \in Seq(OutputNumber) /\ Len(Numbered(0, Len(s))) = Len(s)
      /\ From(Numbered(0, Len(s)), 0)
  BY <1>1, NumberedBytes
<1>. QED
  BY <1>2, SeqEqual DEF From

-----------------------------------------------------------------------------
(* The actions.                                                            *)

\* What the fields of a write-bytevector that is under way must be.
LoopInPlace ==
  /\ oneed \in 0 .. MaxWrite /\ opc \in {"run", "fwrite", "undefined"}
  /\ opc = "fwrite" => "WRITE" \in oflag /\ total + oneed <= MaxBytes

(* Bytes are put into the buffer while there is room for them.             *)
LEMMA PutKeeps ==
  ASSUME OutputIInv, CanFlush, NEW k \in Nat, k <= ocnt, total + k <= MaxBytes,
         NEW b \in Seq(OutputNumber), Len(b) = k, From(b, total),
         obuf' = obuf \o b, total' = total + k, ocnt' = ocnt - k,
         UNCHANGED <<base, oflag, out, sound>>, LoopInPlace'
  PROVE  OutputIInv'
<1>1. oflag = {"WRITE"} /\ oflag' = {"WRITE"}
  BY DEF CanFlush
<1>2. /\ Len(out) + Len(obuf) = total /\ From(obuf, Len(out))
      /\ From(out, 0) /\ Len(out) <= total
  BY <1>1 DEF OutputIInv, OutputInPlace
<1>3. /\ obuf' \in Seq(OutputNumber) /\ Len(obuf') = Len(obuf) + k
      /\ From(obuf', Len(out))
  <2>1. From(b, Len(out) + Len(obuf)) /\ obuf \in Seq(OutputNumber) /\ Len(out) \in Nat
    BY <1>2, FieldTypes
  <2>2. /\ obuf \o b \in Seq(OutputNumber) /\ Len(obuf \o b) = Len(obuf) + Len(b)
        /\ From(obuf \o b, Len(out))
    BY ZenonT(30), <1>2, <2>1, JoinBytes
  <2>. QED
    BY <2>2
<1>4. ocnt' \in -MaxPast .. BufSize - 1 /\ ocnt' >= 0 /\ total' \in 0 .. MaxBytes
  BY SMTT(30), FieldTypes
<1>5. OutputTypeOK'
  BY <1>3, <1>4 DEF OutputIInv, OutputTypeOK, LoopInPlace, OutputNumber
<1>6. OutputInPlace'
  <2>1. Len(out') + Len(obuf') = total' /\ Len(out') <= total'
    BY SMTT(30), <1>2, <1>3, FieldTypes
  <2>2. From(out', 0) /\ From(obuf', Len(out'))
    BY <1>2, <1>3
  <2>. QED
    BY <2>1, <2>2 DEF OutputInPlace, From
<1>7. RoomForOne'
  <2>1. base => Len(obuf) + ocnt + 1 <= BufSize
    BY <1>1 DEF OutputIInv, RoomForOne
  <2>2. base' => Len(obuf') + ocnt' + 1 <= BufSize
    BY SMTT(30), <1>3, <2>1, FieldTypes
  <2>. QED
    BY <1>4, <2>2 DEF RoomForOne
<1>. QED
  BY <1>1, <1>5, <1>6, <1>7 DEF OutputIInv, LoopInPlace

(* flushbuf sends what the buffer holds, s, as far as the sink takes it.   *)
LEMMA FlushKeeps ==
  ASSUME OutputIInv, CanFlush, NEW s \in Seq(OutputNumber), NEW t \in Nat, t <= MaxBytes, total <= t,
         Len(out) + Len(s) = t, From(s, Len(out)), NEW n \in Taken(s),
         out' = out \o SubSeq(s, 1, n), total' = t, obuf' = <<>>,
         oflag' = {} \/ oflag' = IF n < Len(s) THEN oflag \cup {"ERR"} ELSE oflag,
         ocnt' \in 0 .. BufSize - 1, base' \in BOOLEAN, sound' = sound, LoopInPlace'
  PROVE  OutputIInv'
<1>1. oflag = {"WRITE"} /\ oflag' \subseteq {"WRITE", "ERR"}
  BY DEF CanFlush
<1>2. n \in 0 .. Len(s) /\ (n < Len(s) => ~sound) /\ n \in Nat /\ Len(s) \in Nat
  BY DEF Taken
<1>3. /\ SubSeq(s, 1, n) \in Seq(OutputNumber) /\ Len(SubSeq(s, 1, n)) = n
      /\ From(SubSeq(s, 1, n), Len(out))
  BY <1>2, FieldTypes, FirstBytes
<1>4. From(out, 0) /\ 0 + Len(out) = Len(out)
  BY FieldTypes DEF OutputIInv, OutputInPlace
<1>5. out' \in Seq(OutputNumber) /\ Len(out') = Len(out) + n /\ From(out', 0)
  <2>1. PICK b \in Seq(OutputNumber) : b = SubSeq(s, 1, n)
    BY <1>3
  <2>2. From(b, 0 + Len(out)) /\ Len(b) = n /\ out' = out \o b /\ 0 \in Nat
    BY <1>3, <1>4, <2>1
  <2>3. out \in Seq(OutputNumber) /\ From(out, 0)
    BY <1>4, FieldTypes
  <2>4. out \o b \in Seq(OutputNumber) /\ Len(out \o b) = Len(out) + Len(b) /\ From(out \o b, 0)
    BY ZenonT(30), <2>2, <2>3, JoinBytes
  <2>. QED
    BY <2>2, <2>4
<1>6. OutputTypeOK'
  <2>1. ocnt' \in -MaxPast .. BufSize - 1 /\ total' \in 0 .. MaxBytes
    BY FieldTypes
  <2>2. obuf' \in Seq(1 .. MaxBytes) /\ out' \in Seq(1 .. MaxBytes)
    BY <1>5 DEF OutputNumber
  <2>. QED
    BY <1>1, <2>1, <2>2 DEF OutputIInv, OutputTypeOK, LoopInPlace
<1>7. Len(out') <= total'
  BY SMTT(30), <1>2, <1>5, FieldTypes
<1>8. n = Len(s) => Len(out') = total' /\ Len(out') + Len(obuf') = total'
  BY <1>5, FieldTypes
<1>9. oflag' = {"WRITE"} => n = Len(s)
  <2>1. ASSUME n < Len(s)
        PROVE  oflag' # {"WRITE"}
    <3>1. oflag' = {} \/ "ERR" \in oflag'
      BY <2>1
    <3>. QED
      BY <3>1
  <2>. QED
    BY <1>2, <2>1
<1>10. OutputInPlace'
  <2>1. From(obuf', Len(out'))
    BY DEF From
  <2>. QED
    BY <1>5, <1>7, <1>8, <1>9, <2>1 DEF OutputInPlace, From
<1>11. RoomForOne'
  <2>1. Len(obuf') + ocnt' + 1 <= BufSize /\ ocnt' >= 0
    BY SMTT(30), FieldTypes
  <2>. QED
    BY <2>1 DEF RoomForOne
<1>12. sound' => n = Len(s)
  BY <1>2
<1>13. sound' => "ERR" \notin oflag'
  BY <1>1, <1>2, <1>12
<1>. QED
  BY <1>6, <1>8, <1>10, <1>11, <1>12, <1>13 DEF OutputIInv, LoopInPlace

(* After a failure bytes go nowhere.                                       *)
LEMMA FailedKeeps ==
  ASSUME OutputIInv, ~CanFlush, "WRITE" \in oflag, obuf' \in Seq(OutputNumber),
         total' \in 0 .. MaxBytes, total <= total', ocnt' \in -MaxPast .. BufSize - 1,
         UNCHANGED <<out, sound>>, oflag' = oflag \/ oflag' = {}, base' \in BOOLEAN,
         LoopInPlace'
  PROVE  OutputIInv'
<1>1. oflag # {"WRITE"} /\ oflag' # {"WRITE"}
  BY DEF CanFlush
<1>2. ~sound
  BY <1>1 DEF OutputIInv, OutputTypeOK
<1>3. OutputTypeOK'
  BY DEF OutputIInv, OutputTypeOK, LoopInPlace, OutputNumber
<1>4. OutputInPlace'
  <2>1. Len(out) <= total'
    <3>1. Len(out) <= total /\ total' \in Nat
      BY FieldTypes DEF OutputIInv, OutputInPlace
    <3>. QED
      BY <3>1, FieldTypes
  <2>. QED
    BY <1>1, <2>1 DEF OutputIInv, OutputInPlace, From
<1>5. RoomForOne'
  BY <1>1 DEF RoomForOne
<1>. QED
  BY <1>2, <1>3, <1>4, <1>5 DEF OutputIInv, LoopInPlace

(* Every step keeps the invariant.                                         *)
LEMMA OutputNextKeeps ==
  ASSUME OutputIInv, OutputNext
  PROVE  OutputIInv'
<1>1. opc \in {"run", "fwrite", "undefined"} /\ LoopInPlace /\ base \in BOOLEAN
  BY DEF OutputIInv, OutputTypeOK, LoopInPlace
<1>2. CanFlush => /\ Len(out) + Len(obuf) = total /\ From(obuf, Len(out))
                  /\ ocnt >= 0 /\ "WRITE" \in oflag
  BY DEF CanFlush, OutputIInv, OutputInPlace, RoomForOne
<1>3. CASE WriteU8
  <2>1. /\ total' = total + 1 /\ total < MaxBytes /\ UNCHANGED <<oneed, opc, sound>>
        /\ opc = "run" /\ "WRITE" \in oflag
    BY <1>3 DEF WriteU8, Writing
  <2>2. LoopInPlace' /\ total + 1 <= MaxBytes /\ total' \in 0 .. MaxBytes /\ total <= total'
    BY <1>1, <2>1, FieldTypes DEF LoopInPlace
  <2>3. /\ Append(obuf, total + 1) \in Seq(OutputNumber) /\ Append(obuf, total + 1) = obuf \o <<total + 1>>
        /\ <<total + 1>> \in Seq(OutputNumber) /\ Len(<<total + 1>>) = 1 /\ From(<<total + 1>>, total)
    <3>1. total + 1 \in OutputNumber
      BY <2>2, FieldTypes DEF OutputNumber
    <3>. QED
      BY SMTT(30), <3>1, FieldTypes, AppendProperties, AppendIsConcat DEF From
  <2>4. ASSUME ocnt > 0, ocnt' = ocnt - 1, obuf' = Append(obuf, total + 1),
               UNCHANGED <<base, oflag, out>>
        PROVE  OutputIInv'
    <3>1. CASE CanFlush
      <4>1. 1 <= ocnt /\ 1 \in Nat
        BY <2>4, FieldTypes
      <4>. QED
        BY <2>1, <2>2, <2>3, <2>4, <3>1, <4>1, PutKeeps
    <3>2. CASE ~CanFlush
      <4>1. ocnt' \in -MaxPast .. BufSize - 1
        BY <2>4, FieldTypes
      <4>. QED
        BY <1>1, <2>1, <2>2, <2>3, <2>4, <3>2, <4>1, FailedKeeps
    <3>. QED
      BY <3>1, <3>2
  <2>5. ASSUME CanFlush, Drain(Append(obuf, total + 1))
        PROVE  OutputIInv'
    <3>1. PICK s \in Seq(OutputNumber) : s = obuf \o <<total + 1>>
      BY <2>3
    <3>2. PICK n \in Taken(s) :
            /\ out' = out \o SubSeq(s, 1, n)
            /\ oflag' = IF n < Len(s) THEN oflag \cup {"ERR"} ELSE oflag
            /\ obuf' = <<>> /\ ocnt' = BufSize - 1 /\ base' = TRUE
      BY <2>3, <2>5, <3>1 DEF Drain
    <3>3. Len(s) = Len(obuf) + 1 /\ From(s, Len(out))
      <4>1. /\ Len(out) + Len(obuf) = total /\ From(obuf, Len(out))
            /\ obuf \in Seq(OutputNumber) /\ Len(out) \in Nat
        BY <1>2, <2>5, FieldTypes
      <4>2. PICK t \in Seq(OutputNumber) :
              t = <<total + 1>> /\ Len(t) = 1 /\ From(t, Len(out) + Len(obuf))
        BY <2>3, <4>1
      <4>3. Len(obuf \o t) = Len(obuf) + Len(t) /\ From(obuf \o t, Len(out))
        BY ZenonT(30), <4>1, <4>2, JoinBytes
      <4>. QED
        BY <3>1, <4>2, <4>3
    <3>4. /\ Len(out) + Len(s) = total + 1 /\ total + 1 \in Nat /\ total <= total + 1
      BY <1>2, <2>5, <3>3, FieldTypes
    <3>5. ocnt' \in 0 .. BufSize - 1 /\ base' \in BOOLEAN
      BY SMTT(30), <3>2, FieldTypes
    <3>. QED
      BY <2>1, <2>2, <2>5, <3>2, <3>3, <3>4, <3>5, FlushKeeps
  <2>6. ASSUME ~CanFlush, ocnt > -MaxPast, ocnt' = ocnt - 1, UNCHANGED <<obuf, base, oflag, out>>
        PROVE  OutputIInv'
    <3>1. ocnt' \in -MaxPast .. BufSize - 1 /\ obuf' \in Seq(OutputNumber)
      BY <2>6, FieldTypes
    <3>. QED
      BY <1>1, <2>1, <2>2, <2>6, <3>1, FailedKeeps
  <2>. QED
    BY <1>3, <2>4, <2>5, <2>6 DEF WriteU8
<1>4. CASE WriteBytevector
  <2>1. /\ opc = "run" /\ opc' = "fwrite" /\ "WRITE" \in oflag
        /\ UNCHANGED <<total, obuf, ocnt, base, oflag, out, sound>>
    BY <1>4 DEF WriteBytevector, Writing
  <2>2. oneed' \in 0 .. MaxWrite /\ total' + oneed' <= MaxBytes
    <3>1. PICK k \in 1 .. MaxWrite : total + k <= MaxBytes /\ oneed' = k
      BY <1>4 DEF WriteBytevector
    <3>. QED
      BY <2>1, <3>1, FieldTypes
  <2>3. OutputTypeOK' /\ OutputInPlace' /\ RoomForOne'
    BY <2>1, <2>2 DEF OutputIInv, OutputTypeOK, OutputInPlace, From, RoomForOne
  <2>. QED
    BY <2>1, <2>2, <2>3 DEF OutputIInv
<1>5. CASE CopyOutOfBounds
  <2>1. opc' = "undefined" /\ UNCHANGED <<total, obuf, ocnt, base, oflag, out, oneed, sound>>
    BY <1>5 DEF CopyOutOfBounds
  <2>2. OutputTypeOK' /\ OutputInPlace' /\ RoomForOne'
    BY <2>1 DEF OutputIInv, OutputTypeOK, OutputInPlace, From, RoomForOne
  <2>. QED
    BY <2>1, <2>2 DEF OutputIInv
<1>6. CASE CopyAndFlush
  <2>1. /\ opc = "fwrite" /\ ocnt >= 0 /\ oneed > ocnt
        /\ total' = total + ocnt /\ oneed' = oneed - ocnt /\ UNCHANGED <<opc, sound>>
    BY <1>6, FieldTypes DEF CopyAndFlush, OutOfBounds
  <2>2. /\ "WRITE" \in oflag /\ total + oneed <= MaxBytes /\ ocnt \in Nat
        /\ total + ocnt <= MaxBytes /\ total + ocnt \in Nat /\ total <= total + ocnt
        /\ oneed' \in 0 .. MaxWrite /\ total' + oneed' <= MaxBytes
    <3>1. "WRITE" \in oflag /\ total + oneed <= MaxBytes
      BY <2>1 DEF OutputIInv
    <3>2. /\ ocnt \in Int /\ oneed \in Nat /\ total \in Nat /\ oneed <= MaxWrite
          /\ MaxBytes \in Nat /\ MaxWrite \in Nat
      BY FieldTypes
    <3>3. ocnt \in Nat /\ total + ocnt <= MaxBytes /\ total + ocnt \in Nat /\ total <= total + ocnt
      BY <2>1, <3>1, <3>2
    <3>4. oneed - ocnt \in 0 .. MaxWrite /\ total + ocnt + (oneed - ocnt) <= MaxBytes
      BY <2>1, <3>1, <3>2
    <3>. QED
      BY <2>1, <3>1, <3>3, <3>4
  <2>3. /\ Numbered(total, ocnt) \in Seq(OutputNumber) /\ Len(Numbered(total, ocnt)) = ocnt
        /\ From(Numbered(total, ocnt), total)
    BY <2>2, FieldTypes, NumberedBytes
  <2>4. ASSUME CanFlush, Drain(obuf \o Numbered(total, ocnt))
        PROVE  OutputIInv'
    <3>1. PICK b \in Seq(OutputNumber) : b = Numbered(total, ocnt)
      BY <2>3
    <3>2. /\ obuf \o b \in Seq(OutputNumber) /\ Len(obuf \o b) = Len(obuf) + ocnt
          /\ From(obuf \o b, Len(out))
      BY <1>2, <2>3, <2>4, <3>1, FieldTypes, JoinBytes
    <3>3. PICK s \in Seq(OutputNumber) : s = obuf \o b
      BY <3>2
    <3>4. PICK n \in Taken(s) :
            /\ out' = out \o SubSeq(s, 1, n)
            /\ oflag' = IF n < Len(s) THEN oflag \cup {"ERR"} ELSE oflag
            /\ obuf' = <<>> /\ ocnt' = BufSize - 1 /\ base' = TRUE
      BY <2>4, <3>1, <3>3 DEF Drain
    <3>5. Len(out) + Len(s) = total + ocnt /\ From(s, Len(out))
      <4>1. Len(out) + Len(obuf) = total /\ Len(s) = Len(obuf) + ocnt
        BY <1>2, <2>4, <3>2, <3>3
      <4>2. Len(out) \in Nat /\ Len(obuf) \in Nat /\ ocnt \in Nat
        BY <2>2, FieldTypes
      <4>3. Len(out) + Len(s) = total + ocnt
        BY <4>1, <4>2
      <4>4. From(s, Len(out))
        BY <3>2, <3>3
      <4>. QED
        BY <4>3, <4>4
    <3>6. ocnt' \in 0 .. BufSize - 1 /\ base' \in BOOLEAN
      BY SMTT(30), <3>4, FieldTypes
    <3>7. "WRITE" \in oflag' /\ LoopInPlace'
      BY <1>1, <2>1, <2>2, <3>4 DEF LoopInPlace
    <3>. QED
      BY <2>1, <2>2, <2>4, <3>4, <3>5, <3>6, <3>7, FlushKeeps
  <2>5. ASSUME ~CanFlush, obuf' = obuf \o Numbered(total, ocnt),
               UNCHANGED <<ocnt, base, oflag, out>>
        PROVE  OutputIInv'
    <3>1. obuf' \in Seq(OutputNumber)
      BY <2>3, <2>5, FieldTypes, ConcatProperties
    <3>2. ocnt' \in -MaxPast .. BufSize - 1 /\ total' \in 0 .. MaxBytes /\ total <= total'
      BY <2>1, <2>2, <2>5, FieldTypes
    <3>3. LoopInPlace'
      BY <1>1, <2>1, <2>2, <2>5 DEF LoopInPlace
    <3>. QED
      BY <1>1, <2>1, <2>2, <2>5, <3>1, <3>2, <3>3, FailedKeeps
  <2>. QED
    BY <1>6, <2>4, <2>5 DEF CopyAndFlush
<1>7. CASE CopyLast
  <2>1. /\ opc = "fwrite" /\ oneed <= ocnt /\ obuf' = obuf \o Numbered(total, oneed)
        /\ total' = total + oneed /\ ocnt' = ocnt - oneed /\ oneed' = 0 /\ opc' = "run"
        /\ UNCHANGED <<base, oflag, out, sound>>
    BY <1>7 DEF CopyLast
  <2>2. "WRITE" \in oflag /\ total + oneed <= MaxBytes /\ LoopInPlace'
    BY <2>1, FieldTypes DEF OutputIInv, LoopInPlace
  <2>3. /\ Numbered(total, oneed) \in Seq(OutputNumber) /\ Len(Numbered(total, oneed)) = oneed
        /\ From(Numbered(total, oneed), total)
    BY <2>2, FieldTypes, NumberedBytes
  <2>4. CASE CanFlush
    BY <2>1, <2>2, <2>3, <2>4, FieldTypes, PutKeeps
  <2>5. CASE ~CanFlush
    <3>1. obuf' \in Seq(OutputNumber)
      BY <2>1, <2>3, FieldTypes, ConcatProperties
    <3>2. ocnt' \in -MaxPast .. BufSize - 1 /\ total' \in 0 .. MaxBytes /\ total <= total'
      BY SMTT(30), <2>1, <2>2, FieldTypes
    <3>. QED
      BY <1>1, <2>1, <2>2, <2>5, <3>1, <3>2, FailedKeeps
  <2>. QED
    BY <2>4, <2>5
<1>8. ASSUME CanFlush, NEW n \in Taken(obuf), out' = out \o SubSeq(obuf, 1, n), obuf' = <<>>,
             \/ oflag' = {}
             \/ oflag' = IF n < Len(obuf) THEN oflag \cup {"ERR"} ELSE oflag,
             ocnt' \in 0 .. BufSize - 1, base' \in BOOLEAN, opc = "run",
             UNCHANGED <<total, oneed, opc, sound>>
      PROVE  OutputIInv'
  <2>1. LoopInPlace'
    BY <1>1, <1>8 DEF LoopInPlace
  <2>2. PICK s \in Seq(OutputNumber) : s = obuf
    BY FieldTypes
  <2>3. Len(out) + Len(s) = total /\ From(s, Len(out)) /\ n \in Taken(s)
    BY <1>2, <1>8, <2>2
  <2>4. total \in Nat /\ total <= MaxBytes /\ total <= total
    BY FieldTypes
  <2>. QED
    BY <1>8, <2>1, <2>2, <2>3, <2>4, FlushKeeps
<1>9. ASSUME ~CanFlush, "WRITE" \in oflag, obuf' = <<>>, ocnt' = 0, base' \in BOOLEAN,
             oflag' = oflag \/ oflag' = {}, opc = "run", UNCHANGED <<total, out, oneed, opc, sound>>
      PROVE  OutputIInv'
  <2>1. LoopInPlace'
    BY <1>1, <1>9 DEF LoopInPlace
  <2>2. /\ obuf' \in Seq(OutputNumber) /\ total' \in 0 .. MaxBytes /\ total <= total'
        /\ ocnt' \in -MaxPast .. BufSize - 1
    BY <1>9, FieldTypes
  <2>. QED
    BY <1>9, <2>1, <2>2, FailedKeeps
<1>10. 0 \in 0 .. BufSize - 1 /\ BufSize - 1 \in 0 .. BufSize - 1
  BY FieldTypes
<1>11. CASE Flush
  BY <1>8, <1>10, <1>11 DEF Flush, Drain, Writing
<1>12. CASE Seek
  BY <1>1, <1>8, <1>9, <1>10, <1>12 DEF Seek, Writing
<1>13. CASE CloseOutput
  BY <1>8, <1>9, <1>10, <1>13 DEF CloseOutput, Writing
<1>. QED
  BY <1>3, <1>4, <1>5, <1>6, <1>7, <1>11, <1>12, <1>13 DEF OutputNext, FWrite

(* The invariant holds in every state.                                     *)
THEOREM OutputInvariant == OutputSpec => []OutputIInv
<1>1. ASSUME OutputInit
      PROVE  OutputIInv
  <2>1. /\ sound \in BOOLEAN /\ total = 0 /\ obuf = <<>> /\ ocnt = 0 /\ base = FALSE
        /\ oflag = {"WRITE"} /\ out = <<>> /\ oneed = 0 /\ opc = "run"
    BY <1>1 DEF OutputInit
  <2>2. OutputTypeOK
    <3>1. /\ total \in 0 .. MaxBytes /\ ocnt \in -MaxPast .. BufSize - 1 /\ oneed \in 0 .. MaxWrite
      BY <2>1, FileAssumption, OutputAssumption
    <3>2. obuf \in Seq(1 .. MaxBytes) /\ out \in Seq(1 .. MaxBytes)
      BY <2>1
    <3>. QED
      BY <2>1, <3>1, <3>2 DEF OutputTypeOK
  <2>3. OutputInPlace /\ RoomForOne
    BY <2>1 DEF OutputInPlace, From, RoomForOne
  <2>. QED
    BY <2>1, <2>2, <2>3 DEF OutputIInv
<1>2. ASSUME OutputIInv, UNCHANGED outputVars
      PROVE  OutputIInv'
  BY <1>2 DEF outputVars, OutputIInv, OutputTypeOK, OutputInPlace, From, RoomForOne
<1>. QED
  BY <1>1, <1>2, OutputNextKeeps, PTL DEF OutputSpec

(* While nothing failed, what the sink took followed by the buffer is what *)
(* was written, and the buffer does not overflow; whatever fails, the sink *)
(* has a prefix of it.                                                     *)
THEOREM WritesLoseNothing == OutputSpec => []NothingLost
<1>1. ASSUME OutputIInv
      PROVE  SinkHasPrefix
  <2>1. From(out, 0) /\ Len(out) <= total
    BY <1>1 DEF OutputIInv, OutputInPlace
  <2>2. Len(out) <= MaxBytes
    BY <1>1, <2>1, FieldTypes
  <2>. QED
    BY <1>1, <2>1, <2>2, FieldTypes, AllNumbered DEF SinkHasPrefix
<1>2. ASSUME OutputIInv, oflag = {"WRITE"}
      PROVE  out \o obuf = Numbered(0, total)
  <2>1. /\ Len(out) + Len(obuf) = total /\ From(obuf, 0 + Len(out)) /\ From(out, 0)
    BY <1>2, FieldTypes DEF OutputIInv, OutputInPlace
  <2>2. /\ out \o obuf \in Seq(OutputNumber) /\ Len(out \o obuf) = Len(out) + Len(obuf)
        /\ From(out \o obuf, 0)
    BY <1>2, <2>1, FieldTypes, JoinBytes
  <2>. QED
    BY <1>2, <2>1, <2>2, FieldTypes, AllNumbered
<1>3. OutputIInv => NothingLost
  BY <1>1, <1>2 DEF NothingLost, OutputIInv
<1>. QED
  BY <1>3, OutputInvariant, PTL

(* A port over a sink that does not fail has delivered everything when it  *)
(* is closed.                                                              *)
THEOREM CloseCompletes == OutputSpec => []ClosedIsComplete
<1>1. ASSUME OutputIInv, oflag = {}, sound
      PROVE  out = Numbered(0, total)
  <2>1. From(out, 0) /\ Len(out) = total
    BY <1>1 DEF OutputIInv, OutputInPlace
  <2>. QED
    BY <1>1, <2>1, FieldTypes, AllNumbered
<1>2. OutputIInv => ClosedIsComplete
  BY <1>1 DEF ClosedIsComplete
<1>. QED
  BY <1>2, OutputInvariant, PTL
=============================================================================
