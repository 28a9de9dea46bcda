------------------------------ MODULE Numbers ------------------------------
(***************************************************************************)
(* Numbers (lib/number.c): fixnums, whose arithmetic is done in doubles    *)
(* and comes back to a fixnum where the result is one, flonums, and        *)
(* their texts.  A call is made with some arguments; the text that         *)
(* number->string makes is read by string->number.                         *)
(*                                                                         *)
(* A number is exact and an int, or a quotient n / d, where d = 0 stands   *)
(* for the infinities and for not-a-number.  That doubles round is left    *)
(* out, and that zero has a sign: no argument is -0.0, which only the sign *)
(* of a quotient with that divisor would tell from 0.0.                    *)
(***************************************************************************)
EXTENDS Integers, Sequences, SequencesExt, FiniteSets, FiniteSetsExt

CONSTANTS
  IntBits,   \* bits of an int
  WideBits,  \* bits of int64_t and uint64_t
  Radixes,   \* radixes of number->string and string->number
  Operands,  \* arguments of arithmetic beside the ints named below
  MaxArgs,   \* bound of the runs: arguments of arithmetic
  Letters,   \* characters of texts that string->number is given
  MaxLetters \* bound of the runs: length of those texts

INT_MAX == 2 ^ (IntBits - 1) - 1
INT_MIN == -INT_MAX - 1
WideMax == 2 ^ (WideBits - 1) - 1
WideMin == -WideMax - 1
UWide(v) == v % 2 ^ WideBits

VARIABLES
  call,   \* the procedure and its arguments, or the text it is given
  text,   \* what number->string returned
  pc,     \* "run", "read", "done"
  result  \* what the procedure returned

vars == <<call, text, pc, result>>

Exact(i)  == [kind |-> "exact", n |-> i, d |-> 1]
Float(n, d) == \* the quotient, without common sign or an arbitrary n over 0
  LET s == IF d < 0 THEN -1 ELSE 1
  IN  [kind |-> "float",
       n |-> IF d = 0 THEN (IF n > 0 THEN 1 ELSE IF n < 0 THEN -1 ELSE 0) ELSE s * n,
       d |-> s * d]
False == [kind |-> "#f"]
Error == [kind |-> "error"]
NaN(x) == x.n = 0 /\ x.d = 0
Infinite(x) == x.d = 0

-----------------------------------------------------------------------------
(* Arithmetic of doubles.                                                  *)

Plus(x, y) == IF Infinite(x) /\ Infinite(y) /\ x.n # y.n THEN Float(0, 0)
              ELSE IF Infinite(x) /\ Infinite(y) THEN Float(x.n, 0)
              ELSE Float(x.n * y.d + y.n * x.d, x.d * y.d)
Times(x, y)  == Float(x.n * y.n, x.d * y.d)
Minus(x, y)  == Plus(x, Float(-y.n, y.d))
Reciprocal(y) == CASE NaN(y) -> Float(0, 0)
                   [] Infinite(y) /\ ~NaN(y) -> Float(0, 1)
                   [] OTHER -> Float(y.d, y.n)
Over(x, y)   == Times(x, Reciprocal(y))
Equals(x, y) == ~NaN(x) /\ ~NaN(y) /\ (IF Infinite(x) /\ Infinite(y) THEN x.n = y.n
                                       ELSE x.n * y.d = y.n * x.d)
Less(x, y)   == ~NaN(x) /\ ~NaN(y) /\ (IF Infinite(x) /\ Infinite(y) THEN x.n < y.n
                                       ELSE x.n * y.d < y.n * x.d)

InDoubles(op, x, y) ==
  CASE op = "+" -> Plus(x, y) [] op = "-" -> Minus(x, y) [] op = "*" -> Times(x, y) [] op = "/" -> Over(x, y)

Whole(f) == f.d # 0 /\ f.n % f.d = 0
Fits(f)  == f.d # 0 /\ INT_MIN * f.d <= f.n /\ f.n <= INT_MAX * f.d

\* Mutant: an exact sum or product is cut to the bits of an int.
Wrapped(op, x, y) ==
  LET f == InDoubles(op, x, y)
      w == ((f.n - INT_MIN) % 2 ^ IntBits) + INT_MIN
  IN  IF x.kind = "exact" /\ y.kind = "exact" /\ op # "/" THEN Exact(w) ELSE f

\* pic_define_aop: pic_add, pic_sub, pic_mul, pic_div.
Binary(op, x, y) ==
  LET f == InDoubles(op, x, y)
  IN  IF x.kind = "exact" /\ y.kind = "exact" /\ Fits(f) /\ (op = "/" => Whole(f))
      THEN Exact(f.n \div f.d) ELSE f

\* pic_define_cmp: pic_eq, pic_lt, pic_le, pic_gt, pic_ge.
Compared(op, x, y) ==
  CASE op = "=" -> Equals(x, y)
    [] op = "<" -> Less(x, y) [] op = "<=" -> Less(x, y) \/ Equals(x, y)
    [] op = ">" -> Less(y, x) [] op = ">=" -> Less(y, x) \/ Equals(x, y)

-----------------------------------------------------------------------------
(* Texts: a digit is its value, "e" the digit 14.                          *)

Point == -1
Dash  == -2
Cross == -3 \* the plus sign
Exponent == 14

RECURSIVE DigitsOf(_, _)
DigitsOf(v, radix) == IF v = 0 THEN 0 ELSE 1 + DigitsOf(v \div radix, radix)

\* number_string_length, v being the uint64_t made of val or of -val.
LengthOf(v, val, radix) ==
  IF val = 0 THEN 1 ELSE DigitsOf(v, radix) + (IF val < 0 THEN 1 ELSE 0)

\* number_string into a buffer of this length: digits from the last place
\* on, in front of which is what the buffer held; the sign is written first.
number_string(v, val, radix, length) ==
  [i \in 1 .. length |->
     LET q == v \div radix ^ (length - i)
     IN  IF val = 0 THEN 0
         ELSE IF q > 0 THEN q % radix
         ELSE IF i = 1 /\ val < 0 THEN Dash ELSE Point]

\* What -val is for a negative int.  For INT_MIN it is undefined; compilers
\* negate in the int's bits, or after widening it.
Negated(val) ==
  IF val # INT_MIN THEN {-val} ELSE {UWide(INT_MIN), -INT_MIN}

Prefix(s, from, P(_)) == \* the first place from where P fails
  Min({i \in from .. Len(s) + 1 : i = Len(s) + 1 \/ ~P(s[i])})

ValueOf(digits, radix) == FoldLeft(LAMBDA v, c : v * radix + c, 0, digits)

\* strtoll: the number, the place after it, and whether it overflowed.
strtoll(s, radix) ==
  LET start == IF s # <<>> /\ s[1] \in {Dash, Cross} THEN 2 ELSE 1
      end == Prefix(s, start, LAMBDA c : c \in 0 .. radix - 1)
      v == ValueOf(SubSeq(s, start, end - 1), radix)
      num == IF s # <<>> /\ s[1] = Dash THEN -v ELSE v
  IN  IF end = start THEN [num |-> 0, end |-> 1, range |-> FALSE]
      ELSE [num |-> IF num > WideMax THEN WideMax ELSE IF num < WideMin THEN WideMin ELSE num,
            end |-> end, range |-> num \notin WideMin .. WideMax]

IsDigit(c) == c \in 0 .. 9

\* string_to_number, with the double that the text denotes.
string_to_number(s) ==
  LET At(i, S) == i <= Len(s) /\ s[i] \in S
      Skip(i)  == Prefix(s, i, IsDigit)
      a == IF At(1, {Dash, Cross}) THEN 2 ELSE 1
      b == Skip(a)
      c == IF At(b, {Point}) THEN Skip(b + 1) ELSE b
      isexp == At(c, {Exponent})
      d == IF isexp THEN (IF At(c + 1, {Dash, Cross}) THEN c + 2 ELSE c + 1) ELSE c
      e == IF isexp THEN Skip(d) ELSE c
      mantissa == SelectSeq(SubSeq(s, a, c - 1), IsDigit)
      power == (IF isexp THEN (IF At(c + 1, {Dash}) THEN -1 ELSE 1) * ValueOf(SubSeq(s, d, e - 1), 10)
                ELSE 0) - (IF c > b THEN c - b - 1 ELSE 0)
      v == (IF At(1, {Dash}) THEN -1 ELSE 1) * ValueOf(mantissa, 10)
      flt == IF power < 0 THEN Float(v, 10 ^ (-power)) ELSE Float(v * 10 ^ power, 1)
  IN  IF b = a \/ (isexp /\ e = d) \/ e <= Len(s) THEN False
      ELSE IF c = b /\ ~isexp /\ Fits(flt) THEN Exact(v) ELSE flt

-----------------------------------------------------------------------------
Arithmetic == {"+", "-", "*", "/"}
Comparison == {"=", "<", "<=", ">", ">="}

Numbers == {Exact(i) : i \in {INT_MIN, INT_MIN + 1, -1, 0, 1, 2, INT_MAX}} \cup Operands

Init ==
  /\ pc = "run" /\ text = <<>> /\ result = False
  /\ \/ \E op \in Arithmetic \cup Comparison, n \in 0 .. MaxArgs :
          \E args \in [1 .. n -> Numbers] : call = [op |-> op, args |-> args]
     \/ \E val \in INT_MIN .. INT_MAX, radix \in Radixes :
          call = [op |-> "number->string", val |-> val, radix |-> radix]
     \/ \E n \in 0 .. MaxLetters : \E s \in [1 .. n -> Letters], radix \in Radixes :
          \* exponents of one digit, for the numbers of the model checker
          /\ \A i, j \in DOMAIN s : i < j - 1 /\ s[i] = Exponent => s[j - 1] \in {Dash, Cross}
          /\ call = [op |-> "string->number", text |-> s, radix |-> radix]

\* DEFINE_AOP
Calculate ==
  /\ pc = "run" /\ call.op \in Arithmetic /\ pc' = "done"
  /\ LET args == call.args
     IN  result' =
           CASE Len(args) = 0 -> (CASE call.op = "+" -> Exact(0) [] call.op = "*" -> Exact(1)
                                    [] OTHER -> Error)
             [] Len(args) = 1 -> (CASE call.op = "-" -> Binary("-", Exact(0), args[1])
                                    [] call.op = "/" -> Binary("/", Exact(1), args[1])
                                    [] OTHER -> args[1])
             [] OTHER -> FoldLeft(LAMBDA tmp, x : Binary(call.op, tmp, x), args[1], Tail(args))
  /\ UNCHANGED <<call, text>>

\* DEFINE_CMP
Compare ==
  /\ pc = "run" /\ call.op \in Comparison /\ pc' = "done"
  /\ result' = [kind |-> IF \A i \in 2 .. Len(call.args) :
                                Compared(call.op, call.args[i - 1], call.args[i])
                         THEN "#t" ELSE "#f"]
  /\ UNCHANGED <<call, text>>

NumberToString ==
  /\ pc = "run" /\ call.op = "number->string" /\ pc' = "read"
  /\ \E v \in IF call.val < 0 THEN Negated(call.val) ELSE {call.val} :
       text' = number_string(v, call.val, call.radix, LengthOf(v, call.val, call.radix))
  /\ UNCHANGED <<call, result>>

\* pic_number_string_to_number: the names of the special flonums left out.
Reading(s, radix) ==
  LET r == strtoll(s, radix)
  IN  IF r.range THEN Float(r.num, 1)
      ELSE IF r.end = Len(s) + 1
      THEN (IF r.num \in INT_MIN .. INT_MAX THEN Exact(r.num) ELSE Float(r.num, 1))
      ELSE string_to_number(s)

StringToNumber ==
  /\ \/ pc = "read" /\ result' = Reading(text, call.radix)
     \/ pc = "run" /\ call.op = "string->number" /\ result' = Reading(call.text, call.radix)
  /\ pc' = "done"
  /\ UNCHANGED <<call, text>>

Next == Calculate \/ Compare \/ NumberToString \/ StringToNumber

Spec == Init /\ [][Next]_vars

-----------------------------------------------------------------------------
(* Properties.                                                             *)

\* Operations on fractions and infinities that have no result.
Undefined(op, x, y) ==
  \/ NaN(x) \/ NaN(y)
  \/ op = "+" /\ Infinite(x) /\ Infinite(y) /\ x.n # y.n
  \/ op = "-" /\ Infinite(x) /\ Infinite(y) /\ x.n = y.n
  \/ op = "*" /\ x.n = 0 /\ Infinite(y)
  \/ op = "*" /\ y.n = 0 /\ Infinite(x)
  \/ op = "/" /\ x.n = 0 /\ y.n = 0
  \/ op = "/" /\ Infinite(x) /\ Infinite(y)

\* Fractions have the results of arithmetic, and the others are limits.
OfFractions(op, x, y) ==
  CASE op = "+" -> Float(x.n * y.d + y.n * x.d, x.d * y.d)
    [] op = "-" -> Float(x.n * y.d - y.n * x.d, x.d * y.d)
    [] op = "*" -> Float(x.n * y.n, x.d * y.d)
    [] op = "/" -> Float(x.n * y.d, x.d * y.n)

InTheLimit(op, x, y) ==
  CASE op = "/" /\ Infinite(y) -> Float(0, 1)
    [] op = "/" /\ ~Infinite(y) -> Float(IF y.n < 0 THEN -x.n ELSE x.n, 0)
    [] op = "*" -> Float(x.n * y.n, 0)
    [] op \in {"+", "-"} /\ Infinite(x) -> x
    [] op \in {"+", "-"} /\ ~Infinite(x) -> Float(IF op = "-" THEN -y.n ELSE y.n, 0)

Meant(op, x, y) ==
  IF Undefined(op, x, y) THEN Float(0, 0)
  ELSE IF Infinite(x) \/ Infinite(y) \/ (op = "/" /\ y.n = 0) THEN InTheLimit(op, x, y)
  ELSE OfFractions(op, x, y)

\* The arguments as numbers of mathematics, in the same order of operations.
Mathematically(op, args) ==
  LET unit == [n |-> IF op \in {"*", "/"} THEN 1 ELSE 0, d |-> 1]
      all == IF op \in {"+", "*"} \/ Len(args) = 1 THEN <<unit>> \o args ELSE args
  IN  FoldLeft(LAMBDA x, y : Meant(op, x, y), Float(all[1].n, all[1].d), Tail(all))

(* Every result is the one the operation has in mathematics, infinities as *)
(* limits included, and not-a-number exactly where it has none.  An exact  *)
(* one is a fixnum, also where a partial result is not, INT_MIN is divided *)
(* by -1 or zero by zero; and a result of fixnums is inexact only when a   *)
(* partial result was no fixnum.                                           *)
ArithmeticAgrees ==
  pc = "done" /\ call.op \in Arithmetic /\ result # Error /\ call.args # <<>> =>
    LET m == Mathematically(call.op, call.args)
        partial == {Mathematically(call.op, SubSeq(call.args, 1, i)) :
                      i \in (IF Len(call.args) = 1 THEN 1 ELSE 2) .. Len(call.args)}
        allExact == \A i \in DOMAIN call.args : call.args[i].kind = "exact"
    IN  /\ NaN(m) = NaN(result)
        /\ ~NaN(m) => Equals(m, result)
        /\ result.kind = "exact" <=>
             allExact /\ \A p \in partial : Fits(p) /\ Whole(p)
        /\ result.kind = "exact" => result.n \in INT_MIN .. INT_MAX

(* A chain of < or > holds only of arguments that are sorted: comparing    *)
(* neighbours is enough, with fixnums, fractions and infinities mixed.     *)
ChainsSort ==
  pc = "done" /\ call.op \in {"<", ">"} /\ result.kind = "#t" =>
    \A i, j \in DOMAIN call.args :
      i < j => IF call.op = "<" THEN Less(call.args[i], call.args[j])
               ELSE Less(call.args[j], call.args[i])

PrintedReadsBack(val) ==
  pc = "done" /\ call.op = "number->string" /\ call.val = val => result = Exact(val)

(* A fixnum other than the smallest, written in any radix, is read back as *)
(* the same fixnum: the sign has its place in the buffer, and no digit is  *)
(* left out or written twice (number_string_length, number_string).        *)
FixnumsReadBack == \A val \in INT_MIN + 1 .. INT_MAX : PrintedReadsBack(val)

(* A text of digits with at most one point, perhaps behind a minus, is the *)
(* number that its digits make, and a fixnum exactly when it has no point  *)
(* and is in their range; when the point comes before the first digit it   *)
(* is no number.  Digits that overflow int64_t are left out.               *)
DecimalsRead ==
  pc = "done" /\ call.op = "string->number" /\ call.radix = 10 =>
    LET s == SelectSeq(call.text, LAMBDA c : c # Dash)
        points == {i \in DOMAIN s : s[i] = Point}
        end == IF points = {} THEN Len(s) + 1 ELSE Min(points)
        v == FoldLeftDomain(LAMBDA sum, i : IF i = end THEN sum ELSE sum * 10 + s[i], 0, s)
        value == Float(IF call.text[1] = Dash THEN -v ELSE v, 10 ^ Max({0, Len(s) - end}))
    IN  /\ \A i \in DOMAIN call.text : call.text[i] = Dash => i = 1
        /\ ToSet(s) \subseteq 0 .. 9 \cup {Point} /\ Cardinality(points) <= 1
        /\ v <= WideMax
        => /\ end > 1 => Equals(result, value)
           /\ end > 1 => (result.kind = "exact" <=> points = {} /\ Fits(value))
           /\ end = 1 /\ points # {} => result = False

(* "in case val == INT_MIN": the smallest fixnum as well.  It is not: -val *)
(* is negated before it is widened.                                        *)
SmallestReadsBack == PrintedReadsBack(INT_MIN)

(* The four of them. *)
NumbersAgree == ArithmeticAgrees /\ ChainsSort /\ FixnumsReadBack /\ DecimalsRead
=============================================================================
