----------------------------- MODULE Arguments -----------------------------
(***************************************************************************)
(* How a C procedure gets its arguments: pic_get_args (lib/proc.c) walks a *)
(* format, one letter for each argument, and writes what each argument     *)
(* holds where the next pointers of its variable arguments point.  The     *)
(* pointers are taken in order and their number depends on the letters, so *)
(* that one taken too many or too few puts every later argument into       *)
(* another's variable.  Variables whose argument is not given keep what    *)
(* they held, which the procedures tell by the number of arguments.        *)
(*                                                                         *)
(* A format is the sequence of its letters, an argument a record of its    *)
(* type and value, a number; floats count in halves.  The pointer to the   *)
(* rest of the arguments is the number of the first of them.               *)
(***************************************************************************)
EXTENDS Integers, Sequences, SequencesExt, FiniteSets, FiniteSetsExt

\* Where one of the characters stands first, or the end of the format.
First(format, from, characters) ==
  Min({i \in from .. Len(format) + 1 : i = Len(format) + 1 \/ format[i] \in characters})

Letters(format, from, to) == Cardinality({i \in from .. to - 1 : format[i] # "+"})

\* What the format asks for: a pointer for the procedure itself, so many
\* arguments, so many more at the most, and the rest.
Parsed(format) ==
  LET start == IF format # <<>> /\ format[1] = "&" THEN 2 ELSE 1
      bar   == First(format, start, {"|", "*"})
      opt   == bar <= Len(format) /\ format[bar] = "|"
      star  == First(format, bar, {"*"})
  IN  [start  |-> start,
       paramc |-> Letters(format, start, bar),
       optc   |-> IF opt THEN Letters(format, bar + 1, star) ELSE 0,
       rest   |-> star <= Len(format)]

\* The types a letter takes.
Takes(c) ==
  CASE c \in {"i", "I", "f", "F"} -> {"int", "float"}
    [] c = "b" -> {"blob"} [] c = "c" -> {"char"} [] c \in {"z", "s"} -> {"str"}
    [] c = "m" -> {"sym"}  [] c = "v" -> {"vec"}  [] c = "l" -> {"proc"}
    [] c = "p" -> {"port"} [] c = "d" -> {"dict"} [] c = "r" -> {"rec"} [] c = "u" -> {"data"}

Accepts(c, arg) == c = "o" \/ arg.type \in Takes(c)

\* (int) of a number, which rounds towards zero, and (double).
ToInt(arg) ==
  IF arg.type = "int" THEN arg.v
  ELSE IF arg.v < 0 THEN -((-arg.v) \div 2) ELSE arg.v \div 2
ToDouble(arg) == IF arg.type = "int" THEN 2 * arg.v ELSE arg.v
Exactness(arg) == IF arg.type = "int" THEN 1 ELSE 0

\* Mutant: a bytevector has one pointer, its length is not asked for.
HoldsNoLength(c, arg) ==
  CASE c \in {"i", "I"} -> <<ToInt(arg)>> \o IF c = "I" THEN <<Exactness(arg)>> ELSE <<>>
    [] c \in {"f", "F"} -> <<ToDouble(arg)>> \o IF c = "F" THEN <<Exactness(arg)>> ELSE <<>>
    [] OTHER -> <<arg.v>>

\* What the letter's pointers get.
Holds(c, arg) ==
  CASE c \in {"i", "I"} -> <<ToInt(arg)>> \o IF c = "I" THEN <<Exactness(arg)>> ELSE <<>>
    [] c \in {"f", "F"} -> <<ToDouble(arg)>> \o IF c = "F" THEN <<Exactness(arg)>> ELSE <<>>
    [] c = "b" -> <<arg.v, arg.len>>
    [] OTHER -> <<arg.v>>

Store(locals, p, values) ==
  [k \in DOMAIN locals |-> IF k \in p .. p + Len(values) - 1 THEN values[k - p + 1] ELSE locals[k]]

Self == -7 \* the procedure called

Refused == [kind |-> "error"]

\* One round of the loop: the letter at "at", the pointers from "p" on.
Dispatch(format, a, arg) ==
  LET k == IF format[a.at] = "|" THEN a.at + 1 ELSE a.at
      plus == k < Len(format) /\ format[k + 1] = "+"
      values == Holds(format[k], arg) \o IF plus THEN <<arg.v>> ELSE <<>>
  IN  IF a = Refused \/ ~Accepts(format[k], arg) THEN Refused
      ELSE [kind |-> "locals", at |-> k + (IF plus THEN 2 ELSE 1), p |-> a.p + Len(values),
            locals |-> Store(a.locals, a.p, values)]

\* The variables after pic_get_args has been given args, or its error.
pic_get_args(format, args, locals) ==
  LET f == Parsed(format)
      argc == Len(args)
      taken == Min({argc, f.paramc + f.optc})
      begin == [kind |-> "locals", at |-> f.start, p |-> f.start,
                locals |-> IF f.start = 2 THEN Store(locals, 1, <<Self>>) ELSE locals]
      a == FoldLeft(LAMBDA b, arg : IF b = Refused THEN b ELSE Dispatch(format, b, arg),
                    begin, SubSeq(args, 1, taken))
  IN  IF argc < f.paramc \/ (f.paramc + f.optc < argc /\ ~f.rest) THEN Refused
      ELSE IF a = Refused \/ ~f.rest THEN a
      ELSE [a EXCEPT !.locals = Store(@, a.p, <<argc - taken, taken + 1>>)]
=============================================================================
