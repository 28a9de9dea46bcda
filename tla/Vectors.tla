------------------------------ MODULE Vectors ------------------------------
(***************************************************************************)
(* A call of a procedure on vectors or bytevectors (lib/vector.c,          *)
(* lib/blob.c) or of any other C procedure: its arguments arrive in its    *)
(* variables (Arguments), which hold anything before; the procedure fills  *)
(* in the ends of the range that were not given, tests the range against   *)
(* the objects and moves elements within or between them.                  *)
(***************************************************************************)
EXTENDS Arguments

CONSTANTS
  Objects,  \* the objects there are: records of a type, "vec" or "blob", and their data
  Ints,     \* integers that are given as indices and bytes
  MaxArgs,  \* bound of the runs: arguments of a call
  Formats   \* formats of procedures that are nothing but a format here

VARIABLES
  data,   \* the elements of each object
  call,   \* the procedure, its format and arguments
  locals, \* its variables in the order of the format
  pc,     \* "args", "body", "done"
  result  \* what it returned, or an error

vars == <<data, call, locals, pc, result>>

Obj == DOMAIN Objects
Other(t) == [type |-> t, v |-> 0, len |-> 0]
Unset == 99 \* what stands in a variable that has not been assigned
Undef == -8 \* as an element
NoResult == [kind |-> "none"]

FormatOf ==
  [name \in {"vector-ref", "vector-set!", "vector-copy!", "vector-copy", "vector->list",
             "vector-fill!", "vector-append", "bytevector-u8-ref", "bytevector-u8-set!",
             "bytevector-copy!", "bytevector-copy", "bytevector->list", "bytevector-append",
             "make-vector", "make-bytevector"} |->
     CASE name = "vector-ref" -> <<"v", "i">>
       [] name = "vector-set!" -> <<"v", "i", "o">>
       [] name = "vector-copy!" -> <<"v", "i", "v", "|", "i", "i">>
       [] name \in {"vector-copy", "vector->list"} -> <<"v", "|", "i", "i">>
       [] name = "vector-fill!" -> <<"v", "o", "|", "i", "i">>
       [] name \in {"vector-append", "bytevector-append"} -> <<"*">>
       [] name = "make-vector" -> <<"i", "|", "o">>
       [] name = "make-bytevector" -> <<"i", "|", "i">>
       [] name = "bytevector-u8-ref" -> <<"b", "i">>
       [] name = "bytevector-u8-set!" -> <<"b", "i", "i">>
       [] name = "bytevector-copy!" -> <<"b", "i", "b", "|", "i", "i">>
       [] name \in {"bytevector-copy", "bytevector->list"} -> <<"b", "|", "i", "i">>]

ObjectArg(o) == [type |-> Objects[o].type, v |-> o, len |-> Len(Objects[o].data)]

\* An argument for a letter: one it takes, or one of another type.
Offered(c) ==
  {Other("nil")} \cup
  CASE c \in {"v", "b"} -> {ObjectArg(o) : o \in {p \in Obj : Objects[p].type \in Takes(c)}}
    [] c \in {"i", "I", "f", "F"} ->
         {[type |-> "int", v |-> i] : i \in Ints} \cup {[type |-> "float", v |-> -1], [type |-> "float", v |-> 3]}
    [] c \in {"o", "*"} -> {ObjectArg(o) : o \in Obj}
    [] OTHER -> {Other(t) : t \in Takes(c)}

\* Argument lists, of a wrong length too.
ArgLists(format) ==
  LET letters == SelectSeq(format, LAMBDA c : c \notin {"&", "|", "+"})
      At(i) == Offered(IF i <= Len(letters) THEN letters[i] ELSE "*")
      upTo[n \in 0 .. MaxArgs] ==
        IF n = 0 THEN {<<>>} ELSE {Append(a, v) : a \in upTo[n - 1], v \in At(n)}
  IN  UNION {upTo[n] : n \in 0 .. Min({MaxArgs, Len(letters) + 1})}

Init ==
  /\ data = [o \in Obj |-> Objects[o].data]
  /\ pc = "args" /\ result = NoResult
  /\ \/ \E name \in DOMAIN FormatOf : \E args \in ArgLists(FormatOf[name]) :
          call = [name |-> name, format |-> FormatOf[name], args |-> args]
     \/ \E format \in Formats : \E args \in ArgLists(format) :
          call = [name |-> "other", format |-> format, args |-> args]
  /\ locals = [k \in 1 .. 2 * Len(call.format) |-> Unset]

GetArgs ==
  /\ pc = "args"
  /\ LET a == pic_get_args(call.format, call.args, locals)
     IN  IF a = Refused
         THEN pc' = "done" /\ result' = Refused /\ UNCHANGED locals
         ELSE pc' = "body" /\ locals' = a.locals /\ UNCHANGED result
  /\ UNCHANGED <<data, call>>

-----------------------------------------------------------------------------
(* The bodies.                                                             *)

argc == Len(call.args)

Return(value)  == pc' = "done" /\ result' = [kind |-> "value", value |-> value]
Error          == pc' = "done" /\ result' = Refused /\ UNCHANGED data
Runs(names)    == pc = "body" /\ call.name \in names /\ UNCHANGED <<call, locals>>

\* VALID_INDEX, VALID_RANGE, VALID_ATRANGE
ValidIndex(len, i)    == 0 <= i /\ i < len
ValidRange(len, s, e) == 0 <= s /\ s <= len /\ s <= e /\ e <= len
ValidAtRange(tolen, at, fromlen, s, e) ==
  ValidIndex(tolen, at) /\ ValidRange(fromlen, s, e) /\ e - s <= tolen - at

\* The switch on the number of arguments; the variables at p and p + 1.
RangeGiven(p, required, len) ==
  [start |-> IF argc = required THEN 0 ELSE locals[p],
   end   |-> IF argc \in {required, required + 1} THEN len ELSE locals[p + 1]]

Slice(o, r) == SubSeq(data[o], r.start + 1, r.end)

ElementAt(o, k) ==
  IF ValidIndex(Len(data[o]), k) THEN Return(data[o][k + 1]) /\ UNCHANGED data ELSE Error

VectorRef     == Runs({"vector-ref"}) /\ ElementAt(locals[1], locals[2])
BytevectorRef == Runs({"bytevector-u8-ref"}) /\ ElementAt(locals[1], locals[3])

VectorSet ==
  /\ Runs({"vector-set!"})
  /\ IF ValidIndex(Len(data[locals[1]]), locals[2])
     THEN Return("undef") /\ data' = [data EXCEPT ![locals[1]][locals[2] + 1] = locals[3]]
     ELSE Error

BytevectorSet ==
  /\ Runs({"bytevector-u8-set!"})
  /\ IF locals[4] \in 0 .. 255 /\ ValidIndex(locals[2], locals[3])
     THEN Return("undef") /\ data' = [data EXCEPT ![locals[1]][locals[3] + 1] = locals[4]]
     ELSE Error

\* Of k elements, each of them the argument if there is one.
MakeVector ==
  /\ Runs({"make-vector"})
  /\ IF locals[1] < 0 THEN Error
     ELSE /\ Return([i \in 1 .. locals[1] |-> IF argc = 2 THEN locals[2] ELSE Undef])
          /\ UNCHANGED data

\* The variable for the byte starts from 0.
MakeBytevector ==
  /\ Runs({"make-bytevector"})
  /\ LET b == IF argc = 2 THEN locals[2] ELSE 0
     IN  IF b \notin 0 .. 255 \/ locals[1] < 0 THEN Error
         ELSE Return([i \in 1 .. locals[1] |-> b]) /\ UNCHANGED data

\* memmove
Moved(to, at, elements) ==
  [data EXCEPT ![to] = SubSeq(@, 1, at) \o elements \o SubSeq(@, at + Len(elements) + 1, Len(@))]

CopyRange(to, at, from, r) ==
  IF ValidAtRange(Len(data[to]), at, Len(data[from]), r.start, r.end)
  THEN Return("undef") /\ data' = Moved(to, at, Slice(from, r))
  ELSE Error

VectorCopyTo ==
  /\ Runs({"vector-copy!"})
  /\ CopyRange(locals[1], locals[2], locals[3], RangeGiven(4, 3, Len(data[locals[3]])))

BytevectorCopyTo ==
  /\ Runs({"bytevector-copy!"})
  /\ CopyRange(locals[1], locals[3], locals[4], RangeGiven(6, 3, locals[5]))

TakeRange(o, r) ==
  IF ValidRange(Len(data[o]), r.start, r.end)
  THEN Return(Slice(o, r)) /\ UNCHANGED data ELSE Error

VectorCopy == \* and vector->list
  /\ Runs({"vector-copy", "vector->list"})
  /\ TakeRange(locals[1], RangeGiven(2, 1, Len(data[locals[1]])))

BytevectorCopy == \* and bytevector->list
  /\ Runs({"bytevector-copy", "bytevector->list"})
  /\ TakeRange(locals[1], RangeGiven(3, 1, locals[2]))

VectorFill ==
  /\ Runs({"vector-fill!"})
  /\ LET r == RangeGiven(3, 2, Len(data[locals[1]]))
     IN  IF ValidRange(Len(data[locals[1]]), r.start, r.end)
         THEN /\ Return("undef")
              /\ data' = Moved(locals[1], r.start, [k \in 1 .. r.end - r.start |-> locals[2]])
         ELSE Error

\* The objects of the rest arguments, after each has been tested.
Joined(type) ==
  LET argv == SubSeq(call.args, locals[2], locals[2] + locals[1] - 1)
  IN  IF \A i \in DOMAIN argv : argv[i].type = type
      THEN Return(FlattenSeq([i \in DOMAIN argv |-> data[argv[i].v]])) /\ UNCHANGED data
      ELSE Error

VectorAppend     == Runs({"vector-append"}) /\ Joined("vec")
BytevectorAppend == Runs({"bytevector-append"}) /\ Joined("blob")

Next == \/ GetArgs \/ VectorRef \/ BytevectorRef \/ VectorSet \/ BytevectorSet
        \/ MakeVector \/ MakeBytevector \/ VectorCopyTo \/ BytevectorCopyTo
        \/ VectorCopy \/ BytevectorCopy \/ VectorFill \/ VectorAppend \/ BytevectorAppend

Spec == Init /\ [][Next]_vars

-----------------------------------------------------------------------------
(* What a call is to do, from its arguments alone.                         *)

Num(i) == ToInt(call.args[i])

\* The arguments from..to of the call are a range of n elements.
RangeOr(i, n) ==
  [start |-> IF i <= argc THEN Num(i) ELSE 0, end |-> IF i < argc THEN Num(i + 1) ELSE n]
InRange(r, n) == 0 <= r.start /\ r.start <= r.end /\ r.end <= n
Before(i) == Objects[call.args[i].v].data

\* Counts and types are right.
Fits ==
  LET mandatory == SelectSeq(SubSeq(call.format, 1, First(call.format, 1, {"|", "*"}) - 1),
                             LAMBDA c : c \notin {"&", "+"})
      letters == SelectSeq(call.format, LAMBDA c : c \notin {"&", "|", "+", "*"})
  IN  /\ Len(mandatory) <= argc
      /\ argc <= Len(letters) \/ "*" \in ToSet(call.format)
      /\ \A i \in 1 .. Min({argc, Len(letters)}) : Accepts(letters[i], call.args[i])

\* What becomes of the object of the first argument, and the value returned.
Legal ==
  CASE call.name = "other" -> TRUE
    [] call.name \in {"vector-ref", "bytevector-u8-ref", "vector-set!"} ->
         Num(2) + 1 \in DOMAIN Before(1)
    [] call.name = "bytevector-u8-set!" -> Num(2) + 1 \in DOMAIN Before(1) /\ Num(3) \in 0 .. 255
    [] call.name \in {"vector-copy!", "bytevector-copy!"} ->
         LET r == RangeOr(4, Len(Before(3)))
         IN  /\ InRange(r, Len(Before(3)))
             /\ \* an empty range too has to start at an element
                Num(2) + 1 \in DOMAIN Before(1) /\ Num(2) + r.end - r.start <= Len(Before(1))
    [] call.name = "make-vector" -> Num(1) >= 0
    [] call.name = "make-bytevector" -> Num(1) >= 0 /\ (argc = 2 => Num(2) \in 0 .. 255)
    [] call.name = "vector-fill!" -> InRange(RangeOr(3, Len(Before(1))), Len(Before(1)))
    [] call.name \in {"vector-append", "bytevector-append"} ->
         \A i \in 1 .. argc : call.args[i].type = IF call.name = "vector-append" THEN "vec" ELSE "blob"
    [] OTHER -> InRange(RangeOr(2, Len(Before(1))), Len(Before(1)))

\* Element k of the first argument afterwards.
After(k) ==
  LET was == Before(1)[k] IN
  CASE call.name \in {"vector-set!", "bytevector-u8-set!"} ->
         IF k # Num(2) + 1 THEN was
         ELSE IF call.name = "vector-set!" THEN call.args[3].v ELSE Num(3)
    [] call.name \in {"vector-copy!", "bytevector-copy!"} ->
         LET r == RangeOr(4, Len(Before(3)))
             i == k - Num(2) + r.start
         IN  IF r.start < i /\ i <= r.end THEN Before(3)[i] ELSE was
    [] call.name = "vector-fill!" ->
         LET r == RangeOr(3, Len(Before(1)))
         IN  IF r.start < k /\ k <= r.end THEN call.args[2].v ELSE was
    [] OTHER -> was

Value ==
  CASE call.name \in {"vector-ref", "bytevector-u8-ref"} -> Before(1)[Num(2) + 1]
    [] call.name \in {"vector-copy", "bytevector-copy", "vector->list", "bytevector->list"} ->
         LET r == RangeOr(2, Len(Before(1))) IN SubSeq(Before(1), r.start + 1, r.end)
    [] call.name \in {"vector-append", "bytevector-append"} ->
         FlattenSeq([i \in 1 .. argc |-> Before(i)])
    [] call.name = "make-vector" ->
         [i \in 1 .. Num(1) |-> IF argc = 2 THEN call.args[2].v ELSE Undef]
    [] call.name = "make-bytevector" -> [i \in 1 .. Num(1) |-> IF argc = 2 THEN Num(2) ELSE 0]
    [] OTHER -> "undef"

\* What a format's pointers hold when the procedure starts: for every
\* letter in order the argument it stands for, and what was there before
\* where there is no argument.
ArgumentsArrive ==
  pc = "body" =>
    LET letters == SelectSeq(call.format, LAMBDA c : c \notin {"&", "|"})
        Width(c) == CASE c \in {"b", "I", "F", "*"} -> 2 [] OTHER -> 1
        place == [i \in 1 .. Len(letters) + 1 |->
                    Parsed(call.format).start + FoldLeft(LAMBDA n, c : n + Width(c), 0, SubSeq(letters, 1, i - 1))]
        number(i) == Cardinality({j \in 1 .. i : letters[j] # "+"})
        Placed(p, values) == SubSeq(locals, p, p + Len(values) - 1) = values
    IN  \A i \in DOMAIN letters :
          CASE letters[i] = "+" -> Placed(place[i], <<call.args[number(i)].v>>)
            [] letters[i] = "*" ->
                 Placed(place[i], <<argc - number(i) + 1, number(i)>>)
            [] number(i) <= argc /\ letters[i] \notin {"+", "*"} ->
                 Placed(place[i], Holds(letters[i], call.args[number(i)]))
            [] OTHER -> Placed(place[i], [k \in 1 .. Width(letters[i]) |-> Unset])

(* A call comes to an error exactly when its arguments are too few, too    *)
(* many or of other types, or name a range that is not within the objects, *)
(* and an error leaves every object as it was.  Otherwise the cells of the *)
(* range get what they are to get, whether or not the two objects are one  *)
(* and the ranges overlap, no other cell changes, and no variable decides  *)
(* that pic_get_args left unwritten: each argument is in the variables of  *)
(* its letter when the body starts.                                        *)
CallsAnswer ==
  /\ ArgumentsArrive
  /\ pc = "done" =>
       IF Fits /\ Legal
       THEN /\ result = [kind |-> "value", value |-> Value]
            /\ \A o \in Obj : data[o] = IF argc > 0 /\ call.args[1] = ObjectArg(o)
                                        THEN [k \in DOMAIN Before(1) |-> After(k)]
                                        ELSE Objects[o].data
       ELSE result = Refused /\ \A o \in Obj : data[o] = Objects[o].data
=============================================================================
