---------------------------- MODULE ManagedHeap ----------------------------
(***************************************************************************)
(* What the heap of the interpreter promises its C and Scheme clients: an  *)
(* object that can be reached keeps its identity and its contents, a new   *)
(* object is a cell nobody can reach, and a collection, one atomic step    *)
(* here, takes exactly the objects that cannot be reached, together with   *)
(* the ephemeron entries and the symbol table entries that spoke of them.  *)
(***************************************************************************)
EXTENDS Naturals, FiniteSets

CONSTANTS Obj, NoObj, Imm

VARIABLES
  alive,   \* cells that hold an object
  roots,   \* objects the program holds
  refs,    \* strong references of each object
  hash,    \* entries of each ephemeron table: key -> value
  table    \* the symbol table, of names and symbols; it keeps nothing alive

vars == <<alive, roots, refs, hash, table>>

Blank == [k \in Obj |-> NoObj]

Closed(S) ==
  /\ roots \subseteq S
  /\ \A o \in S : refs[o] \subseteq S
  /\ \A w, k \in S : hash[w][k] \in Obj => hash[w][k] \in S

Reachable == {o \in Obj : \A S \in SUBSET Obj : Closed(S) => o \in S}

Init ==
  /\ alive = {} /\ roots = {}
  /\ refs = [o \in Obj |-> {}]
  /\ hash = [o \in Obj |-> Blank]
  /\ table = {}

\* The program takes hold of what it can reach, or of an interned symbol, and
\* lets go of what it likes.
Access ==
  /\ roots' \subseteq Reachable \cup {e[2] : e \in table}
  /\ UNCHANGED <<alive, refs, hash, table>>

\* It stores what it can reach in an object it holds ...
Store ==
  /\ \E o \in roots : \E S \in SUBSET Reachable : refs' = [refs EXCEPT ![o] = S]
  /\ UNCHANGED <<alive, roots, hash, table>>

\* ... or changes one entry of a table it holds, for a key it holds.
StoreWeak ==
  /\ \E w, k \in roots : \E v \in Reachable \cup {Imm, NoObj} :
       hash' = [hash EXCEPT ![w][k] = v]
  /\ UNCHANGED <<alive, roots, refs, table>>

\* A new object, perhaps stored at once in one the program holds (the message
\* of an error); when it is a symbol, its name enters the symbol table with it.
New ==
  /\ \E o \in Obj \ alive : \E S \in SUBSET Reachable :
       /\ alive' = alive \cup {o}
       /\ roots' = roots \cup {o}
       /\ \/ refs' = [refs EXCEPT ![o] = S]
          \/ \E u \in roots : refs' = [refs EXCEPT ![o] = S, ![u] = @ \cup {o}]
       /\ \/ table' = table
          \/ \E s \in S : table' = table \cup {<<s, o>>}
  /\ UNCHANGED hash

Collect ==
  /\ alive' = Reachable
  /\ refs' = [o \in Obj |-> IF o \in Reachable THEN refs[o] ELSE {}]
  /\ hash' = [w \in Obj |-> [k \in Obj |->
                IF {w, k} \subseteq Reachable THEN hash[w][k] ELSE NoObj]]
  /\ table' = {e \in table : e[2] \in Reachable}
  /\ UNCHANGED roots

Next == Access \/ Store \/ StoreWeak \/ New \/ Collect

Spec == Init /\ [][Next]_vars
=============================================================================
