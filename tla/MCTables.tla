------------------------------ MODULE MCTables -----------------------------
(* Dictionaries and the symbol table for TLC: a behaviour is one of a      *)
(* dictionary or one of the symbol table.                                  *)
EXTENDS Dictionaries, SymbolTable

NoDictionary == hash = [k \in Key |-> 0] /\ dict = kh_init /\ walk = NoWalk
NoSymbols    == /\ hashOf = <<>> /\ oblist = kh_init /\ reads = <<>>
                /\ written = {} /\ held = {} /\ ops = 0

EitherInit == (Init /\ NoSymbols) \/ (NoDictionary /\ SymbolInit)

EitherNext == \/ hashOf = <<>> /\ Next /\ UNCHANGED symbolVars
              \/ hashOf # <<>> /\ SymbolNext /\ UNCHANGED vars

EitherSpec == EitherInit /\ [][EitherNext]_<<vars, symbolVars>>

Symmetric == UNION {Permutations(A) : A \in {Key, Val, String, Text}}
=============================================================================
