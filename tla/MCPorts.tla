------------------------------ MODULE MCPorts ------------------------------
(***************************************************************************)
(* For TLC: ports of a few bytes, small enough that a buffer is filled or  *)
(* flushed in the middle of a bytevector, and, apart from them, what must  *)
(* end in the collector.  A part of its own is an input port, an output    *)
(* port or a heap.                                                         *)
(***************************************************************************)
EXTENDS InputPort, OutputPort

CONSTANTS Obj, Text, Kinds, MaxArena, MaxFields, MaxRoots, MaxEntries, NoObj, Imm, Dummy, Wild

VARIABLES part,
          bitmap, shadow, kind, refs, text, hash, oblist, written, root, arena, hpc, op, args,
          unset, pending, weaks, todo, again

H == INSTANCE Collector WITH pc <- hpc

heapVars == <<bitmap, shadow, kind, refs, text, hash, oblist, written, root, arena, hpc, op, args,
              unset, pending, weaks, todo, again>>
allVars  == <<part, vars, outputVars, heapVars>>

PartInit ==
  /\ Init /\ OutputInit /\ H!Init
  /\ part \in {"input", "output", "heap"}
  /\ part # "output" => sound

InputStep(A)  == part = "input" /\ A /\ UNCHANGED <<part, outputVars, heapVars>>
OutputStep(A) == part = "output" /\ A /\ UNCHANGED <<part, vars, heapVars>>
HeapStep(A)   == part = "heap" /\ A /\ UNCHANGED <<part, vars, outputVars>>

PartNext == InputStep(Next) \/ OutputStep(OutputNext) \/ HeapStep(H!Next)

PartSpec ==
  /\ PartInit /\ [][PartNext]_allVars
  /\ WF_allVars(InputStep(FRead))
  /\ WF_allVars(OutputStep(FWrite))
  /\ WF_allVars(HeapStep(H!GCStep))

(* See Collector. *)
CollectionEnds == H!CollectionEnds
=============================================================================
