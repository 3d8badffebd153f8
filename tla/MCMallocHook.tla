----------------------------- MODULE MCMallocHook -----------------------------
(* Instances of MallocHook for TLC: call sites a and b, the stack traces     *)
(* they give and the kinds of call a run uses.                              *)
EXTENDS MallocHook, TLC

CONSTANTS a, b

\* Two symbols, one of them in a recursion, whose frames share an index.
TwoStacks == {<<a>>, <<b, b>>}
OneStack == {<<a>>}

ReallocOnly == {REALLOC}
MallocOnly == {MALLOC}
ReallocAndFree == {REALLOC, FREE}

\* The threads but the first are interchangeable.
Symmetry == Permutations(Thread \ {RootThread})

=============================================================================
