----------------------------- MODULE MCPyTools -----------------------------
(***************************************************************************)
(* An instance of PyTools: pages of two bytes, records that begin at, end  *)
(* at and cross page boundaries.                                           *)
(***************************************************************************)
EXTENDS PyTools

Call(addr, size, count) == [addr |-> addr, size |-> size, count |-> count]

\* The third is a free; the first and the last overlap the others.
MCCalls == {Call(3, 2, 2), Call(4, 2, 0), Call(4, 0, 0), Call(3, 3, 0)}

=============================================================================
