---------------------------- MODULE MCLifetimes ----------------------------
(***************************************************************************)
(* Traces for Lifetimes: every sequence of allocations and frees of two    *)
(* addresses, free(0) among them, with the times of one program thread or  *)
(* of two threads whose calls overlap.                                     *)
(***************************************************************************)
EXTENDS Lifetimes

CONSTANTS MaxRecords, Addresses, Rhythms

\* A rhythm gives the pauses between calls and their overheads, in turn.
Steady == <<[gap |-> 1, cost |-> 1]>>
Bursts == <<[gap |-> 1, cost |-> 2], [gap |-> 0, cost |-> 0]>>

\* A negative pause: the call begins before the record of the one before is
\* written.  Corrected times go back, with Deep below the start of the trace.
Overlap == <<[gap |-> 2, cost |-> 3], [gap |-> -2, cost |-> 3]>>
Deep == <<[gap |-> 1, cost |-> 4], [gap |-> -3, cost |-> 4]>>
MCRhythms == {Steady, Bursts, Overlap, Deep}

Kinds == [allocType : {MALLOC}, addr : Addresses]
         \cup [allocType : {FREE}, addr : Addresses \cup {0}]

Timed(kinds, rhythm) ==
  LET beat(n) == rhythm[((n - 1) % Len(rhythm)) + 1]
      t0[n \in 1 .. Len(kinds)] ==
        beat(n).gap + IF n = 1 THEN 0 ELSE t0[n - 1] + beat(n - 1).cost
  IN [n \in 1 .. Len(kinds) |->
        [allocType |-> kinds[n].allocType, addr |-> kinds[n].addr,
         t0 |-> t0[n], t2 |-> t0[n] + beat(n).cost]]

\* Which address is which makes no difference: the first one used is 1.
Canonical(kinds) ==
  \A n \in DOMAIN kinds :
    kinds[n].addr \in Addresses \ {1} => \E m \in 1 .. n - 1 : kinds[m].addr = 1

\* With a full map and the time over, the search for the free of 2 keeps that of
\* 4 and does not move past it, so that the search for 3 keeps it again.
A(a) == [allocType |-> MALLOC, addr |-> a]
F(a) == [allocType |-> FREE, addr |-> a]
KeptTwice == <<A(1), A(2), A(3), A(4), F(1), F(4), A(4), F(4), F(2), F(3)>>

MCTraces ==
  {Timed(KeptTwice, Steady)} \cup
  {Timed(kinds, rhythm) :
     kinds \in {k \in UNION {[1 .. n -> Kinds] : n \in 0 .. MaxRecords} : Canonical(k)},
     rhythm \in Rhythms}

=============================================================================
