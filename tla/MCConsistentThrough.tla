------------------------ MODULE MCConsistentThrough ------------------------
(* A small instance: two ticks in a millisecond, so that two transactions can
   begin at different instants of the same one. *)
EXTENDS ConsistentThrough

CONSTANTS w1, w2, r1, r2, s1, s2

TwoWriters == {w1, w2}
OneReader == {r1}
TwoReaders == {r1, r2}
OneStatement == {s1}
TwoStatements == {s1, s2}
=============================================================================
