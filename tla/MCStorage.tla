------------------------------ MODULE MCStorage ------------------------------
(* Storage on small instances.                                             *)
EXTENDS Storage, TLC

CONSTANTS t1, t2, n1, n2

\* Nothing stored yet, or the file an earlier run left with one group.
MCInitialFiles ==
  {EmptyDb, [lastId |-> 1, groups |-> {[id |-> 1, name |-> n1]}]}

MCSymmetry == Permutations({t1, t2})
=============================================================================
