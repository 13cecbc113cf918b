----------------------------- MODULE MCExtTree -----------------------------
(* Four inodes give the root three subdirectories, a directory in a          *)
(* directory in a directory, or a file of several names.  A count of 4 is    *)
(* the last RENAME does not raise and a count of 5 wraps.                    *)
EXTENDS ExtTree, TLC

CONSTANTS r, a, b, c, x, y, z

Symmetry == Permutations({a, b, c}) \cup Permutations(Names)
=============================================================================
