------------------------------ MODULE MCWriter ------------------------------
(* Two rufux processes on one target.  The first writes a fixed VHD, three    *)
(* units of payload and one of footer, in two chunks, to a target of four;   *)
(* the second writes, over it, an image that is a unit too long.             *)
EXTENDS Writer

CONSTANTS w1, w2, a, b

MCWorkers == {w1, w2}
MCData    == {a, b}
MCImage   == [w \in MCWorkers |-> IF w = w1 THEN <<a, b, a, b>> ELSE <<b, b, b, b, b>>]
MCSrcLen  == [w \in MCWorkers |-> IF w = w1 THEN 3 ELSE 0]
Real      == [dry_run |-> FALSE, yes |-> TRUE, verify |-> TRUE, same |-> FALSE]
MCOptions ==
  [w \in MCWorkers |->
     IF w = w1 THEN {Real, [Real EXCEPT !.verify = FALSE],
                     [Real EXCEPT !.dry_run = TRUE],
                     [Real EXCEPT !.yes = FALSE], [Real EXCEPT !.same = TRUE]}
               ELSE {Real}]

(* Bound: only the first source shrinks. *)
SecondStays == srclen[w2] = Len(Image[w2])
=============================================================================
