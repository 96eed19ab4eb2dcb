--------------------------- MODULE MCBucketClaim ---------------------------
(* BucketClaim on small instances.                                         *)
EXTENDS BucketClaim

Plain  == [policy |-> "Retain", force |-> FALSE, timed |-> FALSE, quota |-> 0, public |-> {}]
Public == [Plain EXCEPT !.quota = 1, !.public = Bindings]
Drop   == [Plain EXCEPT !.policy = "Delete"]
Force  == [Plain EXCEPT !.policy = "Delete", !.force = TRUE]
Timed  == [Plain EXCEPT !.timed = TRUE]

NotRotated == Never

AllSpecs  == {Plain, Public, Drop, Force}
DropSpec  == {[Drop EXCEPT !.timed = TRUE]}
TimedSpec == {Timed}
PlainSpec == {Plain}
=============================================================================
