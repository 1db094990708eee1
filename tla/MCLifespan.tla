---- MODULE MCLifespan ----
(* Instances of Lifespan: two workers with a request each. *)
EXTENDS Lifespan, TLC

CONSTANTS r1, r2, w1, w2, script

Place == (r1 :> w1) @@ (r2 :> w2)
====
