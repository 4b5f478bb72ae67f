----------------------------- MODULE MCHashTab -----------------------------
(***************************************************************************)
(* HashTab with two chains and four keys, three of which collide: volumes  *)
(* of two filers of which one's name is part of the other's.               *)
(***************************************************************************)
EXTENDS HashTab, TLC

CONSTANTS k1, k2, k3, k4, fas1, fas10

MCKeys == {k1, k2, k3, k4}
MChash == k1 :> 1 @@ k2 :> 1 @@ k3 :> 1 @@ k4 :> 2
MCContains == {<<k1, fas1>>, <<k2, fas1>>, <<k2, fas10>>, <<k3, fas1>>, <<k4, fas1>>}
=============================================================================
