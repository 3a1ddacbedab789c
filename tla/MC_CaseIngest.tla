---------------------------- MODULE MC_CaseIngest ----------------------------
(* Two ingestions of exports that overlap in one record; the second is a package. *)
EXTENDS CaseIngest, TLC

CONSTANTS e1, e2, k1, k2, none

TwoExports == (e1 :> <<k1>>) @@ (e2 :> <<k1, none, k2>>)
==============================================================================
