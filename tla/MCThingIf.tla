----------------------------- MODULE MCThingIf -----------------------------
(***************************************************************************)
(* Instances of ThingIf for TLC.  Two things have an ID of 36 characters,  *)
(* as Kii Cloud issues them; the third has one that fits in a kii_author_t *)
(* and in a state path, but not in the 128 bytes that the firmware-version *)
(* and thing-type paths get.                                               *)
(***************************************************************************)
EXTENDS ThingIf, TLC

CONSTANTS t1, t2, long

MCIdLen == [t \in ThingId |-> IF t = long THEN 100 ELSE 36]

\* The two ordinary things are interchangeable.
Symmetry == Permutations({t1, t2})
=============================================================================
