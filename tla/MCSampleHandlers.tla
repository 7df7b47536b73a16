-------------------------- MODULE MCSampleHandlers --------------------------
(***************************************************************************)
(* A small instance of SampleHandlers for TLC.  The server sends every     *)
(* action that some sample knows, with both values of its parameter, and   *)
(* the ones that the handlers refuse or cannot read.                       *)
(***************************************************************************)
EXTENDS SampleHandlers

Good(name, v) ==
  [alias |-> "own", version |-> 1, name |-> name, value |-> v, wellFormed |-> TRUE]

MCInputs ==
  {Good(n, v) : n \in {"turnPower", "setPresetTemperature", "setColor"}, v \in Values}
    \cup {Good(n, 1) : n \in {"setBrightness", "setColorTemperature", "unknown"}}
    \cup {[Good("turnPower", 1) EXCEPT !.wellFormed = FALSE],
          [Good("turnPower", 1) EXCEPT !.alias = "other"],
          [Good("turnPower", 1) EXCEPT !.alias = "other", !.version = 2]}
=============================================================================
