-------------------------- MODULE MCCentralConfig --------------------------
EXTENDS CentralConfig, TLC
CONSTANTS c1, c2, c3

(* c1 sets both options, c2 sets one and to something invalid, c3 has no   *)
(* body that can be parsed.                                                *)
MCGiven ==
    c1 :> [recording |-> "valid", sampleRate |-> "valid"]
    @@ c2 :> [recording |-> "absent", sampleRate |-> "invalid"]
    @@ c3 :> [recording |-> "absent", sampleRate |-> "absent"]
=============================================================================
