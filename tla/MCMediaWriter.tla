---------------------------- MODULE MCMediaWriter ----------------------------
(* Instances of MediaWriter for TLC. *)
EXTENDS MediaWriter, TLC

CONSTANTS first, second

TwoBundles == {first, second}
EveryFault == AllFaults
=============================================================================
