---------------------------- MODULE MCConfigStore ----------------------------
(* Instances of ConfigStore for TLC. *)
EXTENDS ConfigStore

CONSTANTS e1, e2

TwoEditors == {e1, e2}
=============================================================================
