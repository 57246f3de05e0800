---------------------------- MODULE MCInstaller ----------------------------
(* An instance of Installer for TLC: the third file is a script that only  *)
(* the second version has.                                                 *)
EXTENDS Installer

MCShipped == [v \in Version |-> IF v = 1 THEN {1, 2} ELSE {1, 2, 3}]
=============================================================================
