------------------------------- MODULE IntakeMC -------------------------------
(* An instance of Intake for TLC: texts around the limits. *)
EXTENDS Intake

Texts == [length : 0..3, gains : 0..1]
=============================================================================
