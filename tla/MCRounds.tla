------------------------------ MODULE MCRounds ------------------------------
(* Instances of Rounds for TLC. *)
EXTENDS Rounds

TwoPicks == {"R", "P"}
OneSlot == {0}
=============================================================================
