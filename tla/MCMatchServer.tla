--------------------------- MODULE MCMatchServer ---------------------------
(***************************************************************************)
(* Instances of MatchServer for TLC, and the mapping under which it         *)
(* implements Match.                                                       *)
(***************************************************************************)
EXTENDS MatchServer

OnePick == {"R"}
TwoPicks == {"R", "P"}
ThreePicks == {"R", "P", "S"}
Nobody == {}
OneSlot == {0}
TwoSlots == {0, 1}

(* PHASE_SETUP is the lobby's last moment; who would win is standing. *)
Abstract == INSTANCE Match WITH
    Players <- Slots,
    stage <- CASE phase \in {"LOBBY_OPEN", "SETUP"} -> "lobby"
               [] phase = "ROUND_ACTIVE" -> "playing"
               [] phase = "GAME_OVER" -> "over",
    standing <- {i \in Slots : WonMatch(i)},
    fallen <- Admitted \ {i \in Slots : WonMatch(i)},
    pick <- [i \in Slots |-> IF i \in Admitted THEN choice[i] ELSE NoChoice]

(* The server implements the match its players are promised. *)
ImplementsMatch == Abstract!Spec

(* The server's liveness, from where it starts and from the setups of the tests. *)
AnyStartSpec == (Init \/ InSetup) /\ [][Next]_vars /\ Fairness
=============================================================================
