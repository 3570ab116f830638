-------------------------------- MODULE Rps --------------------------------
(***************************************************************************)
(* The three weapons and who eats whom (chase_simulation.c:can_eat,        *)
(* game.c:rps_result).  The order is a cycle: no weapon is the best.       *)
(***************************************************************************)
Choice == {"R", "P", "S"}

NoChoice == "?"

(* chase_simulation.c:14-24 *)
CanEat(eater, prey) == <<eater, prey>> \in {<<"R", "S">>, <<"S", "P">>, <<"P", "R">>}

(* All the members of players hold one choice: the number of choice types
   counted over them is at most one (server_state.c:417-446).  A player whose
   choice is none of R, P, S would not be counted; TypeOK and AdmittedReady of
   MatchServer show that nobody who is counted has such a choice. *)
AtMostOneType(players, choice) ==
    \A i, j \in players : choice[i] = choice[j]
=============================================================================
