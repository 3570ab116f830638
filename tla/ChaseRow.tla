------------------------------ MODULE ChaseRow ------------------------------
(***************************************************************************)
(* A round as chase_simulation.c plays it, slot after slot and tick after   *)
(* tick, for players that spawned in one row of the grid: every distance is *)
(* then a difference, and every move goes one step up or down the row.      *)
(* MatchServer only knows which players one tick may capture (Capturable);  *)
(* here they are caught, one at a time, by hunters that move.              *)
(*                                                                         *)
(* Lengths are whole numbers of a unit: Tile of them to a tile, Radius to   *)
(* CAPTURE_RADIUS, Stride to CHASE_SPEED * dt (chase_simulation.h:18-19).    *)
(***************************************************************************)
EXTENDS Integers, Rps

CONSTANTS
    MaxPlayers,   \* the players of the round, in the first slots
    Tiles,        \* the tiles of the row they may spawn on
    Tile, Radius, Stride

Slots == 0 .. MaxPlayers - 1

ASSUME ChaseAssumption ==
    /\ MaxPlayers \in Nat \ {0}
    /\ Tiles \subseteq Nat
    /\ Tile \in Nat \ {0} /\ Radius \in Nat /\ Stride \in Nat \ {0}

VARIABLES
    choice,   \* slot -> R, P or S; it does not change
    alive,
    x,        \* slot -> place in the row, or Nowhere
    turn,     \* the loop variable of simulate_chase_tick
    caught,   \* the players caught in this tick (history)
    catcher,  \* for these, by whom (history)
    phase

vars == <<choice, alive, x, turn, caught, catcher, phase>>

Nowhere == -1

Nobody == -1

Distance(a, b) == IF a < b THEN b - a ELSE a - b

-----------------------------------------------------------------------------
(* find_nearest_prey: of the players it can eat, the nearest one, the first by
   slot among equals. *)

Prey(i) == {j \in alive : CanEat(choice[i], choice[j])}

Nearest(i, j) ==
    /\ j \in Prey(i)
    /\ \A k \in Prey(i) :
          \/ Distance(x[i], x[j]) < Distance(x[i], x[k])
          \/ Distance(x[i], x[j]) = Distance(x[i], x[k]) /\ j <= k

(* One step of at most Stride from a towards b.  Whoever is hunted is further away
   than Radius, so a Stride below it, as the program has, is never cut short. *)
Towards(a, b) ==
    LET d == IF Stride > Distance(a, b) THEN Distance(a, b) ELSE Stride
    IN  IF a < b THEN a + d ELSE a - d

(* Mutants: the prey's flag, or its place, is left as it was. *)
CatchAlive(i, j, from) ==
    /\ x' = [x EXCEPT ![i] = from, ![j] = Nowhere]
    /\ caught' = caught \cup {j}
    /\ catcher' = [catcher EXCEPT ![j] = i]
    /\ UNCHANGED alive

CatchInPlace(i, j, from) ==
    /\ alive' = alive \ {j}
    /\ x' = [x EXCEPT ![i] = from]
    /\ caught' = caught \cup {j}
    /\ catcher' = [catcher EXCEPT ![j] = i]

(* The prey j, caught by i, that has come to from. *)
Catch(i, j, from) ==
    /\ alive' = alive \ {j}
    /\ x' = [x EXCEPT ![i] = from, ![j] = Nowhere]
    /\ caught' = caught \cup {j}
    /\ catcher' = [catcher EXCEPT ![j] = i]

(* Capture on contact, before the move or after it. *)
Hunt(i, j) ==
    IF Distance(x[i], x[j]) <= Radius THEN Catch(i, j, x[i])
    ELSE IF Distance(Towards(x[i], x[j]), x[j]) <= Radius
    THEN Catch(i, j, Towards(x[i], x[j]))
    ELSE /\ x' = [x EXCEPT ![i] = Towards(x[i], x[j])]
         /\ UNCHANGED <<alive, caught, catcher>>

(* Mutant: a player caught earlier in the tick still has its turn. *)
EveryoneHunts(i) == Prey(i) # {}

Hunts(i) == i \in alive /\ Prey(i) # {}

-----------------------------------------------------------------------------
(* simulate_chase_tick: the slots in order, and then the end of the tick. *)

Turn ==
    /\ phase = "ROUND_ACTIVE"
    /\ turn \in Slots
    /\ turn' = turn + 1
    /\ \/ \E j \in Prey(turn) : Hunts(turn) /\ Nearest(turn, j) /\ Hunt(turn, j)
       \/ ~Hunts(turn) /\ UNCHANGED <<x, alive, caught, catcher>>
    /\ UNCHANGED <<choice, phase>>

(* Mutant: a single player has to be left. *)
EndTickAlone ==
    /\ phase = "ROUND_ACTIVE"
    /\ turn = MaxPlayers
    /\ turn' = 0
    /\ caught' = {}
    /\ catcher' = [i \in Slots |-> Nobody]
    /\ phase' = IF \A i, j \in alive : i = j THEN "GAME_OVER" ELSE phase
    /\ UNCHANGED <<choice, alive, x>>

(* When one type is left, advance_match_timers reevaluates and the match ends. *)
EndTick ==
    /\ phase = "ROUND_ACTIVE"
    /\ turn = MaxPlayers
    /\ turn' = 0
    /\ caught' = {}
    /\ catcher' = [i \in Slots |-> Nobody]
    /\ phase' = IF AtMostOneType(alive, choice) THEN "GAME_OVER" ELSE phase
    /\ UNCHANGED <<choice, alive, x>>

(* The players of a round that has just started. *)
Init ==
    /\ choice \in [Slots -> Choice]
    /\ x \in [Slots -> {Tile * t : t \in Tiles}]
    /\ alive = Slots
    /\ turn = 0
    /\ caught = {} /\ catcher = [i \in Slots |-> Nobody]
    /\ phase = "ROUND_ACTIVE"

Next == Turn \/ EndTick

Spec == Init /\ [][Next]_vars

(* The main loop calls advance_match_timers at least every CHASE_TICK_USEC. *)
FairSpec == Spec /\ WF_vars(Next)

-----------------------------------------------------------------------------
(* Properties. *)

(* Types; the history covers the tick that runs. *)
TypeOK ==
    /\ choice \in [Slots -> Choice]
    /\ alive \subseteq Slots
    /\ x \in [Slots -> Int]
    /\ turn \in 0 .. MaxPlayers
    /\ caught \subseteq Slots \ alive
    /\ catcher \in [Slots -> Slots \cup {Nobody}]
    /\ phase \in {"ROUND_ACTIVE", "GAME_OVER"}

(* The server of MatchServer at the beginning of the tick, for the players of
   the round.  The variables that Capturable does not read are as in a round. *)
Server == INSTANCE MatchServer WITH
    Picks <- Choice, MayLag <- {},
    connected <- Slots, registered <- Slots, admitted <- Slots,
    alive <- alive \cup caught, waiting <- {}, spawn_chosen <- Slots,
    told <- [i \in Slots |-> "ROUND_START"], lagging <- {},
    join_deadline <- "passed", setup_deadline <- "pending", round_no <- 1,
    todo <- <<>>

(* What a tick has captured, up to any point of its loop, is a set that
   MatchServer lets one tick capture: each by a hunter of its own that could eat
   it, and no hunter after it was caught itself (chase_simulation.c:98-153). *)
CapturesAllowed == Server!Capturable(caught)

(* A round has a survivor, although everybody may be hunted at once. *)
SurvivorLeft == alive # {}

(* The living are on the row between the places where the round began, and the
   others are off the board, where nobody hunts them (chase_simulation.c:116-119,
   144-149). *)
PlacesHold ==
    \A i \in Slots :
        IF i \in alive
        THEN \E a, b \in Tiles : Tile * a <= x[i] /\ x[i] <= Tile * b
        ELSE x[i] = Nowhere

(* Every round ends: the hunted cannot run for ever, though they are as fast as
   their hunters and hunt themselves (chase_simulation.c:91-158). *)
RoundEnds == <>(phase = "GAME_OVER")
=============================================================================
