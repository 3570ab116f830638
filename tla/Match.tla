-------------------------------- MODULE Match --------------------------------
(***************************************************************************)
(* What the server promises the players, without connections, buffers,     *)
(* deadlines or the order of its calls: a match is entered, played by       *)
(* elimination and won, and only then reset.  MatchServer implements it     *)
(* under the mapping of MCMatchServer as long as no two clients fall behind *)
(* together.                                                               *)
(***************************************************************************)
EXTENDS Rps

CONSTANT Players

VARIABLES
    stage,      \* "lobby", "playing" or "over"
    standing,   \* the players that are in the match and not eliminated
    fallen,     \* the players eliminated and still connected
    pick        \* the choice of the players in the match, NoChoice of the others

vars == <<stage, standing, fallen, pick>>

TypeOK ==
    /\ stage \in {"lobby", "playing", "over"}
    /\ standing \subseteq Players /\ fallen \subseteq Players \ standing
    /\ pick \in [Players -> Choice \cup {NoChoice}]

Lonely(S) == \A i, j \in S : i = j

(* The players of gone leave: their pick is forgotten. *)
Forget(gone) == pick' = [i \in Players |-> IF i \in gone THEN NoChoice ELSE pick[i]]

Enter(i) ==
    /\ stage = "lobby"
    /\ i \notin standing
    /\ standing' = standing \cup {i}
    /\ \E c \in Choice : pick' = [pick EXCEPT ![i] = c]
    /\ UNCHANGED <<stage, fallen>>

(* Players leave at any time; what is left of the match is judged separately. *)
Leave(gone) ==
    /\ standing' = standing \ gone
    /\ fallen' = fallen \ gone
    /\ Forget(gone)
    /\ UNCHANGED stage

Begin ==
    /\ stage = "lobby"
    /\ ~Lonely(standing)
    /\ stage' = "playing"
    /\ UNCHANGED <<standing, fallen, pick>>

(* Some players are eaten, each by one that stood; somebody is left. *)
Eliminate(caught) ==
    /\ stage = "playing"
    /\ caught \subseteq standing
    /\ \A i \in caught : \E j \in standing : CanEat(pick[j], pick[i])
    /\ caught # standing
    /\ standing' = standing \ caught
    /\ fallen' = fallen \cup caught
    /\ UNCHANGED <<stage, pick>>

(* The match is over when there is nobody to eat or to be eaten, and so is a
   lobby that closes on fewer than two.  Players may leave in the same step. *)
Finish(gone) ==
    /\ \/ stage = "playing" /\ AtMostOneType(standing, pick)
       \/ stage = "lobby" /\ Lonely(standing)
    /\ stage' = "over"
    /\ standing' = standing \ gone
    /\ fallen' = fallen \ gone
    /\ Forget(gone)

Reset ==
    /\ stage = "over"
    /\ stage' = "lobby"
    /\ standing' = {} /\ fallen' = {}
    /\ pick' = [i \in Players |-> NoChoice]

Init ==
    /\ stage = "lobby" /\ standing = {} /\ fallen = {}
    /\ pick = [i \in Players |-> NoChoice]

Next ==
    \/ Begin \/ Reset
    \/ \E i \in Players : Enter(i)
    \/ \E S \in SUBSET Players : Eliminate(S) \/ Leave(S) \/ Finish(S)

Spec == Init /\ [][Next]_vars
=============================================================================
