---------------------------- MODULE ChaseProofs ----------------------------
(***************************************************************************)
(* Theorems of ChaseRow, for every number of players, every row of tiles    *)
(* and every speed and reach: a tick captures only what MatchServer lets a  *)
(* tick capture, and a round is never left without a survivor.              *)
(***************************************************************************)
EXTENDS ChaseRow, TLAPS

(* What the history of a tick says of its captures, turn by turn: each hunter
   caught one player, in its own turn, and was alive then. *)
HunterKnown == \A p \in caught : catcher[p] \in alive \cup caught
HunterBeats == \A p \in caught : CanEat(choice[catcher[p]], choice[p])
HuntersPast == \A p \in caught : catcher[p] < turn
HuntersDiffer == \A p, q \in caught : catcher[p] = catcher[q] => p = q
CaughtLater == \A p \in caught : catcher[p] \in caught => catcher[catcher[p]] > catcher[p]

TickInv ==
    /\ TypeOK
    /\ HunterKnown /\ HunterBeats /\ HuntersPast /\ HuntersDiffer /\ CaughtLater

LEMMA NobodyEatsItself == \A c \in Choice : ~CanEat(c, c)
  BY DEF Choice, CanEat

LEMMA InitTick == Init => TickInv
  BY ChaseAssumption
     DEF Init, TickInv, TypeOK, HunterKnown, HunterBeats, HuntersPast, HuntersDiffer,
         CaughtLater, Slots, Nobody

LEMMA TowardsWhole ==
  ASSUME NEW a \in Int, NEW b \in Int PROVE Towards(a, b) \in Int
  BY ChaseAssumption DEF Towards, Distance

(* A hunt either catches the prey j or only moves the hunter i. *)
LEMMA HuntOutcome ==
  ASSUME TypeOK, NEW i \in Slots, NEW j \in Slots, Hunt(i, j)
  PROVE  \/ /\ alive' = alive \ {j}
            /\ caught' = caught \cup {j}
            /\ catcher' = [catcher EXCEPT ![j] = i]
            /\ x' \in [Slots -> Int]
         \/ UNCHANGED <<alive, caught, catcher>> /\ x' \in [Slots -> Int]
  <1>1. x[i] \in Int /\ x[j] \in Int
    BY DEF TypeOK
  <1>2. Towards(x[i], x[j]) \in Int
    BY <1>1, TowardsWhole
  <1>3. ASSUME NEW from \in Int, Catch(i, j, from)
        PROVE  x' \in [Slots -> Int]
    BY <1>3 DEF Catch, TypeOK, Nowhere
  <1> QED BY <1>1, <1>2, <1>3 DEF Hunt, Catch, TypeOK

LEMMA CatchersPast ==
  ASSUME TickInv, turn \in Int
  PROVE  \A p \in caught : catcher[p] \in Int /\ catcher[p] # turn /\ catcher[p] < turn + 1
  <1>1. \A p \in caught : catcher[p] \in Int
    <2>1. \A p \in caught : catcher[p] \in Slots \cup {Nobody}
      BY DEF TickInv, TypeOK
    <2>2. Slots \cup {Nobody} \subseteq Int
      BY ChaseAssumption DEF Slots, Nobody
    <2> QED BY <2>1, <2>2
  <1>2. \A p \in caught : catcher[p] < turn
    BY DEF TickInv, HuntersPast
  <1> QED BY <1>1, <1>2

(* The captures of a tick after one more, j by the player whose turn it is. *)
LEMMA OneMoreCapture ==
  ASSUME TickInv, turn \in Slots, turn \in alive,
         NEW j \in alive, CanEat(choice[turn], choice[j]),
         alive' = alive \ {j}, caught' = caught \cup {j},
         catcher' = [catcher EXCEPT ![j] = turn],
         turn' = turn + 1, choice' = choice
  PROVE  HunterKnown' /\ HunterBeats' /\ HuntersPast' /\ HuntersDiffer' /\ CaughtLater'
  <1>1. j \in Slots /\ j \notin caught /\ turn \notin caught /\ turn \in Int
    BY DEF TickInv, TypeOK, Slots
  <1>2. turn # j
    BY <1>1, NobodyEatsItself DEF TickInv, TypeOK
  <1>3. catcher'[j] = turn /\ \A p \in caught : catcher'[p] = catcher[p]
    BY <1>1 DEF TickInv, TypeOK
  <1>4. \A p \in caught : catcher[p] # turn /\ catcher[p] \in Int
    BY <1>1, CatchersPast
  <1>5. HunterKnown'
    BY <1>1, <1>2, <1>3 DEF TickInv, HunterKnown
  <1>6. HunterBeats'
    BY <1>3 DEF TickInv, HunterBeats
  <1>7. HuntersPast'
    BY <1>1, <1>3, <1>4 DEF TickInv, HuntersPast
  <1>8. HuntersDiffer'
    BY <1>3, <1>4 DEF TickInv, HuntersDiffer
  <1>9. CaughtLater'
    <2>1. ASSUME NEW p \in caught', catcher'[p] \in caught'
          PROVE  catcher'[catcher'[p]] > catcher'[p]
      <3>1. CASE p = j
        BY <1>1, <1>2, <1>3, <2>1, <3>1
      <3>2. CASE p \in caught /\ catcher[p] = j
        BY <1>3, <3>2 DEF TickInv, HuntersPast
      <3>3. CASE p \in caught /\ catcher[p] \in caught
        BY <1>3, <3>3 DEF TickInv, CaughtLater
      <3> QED BY <1>3, <2>1, <3>1, <3>2, <3>3
    <2> QED BY <2>1 DEF CaughtLater
  <1> QED BY <1>5, <1>6, <1>7, <1>8, <1>9

LEMMA TurnKeepsTick == TickInv /\ Turn => TickInv'
  <1> SUFFICES ASSUME TickInv, Turn PROVE TickInv'
    OBVIOUS
  <1>1. turn \in Slots /\ turn' = turn + 1 /\ turn' \in 0 .. MaxPlayers
        /\ choice' = choice /\ phase' = phase
    BY ChaseAssumption DEF Turn, Slots, TickInv, TypeOK
  <1>2. CASE UNCHANGED <<x, alive, caught, catcher>>
    <2>1. TypeOK'
      BY <1>1, <1>2 DEF TickInv, TypeOK
    <2>2. HuntersPast'
      BY <1>1, <1>2, CatchersPast DEF HuntersPast, Slots
    <2> QED BY <1>1, <1>2, <2>1, <2>2
            DEF TickInv, HunterKnown, HunterBeats, HuntersDiffer, CaughtLater
  <1>3. ASSUME NEW j \in Prey(turn), Hunts(turn), Hunt(turn, j) PROVE TickInv'
    <2>1. j \in alive /\ j \in Slots /\ turn \in alive /\ CanEat(choice[turn], choice[j])
      BY <1>3 DEF Prey, Hunts, TickInv, TypeOK
    <2>2. CASE /\ alive' = alive \ {j}
               /\ caught' = caught \cup {j}
               /\ catcher' = [catcher EXCEPT ![j] = turn]
               /\ x' \in [Slots -> Int]
      <3>1. TypeOK'
        BY <1>1, <2>1, <2>2 DEF TickInv, TypeOK
      <3> QED BY <1>1, <2>1, <2>2, <3>1, OneMoreCapture DEF TickInv
    <2>3. CASE UNCHANGED <<alive, caught, catcher>> /\ x' \in [Slots -> Int]
      <3>1. TypeOK'
        BY <1>1, <2>3 DEF TickInv, TypeOK
      <3>2. HuntersPast'
        BY <1>1, <2>3, CatchersPast DEF HuntersPast, Slots
      <3> QED BY <1>1, <2>3, <3>1, <3>2
              DEF TickInv, HunterKnown, HunterBeats, HuntersDiffer, CaughtLater
    <2> QED BY <1>1, <1>3, <2>1, <2>2, <2>3, HuntOutcome DEF TickInv
  <1> QED BY <1>2, <1>3 DEF Turn

LEMMA EndTickKeepsTick == TickInv /\ EndTick => TickInv'
  BY ChaseAssumption
     DEF EndTick, TickInv, TypeOK, HunterKnown, HunterBeats, HuntersPast, HuntersDiffer,
         CaughtLater, Nobody

(* The types of the round hold in every state of it, and so does what the history
   says of the captures of its ticks (chase_simulation.c:91-158). *)
THEOREM TickInvariant == Spec => []TickInv
  <1>1. TickInv /\ [Next]_vars => TickInv'
    <2>1. TickInv /\ UNCHANGED vars => TickInv'
      BY DEF vars, TickInv, TypeOK, HunterKnown, HunterBeats, HuntersPast, HuntersDiffer,
             CaughtLater
    <2> QED BY <2>1, TurnKeepsTick, EndTickKeepsTick DEF Next
  <1> QED BY <1>1, InitTick, PTL DEF Spec

(* The state keeps its types, and the captured are not among the living
   (chase_simulation.c:91-158). *)
THEOREM ChaseTypeCorrect == Spec => []TypeOK
  <1>1. TickInv => TypeOK
    BY DEF TickInv
  <1> QED BY <1>1, TickInvariant, PTL

(* What a tick has captured at any point of its loop is what MatchServer lets one
   tick capture (chase_simulation.c:98-153). *)
THEOREM CapturesAllowedAlways == Spec => []CapturesAllowed
  <1>1. TickInv => CapturesAllowed
    <2> SUFFICES ASSUME TickInv PROVE Server!Capturable(caught)
      BY DEF CapturesAllowed
    <2> DEFINE hunter == [p \in caught |-> catcher[p]]
    <2>1. Server!Alive = alive \cup caught
      BY DEF Server!Alive, Server!Admitted, Server!Slots, Slots, TickInv, TypeOK
    <2>2. hunter \in [caught -> Server!Alive]
      BY <2>1 DEF TickInv, HunterKnown
    <2>3. \A p, q \in caught : hunter[p] = hunter[q] => p = q
      BY DEF TickInv, HuntersDiffer
    <2>4. \A p \in caught : /\ Server!CanEat(choice[hunter[p]], choice[p])
                            /\ hunter[p] \in caught => hunter[hunter[p]] > hunter[p]
      BY DEF TickInv, HunterBeats, CaughtLater, Server!CanEat, CanEat
    <2> HIDE DEF hunter
    <2> QED BY <2>2, <2>3, <2>4 DEF Server!Capturable
  <1> QED BY <1>1, TickInvariant, PTL

(* A round has a survivor: whoever catches stays (chase_simulation.c:91-158). *)
THEOREM SurvivorLeftAlways == Spec => []SurvivorLeft
  <1>1. Init => SurvivorLeft
    <2>1. 0 \in Slots
      BY ChaseAssumption DEF Slots
    <2> QED BY <2>1 DEF Init, SurvivorLeft
  <1>2. TickInv /\ SurvivorLeft /\ [Next]_vars => SurvivorLeft'
    <2> SUFFICES ASSUME TickInv, SurvivorLeft, Next PROVE SurvivorLeft'
      BY DEF vars, SurvivorLeft
    <2>1. ASSUME NEW j \in Prey(turn), Hunts(turn), Hunt(turn, j), turn \in Slots
          PROVE  SurvivorLeft'
      <3>1. turn # j /\ turn \in alive /\ j \in Slots
        BY <2>1, NobodyEatsItself DEF Prey, Hunts, TickInv, TypeOK
      <3>2. turn \in alive'
        BY <2>1, <3>1, HuntOutcome DEF TickInv
      <3> QED BY <3>2 DEF SurvivorLeft
    <2> QED BY <2>1 DEF Next, Turn, EndTick, SurvivorLeft
  <1> QED BY <1>1, <1>2, TickInvariant, PTL DEF Spec
-----------------------------------------------------------------------------
(* Where the players are. *)

OnTheRow(v) == \E a, b \in Tiles : Tile * a <= v /\ v <= Tile * b

LEMMA TowardsBetween ==
  ASSUME NEW u \in Int, NEW v \in Int
  PROVE  \/ u <= Towards(u, v) /\ Towards(u, v) <= v
         \/ v <= Towards(u, v) /\ Towards(u, v) <= u
  BY ChaseAssumption DEF Towards, Distance

LEMMA TowardsOnTheRow ==
  ASSUME NEW u \in Int, NEW v \in Int, OnTheRow(u), OnTheRow(v)
  PROVE  OnTheRow(Towards(u, v))
  <1>1. Towards(u, v) \in Int
    BY TowardsWhole
  <1>2. PICK a \in Tiles, b \in Tiles : Tile * a <= u /\ u <= Tile * b
    BY DEF OnTheRow
  <1>3. PICK c \in Tiles, d \in Tiles : Tile * c <= v /\ v <= Tile * d
    BY DEF OnTheRow
  <1>4. Tile * a \in Int /\ Tile * b \in Int /\ Tile * c \in Int /\ Tile * d \in Int
    BY ChaseAssumption
  <1>5. CASE u <= Towards(u, v) /\ Towards(u, v) <= v
    <2>1. Tile * a <= Towards(u, v) /\ Towards(u, v) <= Tile * d
      BY <1>1, <1>2, <1>3, <1>4, <1>5
    <2> QED BY <2>1 DEF OnTheRow
  <1>6. CASE v <= Towards(u, v) /\ Towards(u, v) <= u
    <2>1. Tile * c <= Towards(u, v) /\ Towards(u, v) <= Tile * b
      BY <1>1, <1>2, <1>3, <1>4, <1>6
    <2> QED BY <2>1 DEF OnTheRow
  <1> QED BY <1>5, <1>6, TowardsBetween

(* The living are between the tiles where the round began, and the others off the
   board (chase_simulation.c:116-119, 144-149). *)
THEOREM PlacesHoldAlways == Spec => []PlacesHold
  <1> USE DEF OnTheRow
  <1>1. Init => PlacesHold
    <2> SUFFICES ASSUME Init, NEW i \in Slots PROVE OnTheRow(x[i])
      BY DEF Init, PlacesHold
    <2>1. PICK t \in Tiles : x[i] = Tile * t
      BY DEF Init
    <2>2. Tile * t \in Int
      BY ChaseAssumption
    <2> QED BY <2>1, <2>2
  <1>2. TickInv /\ PlacesHold /\ [Next]_vars => PlacesHold'
    <2> SUFFICES ASSUME TickInv, PlacesHold, Next PROVE PlacesHold'
      BY DEF vars, PlacesHold
    <2>1. ASSUME NEW j \in Prey(turn), Hunt(turn, j), turn \in Slots, turn \in alive,
                 turn # j
          PROVE  PlacesHold'
      <3>1. /\ j \in alive /\ j \in Slots
            /\ x \in [Slots -> Int] /\ OnTheRow(x[turn]) /\ OnTheRow(x[j])
        BY <2>1 DEF Prey, TickInv, TypeOK, PlacesHold
      <3>2. OnTheRow(Towards(x[turn], x[j]))
        BY <2>1, <3>1, TowardsOnTheRow
      <3>3. ASSUME NEW from, OnTheRow(from), Catch(turn, j, from) PROVE PlacesHold'
        BY <2>1, <3>1, <3>3 DEF Catch, PlacesHold
      <3>4. CASE /\ x' = [x EXCEPT ![turn] = Towards(x[turn], x[j])]
                 /\ UNCHANGED <<alive, caught, catcher>>
        BY <2>1, <3>1, <3>2, <3>4 DEF PlacesHold
      <3> QED BY <2>1, <3>1, <3>2, <3>3, <3>4 DEF Hunt
    <2>2. ASSUME NEW j \in Prey(turn), Hunts(turn), turn \in Slots
          PROVE  turn \in alive /\ turn # j
      BY <2>2, NobodyEatsItself DEF Prey, Hunts, TickInv, TypeOK
    <2> QED BY <2>1, <2>2 DEF Next, Turn, EndTick, PlacesHold
  <1> QED BY <1>1, <1>2, TickInvariant, PTL DEF Spec
=============================================================================
