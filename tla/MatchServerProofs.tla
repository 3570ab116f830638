------------------------- MODULE MatchServerProofs -------------------------
(***************************************************************************)
(* Theorems of MatchServer, for every number of slots and every set of     *)
(* slots whose output buffer may fill: what  holds of every state, and     *)
(* that the calls of every handler run out.                                *)
(***************************************************************************)
EXTENDS MatchServer, SequenceTheorems, FiniteSetTheorems, WellFoundedInduction, TLAPS

(* Every set of natural numbers has a least one: the provers' induction. *)
LEMMA LeastNatural ==
  ASSUME NEW T \in SUBSET Nat, T # {}
  PROVE  \E m \in T : \A x \in T : m <= x
  <1>1. \E m \in T : \A x \in T : ~(<<x, m>> \in OpToRel(<, Nat))
    BY NatLessThanWellFounded, WFMin, Zenon
  <1>2. \E m \in T : \A x \in T : ~(<<x, m>> \in {s \in Nat \X Nat : s[1] < s[2]})
    BY <1>1, Zenon DEF OpToRel
  <1>3. ASSUME NEW x \in Nat, NEW m \in Nat, x < m
        PROVE  <<x, m>> \in {s \in Nat \X Nat : s[1] < s[2]}
    BY <1>3
  <1>4. PICK m \in T : \A x \in T : ~(x < m)
    BY <1>2, <1>3
  <1> QED BY <1>4

(* The calls on a stack, whatever their order: the invariants of the stack are
   about these, and the order is used once, in the next lemmas. *)
Frames(q) == {q[k] : k \in 1 .. Len(q)}

LEMMA FramesOfEmpty == Frames(<<>>) = {}
  BY DEF Frames

LEMMA FramesOfOne == ASSUME NEW a PROVE Frames(<<a>>) = {a}
  BY DEF Frames

LEMMA FramesOfTwo == ASSUME NEW a, NEW b PROVE Frames(<<a, b>>) = {a, b}
  BY DEF Frames

LEMMA FramesOfThree ==
  ASSUME NEW a, NEW b, NEW c PROVE Frames(<<a, b, c>>) = {a, b, c}
  BY DEF Frames

LEMMA FramesOfConcat ==
  ASSUME NEW S, NEW p \in Seq(S), NEW q \in Seq(S)
  PROVE  Frames(p \o q) = Frames(p) \cup Frames(q)
  <1>1. p \o q \in Seq(S) /\ Len(p \o q) = Len(p) + Len(q)
    OBVIOUS
  <1>2. \A k \in 1 .. Len(p) + Len(q) :
           (p \o q)[k] = IF k <= Len(p) THEN p[k] ELSE q[k - Len(p)]
    OBVIOUS
  <1>3. ASSUME NEW x \in Frames(p \o q) PROVE x \in Frames(p) \cup Frames(q)
    <2>1. PICK k \in 1 .. Len(p) + Len(q) : x = (p \o q)[k]
      BY <1>1, <1>3 DEF Frames
    <2>2. CASE k <= Len(p)
      BY <1>2, <2>1, <2>2 DEF Frames
    <2>3. CASE k > Len(p)
      <3>1. k - Len(p) \in 1 .. Len(q) /\ x = q[k - Len(p)]
        BY <1>2, <2>1, <2>3
      <3> QED BY <3>1 DEF Frames
    <2> QED BY <2>2, <2>3
  <1>4. ASSUME NEW x \in Frames(p) \cup Frames(q) PROVE x \in Frames(p \o q)
    <2>1. CASE x \in Frames(p)
      <3>1. PICK k \in 1 .. Len(p) : x = p[k]
        BY <2>1 DEF Frames
      <3>2. k \in 1 .. Len(p) + Len(q) /\ x = (p \o q)[k]
        BY <1>2, <3>1
      <3> QED BY <1>1, <3>2 DEF Frames
    <2>2. CASE x \in Frames(q)
      <3>1. PICK k \in 1 .. Len(q) : x = q[k]
        BY <2>2 DEF Frames
      <3>2. k + Len(p) \in 1 .. Len(p) + Len(q) /\ x = (p \o q)[k + Len(p)]
        BY <1>2, <3>1
      <3> QED BY <1>1, <3>2 DEF Frames
    <2> QED BY <1>4, <2>1, <2>2
  <1> QED BY <1>3, <1>4

(* The same for the calls of the server. *)
LEMMA CallFrames ==
  ASSUME NEW p \in Seq(Calls), NEW q \in Seq(Calls)
  PROVE  p \o q \in Seq(Calls) /\ Frames(p \o q) = Frames(p) \cup Frames(q)
  <1>1. p \o q \in Seq(Calls)
    OBVIOUS
  <1> QED BY <1>1, FramesOfConcat

(* The stack is its running call on top of the others. *)
LEMMA FramesOfStack ==
  ASSUME NEW S, NEW q \in Seq(S), q # <<>>
  PROVE  /\ Head(q) \in S /\ Tail(q) \in Seq(S)
         /\ Frames(q) = {Head(q)} \cup Frames(Tail(q))
  <1>1. /\ Head(q) \in S /\ Tail(q) \in Seq(S)
        /\ Head(q) = q[1] /\ Len(q) \in Nat \ {0}
        /\ Len(Tail(q)) = Len(q) - 1
        /\ \A k \in 1 .. Len(q) - 1 : Tail(q)[k] = q[k + 1]
    OBVIOUS
  <1>2. ASSUME NEW x \in Frames(q) PROVE x \in {Head(q)} \cup Frames(Tail(q))
    <2>1. PICK k \in 1 .. Len(q) : x = q[k]
      BY <1>2 DEF Frames
    <2>2. CASE k = 1
      BY <1>1, <2>1, <2>2
    <2>3. CASE k # 1
      <3>1. k - 1 \in 1 .. Len(Tail(q)) /\ x = Tail(q)[k - 1]
        BY <1>1, <2>1, <2>3
      <3> QED BY <3>1 DEF Frames
    <2> QED BY <2>2, <2>3
  <1>3. Head(q) \in Frames(q)
    BY <1>1 DEF Frames
  <1>4. ASSUME NEW x \in Frames(Tail(q)) PROVE x \in Frames(q)
    <2>1. PICK k \in 1 .. Len(q) - 1 : x = Tail(q)[k]
      BY <1>1, <1>4 DEF Frames
    <2>2. k + 1 \in 1 .. Len(q) /\ x = q[k + 1]
      BY <1>1, <2>1
    <2> QED BY <2>2 DEF Frames
  <1> QED BY <1>1, <1>2, <1>3, <1>4

(* What a call that returns, having made calls, leaves on the stack. *)
LEMMA ReturnFrames ==
  ASSUME todo \in Seq(Calls), todo # <<>>, NEW calls \in Seq(Calls), Return(calls)
  PROVE  /\ todo' \in Seq(Calls)
         /\ Head(todo) \in Calls
         /\ Frames(todo) = {Head(todo)} \cup Frames(Tail(todo))
         /\ Frames(todo') = Frames(calls) \cup Frames(Tail(todo))
  <1>1. /\ Head(todo) \in Calls /\ Tail(todo) \in Seq(Calls)
        /\ Frames(todo) = {Head(todo)} \cup Frames(Tail(todo))
    BY FramesOfStack
  <1>2. Frames(calls \o Tail(todo)) = Frames(calls) \cup Frames(Tail(todo))
    <2>1. \A p, q \in Seq(Calls) : Frames(p \o q) = Frames(p) \cup Frames(q)
      BY FramesOfConcat
    <2> QED BY <1>1, <2>1
  <1>3. calls \o Tail(todo) \in Seq(Calls)
    BY <1>1
  <1> QED BY <1>1, <1>2, <1>3 DEF Return

-----------------------------------------------------------------------------
(* Type correctness.  TypeOK is inductive: its data part follows from what
   each action assigns, its stack part from the calls it makes. *)

StackOK == todo \in Seq(Calls)

DataOK ==
    /\ connected \subseteq Slots /\ registered \subseteq connected
    /\ admitted \subseteq Slots /\ alive \subseteq Slots /\ waiting \subseteq Slots
    /\ spawn_chosen \subseteq Slots /\ lagging \subseteq Slots
    /\ choice \in [Slots -> Choice \cup {NoChoice}]
    /\ told \in [Slots -> ProgressLines \cup {"nothing"}]
    /\ phase \in Phases
    /\ join_deadline \in Deadlines /\ setup_deadline \in Deadlines
    /\ round_no \in Nat

LEMMA TypeParts == TypeOK <=> DataOK /\ StackOK
  BY DEF TypeOK, DataOK, StackOK

LEMMA LinesOfVerdict ==
  ASSUME DataOK, NEW i \in Slots
  PROVE  Verdict(i) \in ProgressLines \cup {"nothing"}
  BY DEF DataOK, Verdict, ProgressLines

LEMMA LinesOfState ==
  ASSUME DataOK, NEW i \in Slots
  PROVE  StateLine(i) \in ProgressLines \cup {"nothing"}
  BY LinesOfVerdict DEF DataOK, StateLine, LobbyLine, ProgressLines, Phases

LEMMA LinesHeard ==
  ASSUME DataOK, NEW i \in Slots, NEW line
  PROVE  Heard(i, line) \in ProgressLines \cup {"nothing"}
  BY DEF DataOK, Heard

(* A call is a member of Calls. *)
LEMMA CallTypes ==
  /\ \A line \in Lines : Broadcast(line) \in Calls
  /\ \A f \in Procedures : Call(f) \in Calls
  /\ \A f \in SlotProcedures, i \in Slots : CallOn(f, i) \in Calls
  /\ \A i \in 0 .. MaxPlayers : CallOn("broadcast_positions", i) \in Calls
  BY DEF Calls, Broadcast, Call, CallOn

(* The argument of a running call. *)
LEMMA RunningSlot ==
  ASSUME StackOK, NEW f \in SlotProcedures, Running(f)
  PROVE  Head(todo).slot \in Slots
  <1>1. Head(todo) \in Calls /\ Head(todo).fn = f
    BY FramesOfStack DEF StackOK, Running
  <1>2. f \notin Procedures \cup {"queue_broadcast", "broadcast_positions"}
    BY DEF Procedures, SlotProcedures
  <1> QED BY <1>1, <1>2 DEF Calls

(* Queueing lines to some slots and dropping others keeps the data's types. *)
LEMMA QueueType ==
  ASSUME DataOK, NEW said, NEW lost,
         \A i \in DOMAIN said : i \in Slots => said[i] \in ProgressLines \cup {"nothing"},
         Queue(said, lost),
         phase' \in Phases, UNCHANGED <<join_deadline, setup_deadline, round_no>>
  PROVE  DataOK'
  BY DEF DataOK, Queue

LEMMA AfterType == ASSUME NEW lost PROVE After(lost) \in Seq(Calls)
  BY CallTypes DEF After, Procedures

LEMMA FarewellType == ASSUME NEW i PROVE Farewell(i) \in Seq(Calls)
  BY CallTypes DEF Farewell, Procedures, Lines

LEMMA ReturnType ==
  ASSUME StackOK, todo # <<>>, NEW calls \in Seq(Calls), Return(calls)
  PROVE  StackOK'
  BY ReturnFrames DEF StackOK

LEMMA ReturnNothing ==
  ASSUME StackOK, todo # <<>>, Return(<<>>)
  PROVE  StackOK'
  <1>1. <<>> \in Seq(Calls)
    OBVIOUS
  <1> QED BY <1>1, ReturnType

LEMMA EndGameType ==
  ASSUME DataOK, StackOK, todo # <<>>, EndGame
  PROVE  DataOK' /\ StackOK'
  <1>1. PICK lost \in SUBSET (Registered \cap lagging) :
           Queue([i \in Registered |-> Verdict(i)], lost)
    BY DEF EndGame
  <1>2. DataOK'
    <2>1. \A i \in Registered : i \in Slots
      BY DEF DataOK, Registered
    <2>2. phase' \in Phases /\ UNCHANGED <<join_deadline, setup_deadline, round_no>>
      BY DEF EndGame, Phases
    <2> QED BY <1>1, <2>1, <2>2, LinesOfVerdict, QueueType
  <1>3. StackOK'
    BY ReturnNothing DEF EndGame
  <1> QED BY <1>2, <1>3

LEMMA StartActiveRoundType ==
  ASSUME DataOK, StackOK, todo # <<>>, StartActiveRound
  PROVE  DataOK' /\ StackOK'
  <1>1. DataOK'
    BY DEF DataOK, StartActiveRound, StartRound, Phases
  <1>2. <<Broadcast("ROUND_START"), CallOn("broadcast_positions", 0)>> \in Seq(Calls)
    BY CallTypes, MatchServerAssumption DEF Lines
  <1>3. StackOK'
    BY <1>2, ReturnType DEF StartActiveRound
  <1> QED BY <1>1, <1>3

LEMMA SettleSetupType ==
  ASSUME DataOK, StackOK, todo # <<>>, SettleSetup
  PROVE  DataOK' /\ StackOK'
  <1>1. CASE EndGame
    BY <1>1, EndGameType
  <1>2. CASE StartActiveRound
    BY <1>2, StartActiveRoundType
  <1>3. CASE Return(<<>>) /\ UNCHANGED <<players, match>>
    BY <1>3, ReturnNothing DEF players, match, DataOK
  <1> QED BY <1>1, <1>2, <1>3 DEF SettleSetup

LEMMA ReevaluateType ==
  ASSUME DataOK, StackOK, Reevaluate
  PROVE  DataOK' /\ StackOK'
  <1>0. todo # <<>>
    BY DEF Reevaluate, Running
  <1>1. CASE ReevaluateLobby
    <2>1. StackOK'
      BY <1>0, <1>1, ReturnNothing DEF ReevaluateLobby
    <2>2. DataOK'
      BY <1>1 DEF ReevaluateLobby, players, DataOK, Deadlines
    <2> QED BY <2>1, <2>2
  <1>2. CASE SettleSetup
    BY <1>0, <1>2, SettleSetupType
  <1>3. CASE EndGame
    BY <1>0, <1>3, EndGameType
  <1>4. CASE Return(<<>>) /\ UNCHANGED <<players, match>>
    BY <1>0, <1>4, ReturnNothing DEF players, match, DataOK
  <1>5. phase \in Phases
    BY DEF DataOK
  <1> QED BY <1>1, <1>2, <1>3, <1>4, <1>5 DEF Reevaluate, ReevaluateRound, Phases

LEMMA BroadcastType ==
  ASSUME DataOK, StackOK,
         QueueBroadcast \/ BroadcastGameState \/ BroadcastPositions
  PROVE  DataOK' /\ StackOK'
  <1>0. todo # <<>>
    BY DEF QueueBroadcast, BroadcastGameState, BroadcastPositions, Running
  <1>1. CASE QueueBroadcast
    <2>1. PICK lost \in SUBSET (connected \cap lagging) :
             /\ Queue([i \in connected |-> Heard(i, Head(todo).line)], lost)
             /\ Return(After(lost))
      BY <1>1 DEF QueueBroadcast
    <2>2. phase' \in Phases /\ UNCHANGED <<join_deadline, setup_deadline, round_no>>
      BY <1>1 DEF QueueBroadcast, match, DataOK
    <2>3. DataOK'
      BY <2>1, <2>2, LinesHeard, QueueType
    <2>4. StackOK'
      BY <1>0, <2>1, AfterType, ReturnType
    <2> QED BY <2>3, <2>4
  <1>2. CASE BroadcastGameState
    <2>1. PICK lost \in SUBSET (Registered \cap lagging) :
             /\ Queue([i \in Registered |-> StateLine(i)], lost)
             /\ Return(After(lost))
      BY <1>2 DEF BroadcastGameState
    <2>2. phase' \in Phases /\ UNCHANGED <<join_deadline, setup_deadline, round_no>>
      BY <1>2 DEF BroadcastGameState, match, DataOK
    <2>3. DataOK'
      BY <2>1, <2>2, LinesOfState, QueueType
    <2>4. StackOK'
      BY <1>0, <2>1, AfterType, ReturnType
    <2> QED BY <2>3, <2>4
  <1>3. CASE BroadcastPositions
    <2>1. DataOK'
      BY <1>3 DEF BroadcastPositions, players, match, DataOK
    <2>2. CASE Return(<<>>)
      <3>1. StackOK'
        BY <1>0, <2>2, ReturnNothing
      <3> QED BY <2>1, <3>1
    <2>3. ASSUME NEW i \in Admitted,
                 Return(<<Broadcast("PLAYER"), CallOn("broadcast_positions", i + 1)>>)
          PROVE  StackOK'
      <3>1. i + 1 \in 0 .. MaxPlayers
        BY MatchServerAssumption DEF DataOK, Admitted, Slots
      <3>2. <<Broadcast("PLAYER"), CallOn("broadcast_positions", i + 1)>> \in Seq(Calls)
        BY <3>1, CallTypes DEF Lines
      <3> QED BY <1>0, <2>3, <3>2, ReturnType
    <2>4. \/ Return(<<>>)
          \/ \E i \in Admitted :
               Return(<<Broadcast("PLAYER"), CallOn("broadcast_positions", i + 1)>>)
      BY <1>3 DEF BroadcastPositions
    <2> QED BY <2>1, <2>2, <2>3, <2>4
  <1> QED BY <1>1, <1>2, <1>3

LEMMA AdmissionType ==
  ASSUME DataOK, StackOK, MaybeAdmit \/ AdmitTail
  PROVE  DataOK' /\ StackOK'
  <1> DEFINE i == Head(todo).slot
  <1>0. todo # <<>>
    BY DEF MaybeAdmit, AdmitTail, Running
  <1>1. i \in Slots
    BY RunningSlot DEF MaybeAdmit, AdmitTail, SlotProcedures
  <1>2. ASSUME MaybeAdmit PROVE DataOK' /\ StackOK'
    <2>1. CASE Return(<<>>) /\ UNCHANGED <<players, match>>
      BY <1>0, <2>1, ReturnNothing DEF players, match, DataOK
    <2>2. ASSUME NEW lost \in SUBSET ({i} \cap lagging), Queue(Silence, lost),
                 Return(After(lost)), UNCHANGED match
          PROVE  DataOK' /\ StackOK'
      <3>1. DataOK'
        BY <2>2, QueueType DEF Silence, match, DataOK
      <3> QED BY <1>0, <2>2, <3>1, AfterType, ReturnType
    <2>3. ASSUME join_deadline' = IF join_deadline = "unset" THEN "pending"
                                  ELSE join_deadline,
                 Return((IF join_deadline = "unset" THEN <<Broadcast("LOBBY_OPEN")>>
                         ELSE <<>>) \o <<CallOn("maybe_admit_player.tail", i)>>),
                 UNCHANGED <<players, phase, setup_deadline, round_no>>
          PROVE  DataOK' /\ StackOK'
      <3>1. DataOK'
        BY <2>3 DEF players, DataOK, Deadlines
      <3>2. /\ <<Broadcast("LOBBY_OPEN")>> \in Seq(Calls) /\ <<>> \in Seq(Calls)
            /\ <<CallOn("maybe_admit_player.tail", i)>> \in Seq(Calls)
        BY <1>1, CallTypes DEF Lines, SlotProcedures
      <3>3. (IF join_deadline = "unset" THEN <<Broadcast("LOBBY_OPEN")>> ELSE <<>>)
               \o <<CallOn("maybe_admit_player.tail", i)>> \in Seq(Calls)
        BY <3>2
      <3>4. StackOK'
        BY <1>0, <2>3, <3>3, ReturnType
      <3> QED BY <3>1, <3>4
    <2> QED BY <1>2, <2>1, <2>2, <2>3 DEF MaybeAdmit
  <1>3. ASSUME AdmitTail PROVE DataOK' /\ StackOK'
    <2>1. ASSUME admitted' = admitted \cup {i}, waiting' = waiting \cup {i},
                 Return(<<Broadcast("JOINED"), Call("broadcast_game_state")>>),
                 UNCHANGED <<connected, registered, alive, spawn_chosen, choice,
                             told, lagging, match>>
          PROVE  DataOK' /\ StackOK'
      <3>1. DataOK'
        BY <1>1, <2>1 DEF match, DataOK
      <3>2. <<Broadcast("JOINED"), Call("broadcast_game_state")>> \in Seq(Calls)
        BY CallTypes DEF Lines, Procedures
      <3> QED BY <1>0, <2>1, <3>1, <3>2, ReturnType
    <2>2. ASSUME Queue(Silence, {i}), Return(<<Call("reevaluate_state")>>),
                 UNCHANGED match
          PROVE  DataOK' /\ StackOK'
      <3>1. DataOK'
        BY <2>2, QueueType DEF Silence, match, DataOK
      <3>2. <<Call("reevaluate_state")>> \in Seq(Calls)
        BY CallTypes DEF Procedures
      <3> QED BY <1>0, <2>2, <3>1, <3>2, ReturnType
    <2> QED BY <1>3, <2>1, <2>2 DEF AdmitTail
  <1> QED BY <1>2, <1>3

LEMMA CloseLobbyType ==
  ASSUME DataOK, StackOK, CloseLobby \/ CloseLobbyTail
  PROVE  DataOK' /\ StackOK'
  <1>0. todo # <<>>
    BY DEF CloseLobby, CloseLobbyTail, Running
  <1>1. CASE Return(<<>>) /\ UNCHANGED <<players, match>>
    BY <1>0, <1>1, ReturnNothing DEF players, match, DataOK
  <1>2. CASE EndGame
    BY <1>0, <1>2, EndGameType
  <1>3. CASE StartActiveRound
    BY <1>0, <1>3, StartActiveRoundType
  <1>4. ASSUME phase' = "SETUP", setup_deadline' = "pending",
               Return(<<Broadcast("LOBBY_CLOSED"), Broadcast("SETUP_OPEN"),
                        Call("close_lobby_if_needed.tail")>>),
               UNCHANGED <<players, join_deadline, round_no>>
        PROVE  DataOK' /\ StackOK'
    <2>1. DataOK'
      BY <1>4 DEF players, DataOK, Phases, Deadlines
    <2>2. <<Broadcast("LOBBY_CLOSED"), Broadcast("SETUP_OPEN"),
            Call("close_lobby_if_needed.tail")>> \in Seq(Calls)
      BY CallTypes DEF Lines, Procedures
    <2> QED BY <1>0, <1>4, <2>1, <2>2, ReturnType
  <1>5. ASSUME Return(<<Broadcast("WAITING_FOR_OTHERS")>>), UNCHANGED <<players, match>>
        PROVE  DataOK' /\ StackOK'
    <2>1. DataOK'
      BY <1>5 DEF players, match, DataOK
    <2>2. <<Broadcast("WAITING_FOR_OTHERS")>> \in Seq(Calls)
      BY CallTypes DEF Lines
    <2> QED BY <1>0, <1>5, <2>1, <2>2, ReturnType
  <1>6. ASSUME CloseLobby PROVE DataOK' /\ StackOK'
    BY <1>6, <1>1, <1>4 DEF CloseLobby
  <1>7. ASSUME CloseLobbyTail PROVE DataOK' /\ StackOK'
    BY <1>7, <1>2, <1>3, <1>5 DEF CloseLobbyTail
  <1> QED BY <1>6, <1>7

LEMMA ExpireType ==
  ASSUME DataOK, StackOK, Expire \/ ExpireSlot \/ ExpireTail
  PROVE  DataOK' /\ StackOK'
  <1>0. todo # <<>>
    BY DEF Expire, ExpireSlot, ExpireTail, Running
  <1>1. ASSUME Expire PROVE DataOK' /\ StackOK'
    <2>1. DataOK'
      BY <1>1 DEF Expire, players, match, DataOK
    <2>2. [k \in 1 .. MaxPlayers |-> CallOn("expire_unready.slot", k - 1)] \in Seq(Calls)
      <3>1. \A k \in 1 .. MaxPlayers : CallOn("expire_unready.slot", k - 1) \in Calls
        BY MatchServerAssumption, CallTypes DEF Slots, SlotProcedures
      <3> QED BY <3>1, MatchServerAssumption
    <2>3. <<Call("expire_unready.tail")>> \in Seq(Calls) /\ <<>> \in Seq(Calls)
      BY CallTypes DEF Procedures
    <2>4. (IF SetupExpired
           THEN [k \in 1 .. MaxPlayers |-> CallOn("expire_unready.slot", k - 1)]
                  \o <<Call("expire_unready.tail")>>
           ELSE <<>>) \in Seq(Calls)
      BY <2>2, <2>3
    <2>5. StackOK'
      BY <1>0, <1>1, <2>4, ReturnType DEF Expire
    <2> QED BY <2>1, <2>5
  <1>2. ASSUME ExpireSlot PROVE DataOK' /\ StackOK'
    <2>1. CASE Return(<<>>) /\ UNCHANGED players
      BY <1>0, <1>2, <2>1, ReturnNothing DEF ExpireSlot, players, match, DataOK
    <2>2. CASE DropLoudly(Head(todo).slot) /\ Return(Farewell(Head(todo).slot))
      <3>1. DataOK'
        BY <1>2, <2>2, QueueType DEF ExpireSlot, DropLoudly, Silence, match, DataOK
      <3> QED BY <1>0, <2>2, <3>1, FarewellType, ReturnType
    <2> QED BY <1>2, <2>1, <2>2 DEF ExpireSlot
  <1>3. ASSUME ExpireTail PROVE DataOK' /\ StackOK'
    BY <1>0, <1>3, SettleSetupType DEF ExpireTail
  <1> QED BY <1>1, <1>2, <1>3

LEMMA ChaseType ==
  ASSUME DataOK, StackOK, Chase
  PROVE  DataOK' /\ StackOK'
  <1>0. todo # <<>>
    BY DEF Chase, Running
  <1>1. CASE Return(<<>>) /\ UNCHANGED alive
    BY <1>0, <1>1, ReturnNothing DEF Chase, match, DataOK
  <1>2. ASSUME NEW S, alive' = alive \ S,
               Return(<<CallOn("broadcast_positions", 0)>> \o
                      (IF AtMostOneType(Alive \ S, choice)
                       THEN <<Call("reevaluate_state")>> ELSE <<>>))
        PROVE  DataOK' /\ StackOK'
    <2>1. DataOK'
      BY <1>2 DEF Chase, match, DataOK
    <2>2. /\ <<CallOn("broadcast_positions", 0)>> \in Seq(Calls)
          /\ <<Call("reevaluate_state")>> \in Seq(Calls) /\ <<>> \in Seq(Calls)
      BY MatchServerAssumption, CallTypes DEF Procedures
    <2>3. <<CallOn("broadcast_positions", 0)>> \o
             (IF AtMostOneType(Alive \ S, choice)
              THEN <<Call("reevaluate_state")>> ELSE <<>>) \in Seq(Calls)
      BY <2>2
    <2>4. StackOK'
      BY <1>0, <1>2, <2>3, ReturnType
    <2> QED BY <2>1, <2>4
  <1> QED BY <1>1, <1>2 DEF Chase

(* The actions of the idle server, which put the first calls on the stack. *)
LEMMA CommandType ==
  ASSUME DataOK, StackOK, NEW i \in Slots,
         Accept(i) \/ Command(i) \/ Leave(i) \/ FallBehind(i) \/ CatchUp(i)
  PROVE  DataOK' /\ StackOK'
  <1>1. CASE Accept(i)
    BY <1>1 DEF Accept, ResetProgress, match, DataOK, StackOK
  <1>2. CASE Hello(i)
    BY <1>2 DEF Hello, ResetProgress, LobbyStatus, LobbyLine, ProgressLines, match,
                DataOK, StackOK
  <1>3. ASSUME NEW c \in Picks, Choose(i, c) PROVE DataOK' /\ StackOK'
    <2>1. <<CallOn("maybe_admit_player", i)>> \in Seq(Calls)
      BY CallTypes DEF SlotProcedures
    <2> QED BY <1>3, <2>1, MatchServerAssumption DEF Choose, match, DataOK, StackOK
  <1>4. CASE Spawn(i)
    <2>1. <<CallOn("maybe_admit_player", i)>> \in Seq(Calls)
      BY CallTypes DEF SlotProcedures
    <2> QED BY <1>4, <2>1 DEF Spawn, match, DataOK, StackOK
  <1>5. CASE GetState(i)
    <2>1. PICK lost \in SUBSET ({i} \cap lagging) :
             Queue([j \in {i} |-> StateLine(j)], lost) /\ todo' = After(lost)
      BY <1>5 DEF GetState
    <2>2. phase' \in Phases /\ UNCHANGED <<join_deadline, setup_deadline, round_no>>
      BY <1>5 DEF GetState, match, DataOK
    <2>3. DataOK'
      BY <2>1, <2>2, LinesOfState, QueueType
    <2> QED BY <2>1, <2>3, AfterType DEF StackOK
  <1>6. CASE Rematch(i)
    BY <1>6 DEF Rematch, FreshMatch, ResetProgress, ResetSlots, Registered,
                ProgressLines, Phases, Deadlines, DataOK, StackOK
  <1>7. CASE Leave(i)
    <2>1. DataOK'
      BY <1>7, QueueType DEF Leave, DropLoudly, Silence, match, DataOK
    <2>2. <<Call("reevaluate_state")>> \in Seq(Calls)
      BY CallTypes DEF Procedures
    <2>3. Farewell(i) \o <<Call("reevaluate_state")>> \in Seq(Calls)
      BY <2>2, FarewellType
    <2> QED BY <1>7, <2>1, <2>3 DEF Leave, StackOK
  <1>8. CASE FallBehind(i)
    BY <1>8, MatchServerAssumption DEF FallBehind, match, DataOK, StackOK
  <1>9. CASE CatchUp(i)
    BY <1>9 DEF CatchUp, match, DataOK, StackOK
  <1> QED BY <1>1, <1>2, <1>3, <1>4, <1>5, <1>6, <1>7, <1>8, <1>9 DEF Command

LEMMA TimerType ==
  ASSUME DataOK, StackOK, Timers \/ JoinWindowEnds \/ SetupWindowEnds
  PROVE  DataOK' /\ StackOK'
  <1>1. CASE Timers
    <2>1. <<Call("close_lobby_if_needed"), Call("expire_unready_setup_players"),
            Call("chase")>> \in Seq(Calls)
      BY CallTypes DEF Procedures
    <2> QED BY <1>1, <2>1 DEF Timers, players, match, DataOK, StackOK
  <1>2. CASE JoinWindowEnds
    BY <1>2 DEF JoinWindowEnds, players, DataOK, StackOK, Deadlines
  <1>3. CASE SetupWindowEnds
    BY <1>3 DEF SetupWindowEnds, players, DataOK, StackOK, Deadlines
  <1> QED BY <1>1, <1>2, <1>3

LEMMA InitType == Init => TypeOK
  BY MatchServerAssumption
     DEF Init, TypeOK, Phases, Deadlines

LEMMA TypeStep == TypeOK /\ [Next]_vars => TypeOK'
  <1> SUFFICES ASSUME TypeOK, [Next]_vars PROVE DataOK' /\ StackOK'
    BY TypeParts DEF TypeOK, DataOK, StackOK
  <1>0. DataOK /\ StackOK
    BY TypeParts
  <1>1. CASE Step
    BY <1>0, <1>1, BroadcastType, ReevaluateType, AdmissionType, CloseLobbyType,
       ExpireType, ChaseType DEF Step
  <1>2. CASE Timers \/ JoinWindowEnds \/ SetupWindowEnds
    BY <1>0, <1>2, TimerType
  <1>3. ASSUME NEW i \in Slots,
               Accept(i) \/ Command(i) \/ Leave(i) \/ FallBehind(i) \/ CatchUp(i)
        PROVE  DataOK' /\ StackOK'
    BY <1>0, <1>3, CommandType
  <1>4. CASE UNCHANGED vars
    BY <1>0, <1>4 DEF vars, players, match, DataOK, StackOK
  <1> QED BY <1>1, <1>2, <1>3, <1>4 DEF Next

(* The types of the state, in every behaviour: no path of the nested calls
   leaves a registered slot that is not connected, or a call outside the
   functions of the module. *)
THEOREM TypeCorrect == Spec => []TypeOK
  <1> QED BY InitType, TypeStep, PTL DEF Spec

-----------------------------------------------------------------------------
(* The inductive invariant.  What the properties say of a state at rest has to
   be said of the states in the middle of the nested calls, by what is still
   on the stack: the calls of the timers and of an admission, Marked. *)

TimerFns == {"close_lobby_if_needed", "close_lobby_if_needed.tail",
             "expire_unready_setup_players", "expire_unready.slot",
             "expire_unready.tail", "chase"}
AdmitFns == {"maybe_admit_player", "maybe_admit_player.tail"}

Marked == {c \in Frames(todo) : c.fn \in TimerFns \cup AdmitFns}

(* One cause at a time: an admission is never suspended under the timers. *)
OneCause == \A c, d \in Marked : ~(c.fn \in TimerFns /\ d.fn \in AdmitFns)

(* A suspended admission is in the lobby, and its player complete or gone. *)
TailAdmitsReady ==
    \A c \in Marked : c.fn = "maybe_admit_player.tail" =>
        /\ phase = "LOBBY_OPEN"
        /\ c.slot \in connected => c.slot \in registered /\ Ready(c.slot)

(* While PHASE_SETUP lasts the call that will end it is on the stack. *)
TailEndsSetup ==
    phase = "SETUP" => \E c \in Marked : c.fn = "close_lobby_if_needed.tail"

(* The loop of expire_unready_setup_players is never reached. *)
NeverExpires ==
    /\ setup_deadline # "passed"
    /\ \A c \in Marked : c.fn \notin {"expire_unready.slot", "expire_unready.tail"}

FlagsOK == alive \subseteq Admitted /\ FlagsFollowPhase

IInv ==
    /\ OneCause /\ TailAdmitsReady /\ TailEndsSetup /\ NeverExpires
    /\ FlagsOK /\ AdmittedReady /\ OneTypeWins

(* The names of calls that mark nothing. *)
LEMMA Unmarked ==
  {"queue_broadcast", "reevaluate_state", "broadcast_game_state",
   "broadcast_positions"} \cap (TimerFns \cup AdmitFns) = {}
  BY DEF TimerFns, AdmitFns

(* A call that returns making only unmarked calls removes at most its own mark. *)
LEMMA PlainReturn ==
  ASSUME StackOK, todo # <<>>, NEW calls \in Seq(Calls), Return(calls),
         \A c \in Frames(calls) : c.fn \notin TimerFns \cup AdmitFns
  PROVE  Marked' \subseteq Marked /\ Marked \ {Head(todo)} \subseteq Marked'
  BY ReturnFrames DEF StackOK, Marked

LEMMA EmptyReturn ==
  ASSUME StackOK, todo # <<>>, Return(<<>>)
  PROVE  Marked' \subseteq Marked /\ Marked \ {Head(todo)} \subseteq Marked'
  <1>1. <<>> \in Seq(Calls) /\ Frames(<<>>) = {}
    BY FramesOfEmpty
  <1> QED BY <1>1, PlainReturn

(* The running call is marked by its name. *)
LEMMA RunningMarked ==
  ASSUME StackOK, NEW f, Running(f)
  PROVE  /\ todo # <<>> /\ Head(todo).fn = f
         /\ f \in TimerFns \cup AdmitFns => Head(todo) \in Marked
  BY FramesOfStack DEF StackOK, Running, Marked

LEMMA IdleMarked == ASSUME Idle PROVE Marked = {}
  BY FramesOfEmpty DEF Idle, Marked

LEMMA AfterPlain ==
  ASSUME NEW lost PROVE \A c \in Frames(After(lost)) : c.fn \notin TimerFns \cup AdmitFns
  BY FramesOfEmpty, FramesOfOne, Unmarked DEF After, Call

LEMMA FarewellPlain ==
  ASSUME NEW i PROVE \A c \in Frames(Farewell(i)) : c.fn \notin TimerFns \cup AdmitFns
  BY FramesOfEmpty, FramesOfTwo, Unmarked DEF Farewell, Broadcast, Call

-----------------------------------------------------------------------------
(* Dropping players keeps the invariant while the match and the marks stay. *)
LEMMA DropKeeps ==
  ASSUME TypeOK, IInv, NEW said, NEW lost, Queue(said, lost), UNCHANGED match,
         Marked' \subseteq Marked, TailEndsSetup'
  PROVE  IInv'
  <1>1. /\ Admitted' = Admitted \ lost
        /\ \A i \in Slots \ lost : choice'[i] = choice[i]
    BY DEF Queue, Admitted
  <1>2. Admitted \subseteq Slots
    BY DEF TypeOK, Admitted
  <1>3. OneCause'
    BY DEF IInv, OneCause
  <1>4. TailAdmitsReady'
    <2> SUFFICES ASSUME NEW c \in Marked', c.fn = "maybe_admit_player.tail"
                 PROVE  /\ phase' = "LOBBY_OPEN"
                        /\ c.slot \in connected' => c.slot \in registered' /\ Ready(c.slot)'
      BY DEF TailAdmitsReady
    <2>1. /\ phase = "LOBBY_OPEN"
          /\ c.slot \in connected => c.slot \in registered /\ Ready(c.slot)
      BY DEF IInv, TailAdmitsReady
    <2> QED BY <1>1, <2>1 DEF Queue, Ready, match, TypeOK
  <1>5. NeverExpires'
    BY DEF IInv, NeverExpires, match
  <1>6. FlagsOK'
    BY <1>1 DEF IInv, FlagsOK, FlagsFollowPhase, Alive, Queue, match
  <1>7. AdmittedReady'
    BY <1>1, <1>2 DEF IInv, AdmittedReady, Ready, Queue
  <1>8. Winners' \subseteq Winners \ lost
    BY <1>1 DEF Winners, WonMatch, Queue
  <1>9. OneTypeWins'
    BY <1>1, <1>8 DEF IInv, OneTypeWins, AtMostOneType, Winners, match
  <1> QED BY <1>3, <1>4, <1>5, <1>6, <1>7, <1>9 DEF IInv

(* The match ends on one choice, and no admission is suspended. *)
LEMMA EndGameKeeps ==
  ASSUME TypeOK, IInv, todo # <<>>, EndGame, AtMostOneType(Winners, choice),
         \A c \in Marked : c.fn # "maybe_admit_player.tail"
  PROVE  IInv'
  <1>1. PICK lost \in SUBSET (Registered \cap lagging) :
           Queue([i \in Registered |-> Verdict(i)], lost)
    BY DEF EndGame
  <1>2. Marked' \subseteq Marked
    BY EmptyReturn DEF EndGame, TypeOK, StackOK
  <1>3. /\ Admitted' = Admitted \ lost
        /\ \A i \in Slots \ lost : choice'[i] = choice[i]
    BY <1>1 DEF Queue, Admitted
  <1>4. Admitted \subseteq Slots
    BY DEF TypeOK, Admitted
  <1>5. OneCause' /\ TailAdmitsReady'
    BY <1>2 DEF IInv, OneCause, TailAdmitsReady
  <1>6. TailEndsSetup' /\ NeverExpires'
    BY <1>2 DEF IInv, TailEndsSetup, NeverExpires, EndGame
  <1>7. FlagsOK'
    BY <1>1, <1>3 DEF IInv, FlagsOK, FlagsFollowPhase, Queue, EndGame
  <1>8. AdmittedReady'
    BY <1>1, <1>3, <1>4 DEF IInv, AdmittedReady, Ready, Queue
  <1>9. Winners' \subseteq Winners \ lost
    BY <1>1, <1>3 DEF Winners, WonMatch, Queue
  <1>10. OneTypeWins'
    BY <1>3, <1>9 DEF OneTypeWins, AtMostOneType, Winners
  <1> QED BY <1>5, <1>6, <1>7, <1>8, <1>10 DEF IInv

LEMMA StartKeeps ==
  ASSUME TypeOK, IInv, todo # <<>>, StartActiveRound,
         \A c \in Marked : c.fn # "maybe_admit_player.tail"
  PROVE  IInv'
  <1> DEFINE calls == <<Broadcast("ROUND_START"), CallOn("broadcast_positions", 0)>>
  <1>1. calls \in Seq(Calls)
    BY CallTypes, MatchServerAssumption DEF Lines
  <1>2. \A c \in Frames(calls) : c.fn \notin TimerFns \cup AdmitFns
    BY FramesOfTwo, Unmarked DEF Broadcast, CallOn
  <1>3. Marked' \subseteq Marked
    BY <1>1, <1>2, PlainReturn DEF StartActiveRound, TypeOK, StackOK
  <1>4. Admitted' = Admitted
    BY DEF StartActiveRound, Admitted
  <1>5. OneCause' /\ TailAdmitsReady'
    BY <1>3 DEF IInv, OneCause, TailAdmitsReady
  <1>6. TailEndsSetup' /\ NeverExpires'
    BY <1>3 DEF IInv, TailEndsSetup, NeverExpires, StartActiveRound, StartRound
  <1>7. FlagsOK'
    BY <1>4 DEF IInv, FlagsOK, FlagsFollowPhase, StartActiveRound, StartRound
  <1>8. AdmittedReady'
    BY <1>4 DEF IInv, AdmittedReady, Ready, StartActiveRound
  <1>9. OneTypeWins'
    BY DEF OneTypeWins, StartActiveRound, StartRound
  <1> QED BY <1>5, <1>6, <1>7, <1>8, <1>9 DEF IInv

(* The data stays, and so do the marks but the running call's. *)
LEMMA ReturnKeeps ==
  ASSUME TypeOK, IInv, UNCHANGED <<players, phase, setup_deadline>>,
         Marked' \subseteq Marked, TailEndsSetup'
  PROVE  IInv'
  <1>1. Admitted' = Admitted /\ Alive' = Alive /\ Winners' = Winners
    BY DEF players, Admitted, Alive, Winners, WonMatch
  <1>2. OneCause' /\ NeverExpires'
    BY DEF IInv, OneCause, NeverExpires
  <1>3. TailAdmitsReady'
    BY DEF IInv, TailAdmitsReady, Ready, players
  <1>4. FlagsOK' /\ AdmittedReady' /\ OneTypeWins'
    BY <1>1 DEF IInv, FlagsOK, FlagsFollowPhase, AdmittedReady, Ready, OneTypeWins,
                AtMostOneType, players
  <1> QED BY <1>2, <1>3, <1>4 DEF IInv

(* A running call that is not the tail of close_lobby_if_needed leaves the one
   that will end the setup where it is. *)
LEMMA SetupWaits ==
  ASSUME IInv, phase' = "SETUP" => phase = "SETUP",
         Head(todo).fn # "close_lobby_if_needed.tail",
         Marked \ {Head(todo)} \subseteq Marked'
  PROVE  TailEndsSetup'
  BY DEF IInv, TailEndsSetup

LEMMA FewAreOneType ==
  ASSUME FewerThanTwo(Admitted) PROVE AtMostOneType(Winners, choice)
  BY DEF FewerThanTwo, AtMostOneType, Winners, WonMatch

(* No admission is suspended while the timers' calls are on the stack. *)
LEMMA TimerExcludesTail ==
  ASSUME IInv, NEW d \in Marked, d.fn \in TimerFns
  PROVE  \A c \in Marked : c.fn # "maybe_admit_player.tail"
  BY DEF IInv, OneCause, AdmitFns

LEMMA BroadcastKeeps ==
  ASSUME TypeOK, IInv, QueueBroadcast \/ BroadcastGameState \/ BroadcastPositions
  PROVE  IInv'
  <1>0. StackOK
    BY TypeParts
  <1>1. ASSUME NEW said, NEW lost, Queue(said, lost), Return(After(lost)),
               UNCHANGED match, todo # <<>>,
               Head(todo).fn # "close_lobby_if_needed.tail"
        PROVE  IInv'
    <2>1. Marked' \subseteq Marked /\ Marked \ {Head(todo)} \subseteq Marked'
      BY <1>0, <1>1, AfterType, AfterPlain, PlainReturn
    <2>2. TailEndsSetup'
      BY <1>1, <2>1, SetupWaits DEF match
    <2> QED BY <1>1, <2>1, <2>2, DropKeeps
  <1>2. CASE QueueBroadcast
    <2>1. todo # <<>> /\ Head(todo).fn = "queue_broadcast" /\ UNCHANGED match
      BY <1>2 DEF QueueBroadcast, Running
    <2>2. PICK lost \in SUBSET (connected \cap lagging) :
             /\ Queue([i \in connected |-> Heard(i, Head(todo).line)], lost)
             /\ Return(After(lost))
      BY <1>2 DEF QueueBroadcast
    <2> QED BY <1>1, <2>1, <2>2
  <1>3. CASE BroadcastGameState
    <2>1. todo # <<>> /\ Head(todo).fn = "broadcast_game_state" /\ UNCHANGED match
      BY <1>3 DEF BroadcastGameState, Running
    <2>2. PICK lost \in SUBSET (Registered \cap lagging) :
             /\ Queue([i \in Registered |-> StateLine(i)], lost)
             /\ Return(After(lost))
      BY <1>3 DEF BroadcastGameState
    <2> QED BY <1>1, <2>1, <2>2
  <1>4. CASE BroadcastPositions
    <2>1. /\ todo # <<>> /\ Head(todo).fn = "broadcast_positions"
          /\ UNCHANGED <<players, match>>
      BY <1>4 DEF BroadcastPositions, Running
    <2>2. Marked' \subseteq Marked /\ Marked \ {Head(todo)} \subseteq Marked'
      <3>1. CASE Return(<<>>)
        BY <1>0, <2>1, <3>1, EmptyReturn
      <3>2. ASSUME NEW i \in Admitted,
                   Return(<<Broadcast("PLAYER"), CallOn("broadcast_positions", i + 1)>>)
            PROVE  Marked' \subseteq Marked /\ Marked \ {Head(todo)} \subseteq Marked'
        <4> DEFINE calls == <<Broadcast("PLAYER"), CallOn("broadcast_positions", i + 1)>>
        <4>1. i + 1 \in 0 .. MaxPlayers
          BY MatchServerAssumption DEF TypeOK, Admitted, Slots
        <4>2. calls \in Seq(Calls)
          BY <4>1, CallTypes DEF Lines
        <4>3. \A c \in Frames(calls) : c.fn \notin TimerFns \cup AdmitFns
          BY FramesOfTwo, Unmarked DEF Broadcast, CallOn
        <4> QED BY <1>0, <2>1, <3>2, <4>2, <4>3, PlainReturn
      <3>3. \/ Return(<<>>)
            \/ \E i \in Admitted :
                 Return(<<Broadcast("PLAYER"), CallOn("broadcast_positions", i + 1)>>)
        BY <1>4 DEF BroadcastPositions
      <3> QED BY <3>1, <3>2, <3>3
    <2>3. TailEndsSetup'
      BY <2>1, <2>2, SetupWaits DEF match
    <2> QED BY <2>1, <2>2, <2>3, ReturnKeeps DEF match
  <1> QED BY <1>2, <1>3, <1>4

(* A setup or a round that reevaluate_state ends has one choice left. *)
LEMMA ReevaluateKeeps ==
  ASSUME TypeOK, IInv, Reevaluate
  PROVE  IInv'
  <1>0. StackOK /\ todo # <<>> /\ Head(todo).fn = "reevaluate_state"
    BY TypeParts DEF Reevaluate, Running
  <1>1. ASSUME Return(<<>>), UNCHANGED <<players, phase, setup_deadline>> PROVE IInv'
    <2>1. Marked' \subseteq Marked /\ Marked \ {Head(todo)} \subseteq Marked'
      BY <1>0, <1>1, EmptyReturn
    <2>2. TailEndsSetup'
      BY <1>0, <1>1, <2>1, SetupWaits
    <2> QED BY <1>1, <2>1, <2>2, ReturnKeeps
  <1>2. CASE phase = "LOBBY_OPEN"
    BY <1>1, <1>2 DEF Reevaluate, ReevaluateLobby
  <1>3. CASE phase = "SETUP"
    <2>1. \A c \in Marked : c.fn # "maybe_admit_player.tail"
      BY <1>3, TimerExcludesTail DEF IInv, TailEndsSetup, TimerFns
    <2>2. CASE FewerThanTwo(Admitted) /\ EndGame
      BY <1>0, <2>1, <2>2, FewAreOneType, EndGameKeeps
    <2>3. CASE StartActiveRound
      BY <1>0, <2>1, <2>3, StartKeeps
    <2>4. CASE Return(<<>>) /\ UNCHANGED <<players, match>>
      BY <1>1, <2>4 DEF match
    <2> QED BY <1>3, <2>2, <2>3, <2>4 DEF Reevaluate, SettleSetup
  <1>4. CASE phase = "ROUND_ACTIVE"
    <2>1. \A c \in Marked : c.fn # "maybe_admit_player.tail"
      BY <1>4 DEF IInv, TailAdmitsReady
    <2>2. Winners \subseteq Alive
      BY <1>4 DEF IInv, FlagsOK, FlagsFollowPhase, Winners, WonMatch, Alive
    <2>3. RoundDecided => AtMostOneType(Winners, choice)
      BY <2>2 DEF RoundDecided, FewerThanTwo, AtMostOneType
    <2>4. CASE RoundDecided /\ EndGame
      BY <1>0, <2>1, <2>3, <2>4, EndGameKeeps
    <2>5. CASE Return(<<>>) /\ UNCHANGED <<players, match>>
      BY <1>1, <2>5 DEF match
    <2> QED BY <1>4, <2>4, <2>5 DEF Reevaluate, ReevaluateRound
  <1>5. CASE phase = "GAME_OVER"
    BY <1>1, <1>5 DEF Reevaluate, match
  <1>6. phase \in Phases
    BY DEF TypeOK
  <1> QED BY <1>2, <1>3, <1>4, <1>5, <1>6 DEF Phases

(* An admission is suspended only in the lobby and with its player complete. *)
LEMMA MaybeAdmitKeeps ==
  ASSUME TypeOK, IInv, MaybeAdmit
  PROVE  IInv'
  <1> DEFINE i == Head(todo).slot
  <1>0. StackOK /\ todo # <<>> /\ Head(todo).fn = "maybe_admit_player"
    BY TypeParts DEF MaybeAdmit, Running
  <1>1. Head(todo) \in Marked /\ i \in Slots
    BY <1>0, RunningMarked, RunningSlot DEF MaybeAdmit, AdmitFns, SlotProcedures
  <1>2. CASE Return(<<>>) /\ UNCHANGED <<players, match>>
    <2>1. Marked' \subseteq Marked /\ Marked \ {Head(todo)} \subseteq Marked'
      BY <1>0, <1>2, EmptyReturn
    <2>2. TailEndsSetup'
      BY <1>0, <1>2, <2>1, SetupWaits DEF match
    <2> QED BY <1>2, <2>1, <2>2, ReturnKeeps DEF match
  <1>3. ASSUME NEW lost, Queue(Silence, lost), Return(After(lost)), UNCHANGED match
        PROVE  IInv'
    <2>1. Marked' \subseteq Marked /\ Marked \ {Head(todo)} \subseteq Marked'
      BY <1>0, <1>3, AfterType, AfterPlain, PlainReturn
    <2>2. TailEndsSetup'
      BY <1>0, <1>3, <2>1, SetupWaits DEF match
    <2> QED BY <1>3, <2>1, <2>2, DropKeeps
  <1>4. ASSUME Complete(i), ~Refuses, UNCHANGED <<players, phase, setup_deadline>>,
               Return((IF join_deadline = "unset" THEN <<Broadcast("LOBBY_OPEN")>>
                       ELSE <<>>) \o <<CallOn("maybe_admit_player.tail", i)>>)
        PROVE  IInv'
    <2> DEFINE first == IF join_deadline = "unset" THEN <<Broadcast("LOBBY_OPEN")>>
                        ELSE <<>>
               tail == CallOn("maybe_admit_player.tail", i)
    <2>1. /\ first \in Seq(Calls) /\ <<tail>> \in Seq(Calls)
          /\ first \o <<tail>> \in Seq(Calls)
      <3>1. /\ <<Broadcast("LOBBY_OPEN")>> \in Seq(Calls) /\ <<>> \in Seq(Calls)
            /\ <<tail>> \in Seq(Calls)
        BY <1>1, CallTypes DEF Lines, SlotProcedures
      <3> QED BY <3>1
    <2>2. Frames(first) \subseteq {Broadcast("LOBBY_OPEN")}
      BY FramesOfEmpty, FramesOfOne
    <2>3. Frames(first \o <<tail>>) \subseteq {Broadcast("LOBBY_OPEN"), tail}
      <3>1. Frames(first \o <<tail>>) = Frames(first) \cup Frames(<<tail>>)
        <4> HIDE DEF first, tail
        <4> QED BY <2>1, CallFrames
      <3> QED BY <2>2, <3>1, FramesOfOne
    <2>4. Marked' \subseteq Marked \cup {tail}
      <3>1. Frames(todo') = Frames(first \o <<tail>>) \cup Frames(Tail(todo))
        BY <1>0, <1>4, <2>1, ReturnFrames DEF StackOK
      <3>2. Frames(Tail(todo)) \subseteq Frames(todo)
        BY <1>0, FramesOfStack DEF StackOK
      <3>3. Broadcast("LOBBY_OPEN").fn \notin TimerFns \cup AdmitFns
        BY Unmarked DEF Broadcast
      <3> QED BY <2>3, <3>1, <3>2, <3>3 DEF Marked
    <2>5. tail.fn = "maybe_admit_player.tail" /\ tail.slot = i
      BY DEF CallOn
    <2>6. OneCause'
      <3>1. \A c \in Marked : c.fn \notin TimerFns
        BY <1>0, <1>1 DEF IInv, OneCause, AdmitFns
      <3>2. tail.fn \notin TimerFns
        BY <2>5 DEF TimerFns
      <3> QED BY <2>4, <3>1, <3>2 DEF OneCause
    <2>7. phase = "LOBBY_OPEN" /\ i \in registered /\ Ready(i)
      BY <1>4 DEF Complete, Refuses, Registered, Ready
    <2>8. TailAdmitsReady'
      BY <1>4, <2>4, <2>5, <2>7 DEF IInv, TailAdmitsReady, Ready, players
    <2>9. TailEndsSetup'
      BY <1>4, <2>7 DEF TailEndsSetup
    <2>10. NeverExpires'
      BY <1>4, <2>4, <2>5 DEF IInv, NeverExpires
    <2>11. Admitted' = Admitted /\ Alive' = Alive /\ Winners' = Winners
      BY <1>4 DEF players, Admitted, Alive, Winners, WonMatch
    <2>12. FlagsOK' /\ AdmittedReady' /\ OneTypeWins'
      BY <1>4, <2>11 DEF IInv, FlagsOK, FlagsFollowPhase, AdmittedReady, Ready,
                     OneTypeWins, AtMostOneType, players
    <2> QED BY <2>6, <2>8, <2>9, <2>10, <2>12 DEF IInv
  <1>5. \/ Return(<<>>) /\ UNCHANGED <<players, match>>
        \/ /\ \E lost \in SUBSET ({i} \cap lagging) :
                Queue(Silence, lost) /\ Return(After(lost))
           /\ UNCHANGED match
        \/ /\ Complete(i) /\ ~Refuses
           /\ UNCHANGED <<players, phase, setup_deadline>>
           /\ Return((IF join_deadline = "unset" THEN <<Broadcast("LOBBY_OPEN")>>
                      ELSE <<>>) \o <<CallOn("maybe_admit_player.tail", i)>>)
    BY DEF MaybeAdmit
  <1> QED BY <1>2, <1>3, <1>4, <1>5

LEMMA AdmitTailKeeps ==
  ASSUME TypeOK, IInv, AdmitTail
  PROVE  IInv'
  <1> DEFINE i == Head(todo).slot
  <1>0. StackOK /\ todo # <<>> /\ Head(todo).fn = "maybe_admit_player.tail"
    BY TypeParts DEF AdmitTail, Running
  <1>1. Head(todo) \in Marked
    BY RunningMarked, <1>0 DEF AdmitTail, AdmitFns
  <1>2. phase = "LOBBY_OPEN" /\ (i \in connected => i \in registered /\ Ready(i))
    BY <1>0, <1>1 DEF IInv, TailAdmitsReady
  <1>3. UNCHANGED match /\ TailEndsSetup'
    BY <1>2 DEF AdmitTail, match, TailEndsSetup
  <1>4. CASE /\ admitted' = admitted \cup {i}
             /\ waiting' = waiting \cup {i}
             /\ Return(<<Broadcast("JOINED"), Call("broadcast_game_state")>>)
             /\ UNCHANGED <<connected, registered, alive, spawn_chosen, choice,
                            told, lagging>>
    <2> DEFINE calls == <<Broadcast("JOINED"), Call("broadcast_game_state")>>
    <2>1. calls \in Seq(Calls)
      BY CallTypes DEF Lines, Procedures
    <2>2. \A c \in Frames(calls) : c.fn \notin TimerFns \cup AdmitFns
      BY FramesOfTwo, Unmarked DEF Broadcast, Call
    <2>3. Marked' \subseteq Marked
      BY <1>0, <1>4, <2>1, <2>2, PlainReturn
    <2>4. OneCause' /\ NeverExpires'
      BY <1>3, <2>3 DEF IInv, OneCause, NeverExpires, match
    <2>5. TailAdmitsReady'
      BY <1>3, <1>4, <2>3 DEF IInv, TailAdmitsReady, Ready, match
    <2>6. Admitted' \subseteq Admitted \cup ({i} \cap connected)
      BY <1>4 DEF Admitted
    <2>7. FlagsOK'
      BY <1>2, <1>3, <1>4, <2>6 DEF IInv, FlagsOK, FlagsFollowPhase, Admitted, Alive, match
    <2>8. AdmittedReady'
      BY <1>2, <1>4, <2>6 DEF IInv, AdmittedReady, Ready
    <2>9. OneTypeWins'
      BY <1>2, <1>3 DEF OneTypeWins, match
    <2> QED BY <1>3, <2>4, <2>5, <2>7, <2>8, <2>9 DEF IInv
  <1>5. CASE Queue(Silence, {i}) /\ Return(<<Call("reevaluate_state")>>)
    <2>1. <<Call("reevaluate_state")>> \in Seq(Calls)
      BY CallTypes DEF Procedures
    <2>2. \A c \in Frames(<<Call("reevaluate_state")>>) : c.fn \notin TimerFns \cup AdmitFns
      BY FramesOfOne, Unmarked DEF Call
    <2>3. Marked' \subseteq Marked
      BY <1>0, <1>5, <2>1, <2>2, PlainReturn
    <2> QED BY <1>3, <1>5, <2>3, DropKeeps
  <1> QED BY <1>4, <1>5 DEF AdmitTail

(* The lobby closes into PHASE_SETUP with the call that will end it. *)
LEMMA CloseLobbyKeeps ==
  ASSUME TypeOK, IInv, CloseLobby
  PROVE  IInv'
  <1>0. StackOK /\ todo # <<>> /\ Head(todo).fn = "close_lobby_if_needed"
    BY TypeParts DEF CloseLobby, Running
  <1>1. CASE Return(<<>>) /\ UNCHANGED <<players, match>>
    <2>1. Marked' \subseteq Marked /\ Marked \ {Head(todo)} \subseteq Marked'
      BY <1>0, <1>1, EmptyReturn
    <2>2. TailEndsSetup'
      BY <1>0, <1>1, <2>1, SetupWaits DEF match
    <2> QED BY <1>1, <2>1, <2>2, ReturnKeeps DEF match
  <1>2. ASSUME LobbyExpired, phase' = "SETUP", setup_deadline' = "pending",
               UNCHANGED players,
               Return(<<Broadcast("LOBBY_CLOSED"), Broadcast("SETUP_OPEN"),
                        Call("close_lobby_if_needed.tail")>>)
        PROVE  IInv'
    <2> DEFINE tail == Call("close_lobby_if_needed.tail")
               calls == <<Broadcast("LOBBY_CLOSED"), Broadcast("SETUP_OPEN"), tail>>
    <2>1. calls \in Seq(Calls)
      BY CallTypes DEF Lines, Procedures
    <2>2. Frames(calls) = {Broadcast("LOBBY_CLOSED"), Broadcast("SETUP_OPEN"), tail}
      BY FramesOfThree
    <2>3. /\ Frames(todo') = Frames(calls) \cup Frames(Tail(todo))
          /\ Frames(todo) = {Head(todo)} \cup Frames(Tail(todo))
      BY <1>0, <1>2, <2>1, ReturnFrames DEF StackOK
    <2>4. tail.fn = "close_lobby_if_needed.tail" /\ tail.fn \in TimerFns
      BY DEF Call, TimerFns
    <2>5. \A line \in Lines : Broadcast(line).fn \notin TimerFns \cup AdmitFns
      BY Unmarked DEF Broadcast
    <2>6. Marked' \subseteq Marked \cup {tail} /\ tail \in Marked'
      BY <2>2, <2>3, <2>4, <2>5 DEF Marked, Lines
    <2>7. Head(todo) \in Marked /\ Head(todo).fn \in TimerFns
      BY <1>0, <2>3 DEF Marked, TimerFns
    <2>8. \A c \in Marked' : c.fn \notin AdmitFns
      <3>1. \A c \in Marked : c.fn \notin AdmitFns
        BY <2>7 DEF IInv, OneCause
      <3>2. tail.fn \notin AdmitFns
        BY <2>4 DEF AdmitFns
      <3> QED BY <2>6, <3>1, <3>2
    <2>9. OneCause' /\ TailAdmitsReady'
      BY <2>8 DEF OneCause, TailAdmitsReady, AdmitFns
    <2>10. TailEndsSetup'
      BY <2>4, <2>6 DEF TailEndsSetup
    <2>11. NeverExpires'
      BY <1>2, <2>4, <2>6 DEF IInv, NeverExpires
    <2>12. Admitted' = Admitted /\ Alive' = Alive
      BY <1>2 DEF players, Admitted, Alive
    <2>13. FlagsOK' /\ AdmittedReady' /\ OneTypeWins'
      BY <1>2, <2>12 DEF IInv, FlagsOK, FlagsFollowPhase, AdmittedReady, Ready,
                     OneTypeWins, LobbyExpired, players
    <2> QED BY <2>9, <2>10, <2>11, <2>13 DEF IInv
  <1>3. \/ Return(<<>>) /\ UNCHANGED <<players, match>>
        \/ /\ LobbyExpired /\ phase' = "SETUP" /\ setup_deadline' = "pending"
           /\ UNCHANGED players
           /\ Return(<<Broadcast("LOBBY_CLOSED"), Broadcast("SETUP_OPEN"),
                       Call("close_lobby_if_needed.tail")>>)
    BY DEF CloseLobby
  <1> QED BY <1>1, <1>2, <1>3

(* Its tail ends the setup: nobody admitted is unready, so that nobody is
   waited for. *)
LEMMA CloseLobbyTailKeeps ==
  ASSUME TypeOK, IInv, CloseLobbyTail
  PROVE  IInv'
  <1>0. StackOK /\ todo # <<>> /\ Head(todo).fn = "close_lobby_if_needed.tail"
    BY TypeParts DEF CloseLobbyTail, Running
  <1>1. Head(todo) \in Marked /\ Head(todo).fn \in TimerFns
    BY <1>0, RunningMarked DEF CloseLobbyTail, TimerFns
  <1>2. \A c \in Marked : c.fn # "maybe_admit_player.tail"
    BY <1>1, TimerExcludesTail
  <1>3. CASE FewerThanTwo(Admitted)
    <2>1. EndGame
      BY <1>3 DEF CloseLobbyTail
    <2> QED BY <1>0, <1>2, <1>3, <2>1, FewAreOneType, EndGameKeeps
  <1>4. CASE ~FewerThanTwo(Admitted)
    <2>1. AllAdmittedReady
      BY <1>4 DEF IInv, AdmittedReady, AllAdmittedReady
    <2>2. StartActiveRound
      BY <1>4, <2>1 DEF CloseLobbyTail
    <2> QED BY <1>0, <1>2, <2>2, StartKeeps
  <1> QED BY <1>3, <1>4

LEMMA ExpireKeeps ==
  ASSUME TypeOK, IInv, Expire \/ ExpireSlot \/ ExpireTail
  PROVE  IInv'
  <1>0. StackOK
    BY TypeParts
  <1>1. ~ExpireSlot /\ ~ExpireTail
    BY <1>0, RunningMarked DEF ExpireSlot, ExpireTail, TimerFns, IInv, NeverExpires
  <1>2. ~SetupExpired
    BY DEF IInv, NeverExpires, SetupExpired
  <1>3. /\ todo # <<>> /\ Head(todo).fn = "expire_unready_setup_players"
        /\ Return(<<>>) /\ UNCHANGED <<players, match>>
    BY <1>1, <1>2 DEF Expire, Running
  <1>4. Marked' \subseteq Marked /\ Marked \ {Head(todo)} \subseteq Marked'
    BY <1>0, <1>3, EmptyReturn
  <1>5. TailEndsSetup'
    BY <1>3, <1>4, SetupWaits DEF match
  <1> QED BY <1>3, <1>4, <1>5, ReturnKeeps DEF match

(* A tick only takes alive away. *)
LEMMA ChaseKeeps ==
  ASSUME TypeOK, IInv, Chase
  PROVE  IInv'
  <1>0. StackOK /\ todo # <<>> /\ Head(todo).fn = "chase"
    BY TypeParts DEF Chase, Running
  <1>1. Marked' \subseteq Marked /\ Marked \ {Head(todo)} \subseteq Marked'
    <2>1. CASE Return(<<>>)
      BY <1>0, <2>1, EmptyReturn
    <2>2. ASSUME NEW S,
                 Return(<<CallOn("broadcast_positions", 0)>> \o
                        (IF AtMostOneType(Alive \ S, choice)
                         THEN <<Call("reevaluate_state")>> ELSE <<>>))
          PROVE  Marked' \subseteq Marked /\ Marked \ {Head(todo)} \subseteq Marked'
      <3> DEFINE first == <<CallOn("broadcast_positions", 0)>>
                 then == IF AtMostOneType(Alive \ S, choice)
                         THEN <<Call("reevaluate_state")>> ELSE <<>>
      <3>1. first \in Seq(Calls) /\ then \in Seq(Calls) /\ first \o then \in Seq(Calls)
        <4>1. /\ <<CallOn("broadcast_positions", 0)>> \in Seq(Calls)
              /\ <<Call("reevaluate_state")>> \in Seq(Calls) /\ <<>> \in Seq(Calls)
          BY MatchServerAssumption, CallTypes DEF Procedures
        <4> QED BY <4>1
      <3>2. Frames(first \o then) = Frames(first) \cup Frames(then)
        <4> HIDE DEF first, then
        <4> QED BY <3>1, CallFrames
      <3>3. \A c \in Frames(first) : c.fn \notin TimerFns \cup AdmitFns
        BY FramesOfOne, Unmarked DEF CallOn
      <3>4. \A c \in Frames(then) : c.fn \notin TimerFns \cup AdmitFns
        BY FramesOfEmpty, FramesOfOne, Unmarked DEF Call
      <3>5. \A c \in Frames(first \o then) : c.fn \notin TimerFns \cup AdmitFns
        BY <3>2, <3>3, <3>4
      <3> QED BY <1>0, <2>2, <3>1, <3>5, PlainReturn
    <2> QED BY <2>1, <2>2 DEF Chase
  <1>2. /\ alive' \subseteq alive
        /\ phase # "ROUND_ACTIVE" => alive' = alive
        /\ UNCHANGED <<connected, registered, admitted, waiting, spawn_chosen, choice, match>>
    BY DEF Chase
  <1>3. TailEndsSetup'
    BY <1>0, <1>1, <1>2, SetupWaits DEF match
  <1>4. OneCause' /\ NeverExpires'
    BY <1>1, <1>2 DEF IInv, OneCause, NeverExpires, match
  <1>5. TailAdmitsReady'
    BY <1>1, <1>2 DEF IInv, TailAdmitsReady, Ready, match
  <1>6. Admitted' = Admitted
    BY <1>2 DEF Admitted
  <1>7. FlagsOK' /\ AdmittedReady'
    BY <1>2, <1>6 DEF IInv, FlagsOK, FlagsFollowPhase, Alive, AdmittedReady, Ready, match
  <1>8. Winners' \subseteq Winners
    BY <1>2, <1>6 DEF Winners, WonMatch
  <1>9. OneTypeWins'
    BY <1>2, <1>8 DEF IInv, OneTypeWins, AtMostOneType, match
  <1> QED BY <1>3, <1>4, <1>5, <1>7, <1>9 DEF IInv

(* What the idle server does keeps the invariant: nothing is suspended. *)
LEMMA CommandKeeps ==
  ASSUME TypeOK, IInv, NEW i \in Slots,
         Accept(i) \/ Command(i) \/ Leave(i) \/ FallBehind(i) \/ CatchUp(i)
  PROVE  IInv'
  <1>0. /\ Idle /\ Marked = {} /\ phase # "SETUP"
    <2>1. Idle
      BY DEF Accept, Command, Hello, Choose, Spawn, GetState, Rematch, Leave,
             FallBehind, CatchUp
    <2> QED BY <2>1, IdleMarked DEF IInv, TailEndsSetup
  <1>1. ASSUME todo' = todo PROVE Marked' = {}
    BY <1>0, <1>1 DEF Marked, Frames
  <1>2. CASE Accept(i)
    <2>1. Marked' = {} /\ UNCHANGED match
      BY <1>1, <1>2 DEF Accept
    <2>2. Admitted' = Admitted /\ Winners' = Winners /\ i \notin Admitted
      BY <1>2 DEF Accept, ResetProgress, Admitted, Winners, WonMatch
    <2>3. \A j \in Slots \ {i} : choice'[j] = choice[j]
      BY <1>2 DEF Accept, ResetProgress
    <2>4. FlagsOK'
      BY <1>2, <2>1, <2>2 DEF IInv, FlagsOK, FlagsFollowPhase, Alive, Accept,
                          ResetProgress, match
    <2>5. AdmittedReady'
      BY <1>2, <2>2, <2>3 DEF IInv, AdmittedReady, Ready, Accept, ResetProgress, TypeOK,
                          Admitted
    <2>6. OneTypeWins'
      BY <2>1, <2>2, <2>3 DEF IInv, OneTypeWins, AtMostOneType, Winners, WonMatch, match
    <2> QED BY <1>0, <2>1, <2>4, <2>5, <2>6
            DEF IInv, OneCause, TailAdmitsReady, TailEndsSetup, NeverExpires, match
  <1>3. CASE Hello(i)
    <2>1. Marked' = {} /\ UNCHANGED match
      BY <1>1, <1>3 DEF Hello
    <2>2. Admitted' = Admitted /\ Winners' = Winners /\ i \notin Admitted
      BY <1>3 DEF Hello, ResetProgress, Admitted, Winners, WonMatch
    <2>3. \A j \in Slots \ {i} : choice'[j] = choice[j]
      BY <1>3 DEF Hello, ResetProgress
    <2>4. FlagsOK'
      BY <1>3, <2>1, <2>2 DEF IInv, FlagsOK, FlagsFollowPhase, Alive, Hello,
                          ResetProgress, match
    <2>5. AdmittedReady'
      BY <1>3, <2>2, <2>3 DEF IInv, AdmittedReady, Ready, Hello, ResetProgress, TypeOK,
                          Admitted
    <2>6. OneTypeWins'
      BY <2>1, <2>2, <2>3 DEF IInv, OneTypeWins, AtMostOneType, Winners, WonMatch, match
    <2> QED BY <1>0, <2>1, <2>4, <2>5, <2>6
            DEF IInv, OneCause, TailAdmitsReady, TailEndsSetup, NeverExpires, match
  <1>4. ASSUME i \notin admitted, todo' = <<CallOn("maybe_admit_player", i)>>,
               \/ spawn_chosen' = spawn_chosen \cup {i} /\ choice' = choice
               \/ /\ \E c \in Picks : choice' = [choice EXCEPT ![i] = c]
                  /\ spawn_chosen' = spawn_chosen,
               UNCHANGED <<connected, registered, admitted, alive, waiting, match>>
        PROVE  IInv'
    <2>1. Frames(todo') = {CallOn("maybe_admit_player", i)}
      BY <1>4, FramesOfOne
    <2>2. \A c \in Marked' : c.fn = "maybe_admit_player"
      BY <2>1 DEF Marked, CallOn
    <2>3. Admitted' = Admitted /\ Alive' = Alive /\ Winners' = Winners /\ i \notin Admitted
      BY <1>4 DEF Admitted, Alive, Winners, WonMatch
    <2>4. \A j \in Slots \ {i} : choice'[j] = choice[j]
      BY <1>4 DEF TypeOK
    <2>5. AdmittedReady'
      BY <1>4, <2>3, <2>4 DEF IInv, AdmittedReady, Ready, TypeOK, Admitted
    <2>6. OneTypeWins'
      BY <1>4, <2>3, <2>4 DEF IInv, OneTypeWins, AtMostOneType, Winners, WonMatch, match
    <2>7. FlagsOK'
      BY <1>4, <2>3 DEF IInv, FlagsOK, FlagsFollowPhase, match
    <2> QED BY <1>0, <1>4, <2>2, <2>5, <2>6, <2>7
            DEF IInv, OneCause, TailAdmitsReady, TailEndsSetup, NeverExpires, TimerFns,
                match
  <1>5. ASSUME NEW c \in Picks, Choose(i, c) PROVE IInv'
    BY <1>4, <1>5 DEF Choose, MaySetUp
  <1>6. CASE Spawn(i)
    BY <1>4, <1>6 DEF Spawn, MaySetUp
  <1>7. CASE GetState(i)
    <2>1. PICK lost \in SUBSET ({i} \cap lagging) :
             Queue([j \in {i} |-> StateLine(j)], lost) /\ todo' = After(lost)
      BY <1>7 DEF GetState
    <2>2. Marked' = {} /\ UNCHANGED match
      BY <1>7, <2>1, AfterPlain DEF Marked, GetState
    <2>3. TailEndsSetup'
      BY <1>0, <2>2 DEF TailEndsSetup, match
    <2> QED BY <2>1, <2>2, <2>3, DropKeeps
  <1>8. CASE Rematch(i)
    <2>1. Marked' = {}
      BY <1>1, <1>8 DEF Rematch
    <2>2. Admitted' = {} /\ alive' = {}
      BY <1>8 DEF Rematch, ResetProgress, ResetSlots, Admitted, Registered,
                  IInv, FlagsOK
    <2>3. phase' = "LOBBY_OPEN" /\ setup_deadline' = "unset"
      BY <1>8 DEF Rematch, FreshMatch
    <2>4. Alive' = {}
      BY <2>2 DEF Alive
    <2> QED BY <2>1, <2>2, <2>3, <2>4
            DEF IInv, OneCause, TailAdmitsReady, TailEndsSetup, NeverExpires, FlagsOK,
                FlagsFollowPhase, AdmittedReady, OneTypeWins
  <1>9. CASE Leave(i)
    <2> DEFINE last == <<Call("reevaluate_state")>>
    <2>1. last \in Seq(Calls) /\ Farewell(i) \in Seq(Calls)
      BY CallTypes, FarewellType DEF Procedures
    <2>2. todo' = Farewell(i) \o last
      BY <1>9 DEF Leave
    <2>3. Frames(todo') = Frames(Farewell(i)) \cup Frames(last)
      <3> HIDE DEF last
      <3> QED BY <2>1, <2>2, CallFrames
    <2>4. \A c \in Frames(last) : c.fn \notin TimerFns \cup AdmitFns
      BY FramesOfOne, Unmarked DEF Call
    <2>5. Marked' = {}
      BY <2>3, <2>4, FarewellPlain DEF Marked
    <2>6. UNCHANGED match /\ Queue(Silence, {i})
      BY <1>9 DEF Leave, DropLoudly
    <2>7. TailEndsSetup'
      BY <1>0, <2>6 DEF TailEndsSetup, match
    <2> QED BY <2>5, <2>6, <2>7, DropKeeps
  <1>10. ASSUME todo' = todo,
                UNCHANGED <<connected, registered, admitted, alive, waiting, spawn_chosen,
                            choice, match>>
         PROVE  IInv'
    <2>1. Marked' = {} /\ Admitted' = Admitted /\ Alive' = Alive /\ Winners' = Winners
      BY <1>1, <1>10 DEF Admitted, Alive, Winners, WonMatch
    <2>2. FlagsOK' /\ AdmittedReady' /\ OneTypeWins'
      BY <1>10, <2>1 DEF IInv, FlagsOK, FlagsFollowPhase, AdmittedReady, Ready,
                     OneTypeWins, AtMostOneType, match
    <2> QED BY <1>0, <1>10, <2>1, <2>2
            DEF IInv, OneCause, TailAdmitsReady, TailEndsSetup, NeverExpires, match
  <1>11. CASE FallBehind(i) \/ CatchUp(i)
    BY <1>10, <1>11 DEF FallBehind, CatchUp
  <1> QED BY <1>2, <1>3, <1>5, <1>6, <1>7, <1>8, <1>9, <1>11 DEF Command

LEMMA TimerKeeps ==
  ASSUME TypeOK, IInv, Timers \/ JoinWindowEnds \/ SetupWindowEnds
  PROVE  IInv'
  <1>0. Idle /\ Marked = {} /\ phase # "SETUP"
    <2>1. Idle
      BY DEF Timers, JoinWindowEnds, SetupWindowEnds
    <2> QED BY <2>1, IdleMarked DEF IInv, TailEndsSetup
  <1>1. ~SetupWindowEnds
    BY <1>0 DEF SetupWindowEnds
  <1>2. /\ UNCHANGED <<players, phase, setup_deadline>>
    BY <1>1 DEF Timers, JoinWindowEnds, match
  <1>3. \A c \in Marked' : c.fn \in {"close_lobby_if_needed",
                                    "expire_unready_setup_players", "chase"}
    <2>1. CASE Timers
      <3>1. Frames(todo') = {Call("close_lobby_if_needed"),
                             Call("expire_unready_setup_players"), Call("chase")}
        BY <2>1, FramesOfThree DEF Timers
      <3> QED BY <3>1 DEF Marked, Call
    <2>2. CASE JoinWindowEnds
      BY <1>0, <2>2 DEF JoinWindowEnds, Marked, Frames
    <2> QED BY <1>1, <2>1, <2>2
  <1>4. Admitted' = Admitted /\ Alive' = Alive /\ Winners' = Winners
    BY <1>2 DEF players, Admitted, Alive, Winners, WonMatch
  <1>5. FlagsOK' /\ AdmittedReady' /\ OneTypeWins'
    BY <1>2, <1>4 DEF IInv, FlagsOK, FlagsFollowPhase, AdmittedReady, Ready,
                  OneTypeWins, AtMostOneType, players
  <1> QED BY <1>0, <1>2, <1>3, <1>5
          DEF IInv, OneCause, TailAdmitsReady, TailEndsSetup, NeverExpires, AdmitFns

LEMMA InitInvariant == Init => IInv
  <1> SUFFICES ASSUME Init PROVE IInv
    OBVIOUS
  <1>1. Marked = {} /\ Admitted = {} /\ Alive = {}
    BY IdleMarked DEF Init, Idle, Admitted, Alive
  <1> QED BY <1>1 DEF Init, IInv, OneCause, TailAdmitsReady, TailEndsSetup, NeverExpires,
                      FlagsOK, FlagsFollowPhase, AdmittedReady, OneTypeWins

LEMMA InvariantStep == TypeOK /\ IInv /\ [Next]_vars => IInv'
  <1> SUFFICES ASSUME TypeOK, IInv, [Next]_vars PROVE IInv'
    OBVIOUS
  <1>1. CASE Step
    BY <1>1, BroadcastKeeps, ReevaluateKeeps, MaybeAdmitKeeps, AdmitTailKeeps,
       CloseLobbyKeeps, CloseLobbyTailKeeps, ExpireKeeps, ChaseKeeps DEF Step
  <1>2. CASE Timers \/ JoinWindowEnds \/ SetupWindowEnds
    BY <1>2, TimerKeeps
  <1>3. ASSUME NEW i \in Slots,
               Accept(i) \/ Command(i) \/ Leave(i) \/ FallBehind(i) \/ CatchUp(i)
        PROVE  IInv'
    BY <1>3, CommandKeeps
  <1>4. CASE UNCHANGED vars
    <2>1. UNCHANGED <<players, match, todo>>
      BY <1>4 DEF vars
    <2>2. Marked' = Marked
      BY <2>1 DEF Marked, Frames
    <2>3. TailEndsSetup'
      BY <2>1, <2>2 DEF IInv, TailEndsSetup, match
    <2> QED BY <2>1, <2>2, <2>3, ReturnKeeps DEF match
  <1> QED BY <1>1, <1>2, <1>3, <1>4 DEF Next

LEMMA Invariant == Spec => []IInv
  <1> QED BY TypeCorrect, InitInvariant, InvariantStep, PTL DEF Spec

-----------------------------------------------------------------------------
(* Theorems of every behaviour of the server. *)

(* Those who win hold one choice, from whichever of its four callers and in the
   middle of whichever broadcast end_game was called. *)
THEOREM OneTypeWinsAlways == Spec => []OneTypeWins
  <1>1. IInv => OneTypeWins
    BY DEF IInv
  <1> QED BY <1>1, Invariant, PTL

(* Every admitted player is ready: the condition all_admitted_ready waits for
   always holds, and WAITING_FOR_OTHERS is never sent. *)
THEOREM AdmittedReadyAlways == Spec => []AdmittedReady
  <1>1. IInv => AdmittedReady
    BY DEF IInv
  <1> QED BY <1>1, Invariant, PTL

(* Nobody plays that is not ready: those who fight are admitted, and were ready
   when they were. *)
THEOREM UnreadyNeverPlayAlways == Spec => []UnreadyNeverPlay
  <1>1. AdmittedReady => UnreadyNeverPlay
    BY DEF AdmittedReady, UnreadyNeverPlay, Alive
  <1> QED BY <1>1, AdmittedReadyAlways, PTL

(* No iteration of the loop ends in PHASE_SETUP, whose deadline is therefore
   never the one that ends it. *)
THEOREM NoSetupAtRestAlways == Spec => []NoSetupAtRest
  <1>1. IInv => NoSetupAtRest
    BY IdleMarked DEF IInv, TailEndsSetup, NoSetupAtRest
  <1> QED BY <1>1, Invariant, PTL

(* The flags alive and waiting agree with the phase, in the middle of nested
   calls as well as at rest. *)
THEOREM FlagsFollowPhaseAlways == Spec => []FlagsFollowPhase
  <1>1. IInv => FlagsFollowPhase
    BY DEF IInv, FlagsOK
  <1> QED BY <1>1, Invariant, PTL

(* Dropping players, which every queueing of a line may do, admits nobody. *)
LEMMA DropAdmitsNobody ==
  ASSUME NEW said, NEW lost, Queue(said, lost) PROVE Admitted' \subseteq Admitted
  BY DEF Queue, Admitted

LEMMA SettlingAdmitsNobody ==
  /\ EndGame => Admitted' \subseteq Admitted
  /\ StartActiveRound => Admitted' \subseteq Admitted
  <1>1. EndGame => Admitted' \subseteq Admitted
    BY DropAdmitsNobody DEF EndGame
  <1>2. StartActiveRound => Admitted' \subseteq Admitted
    BY DEF StartActiveRound, Admitted
  <1> QED BY <1>1, <1>2

LEMMA StepAdmits ==
  ASSUME TypeOK, IInv, Step
  PROVE  Admitted' \subseteq Admitted \/ (phase = "LOBBY_OPEN" /\ phase' = "LOBBY_OPEN")
  <1>1. CASE QueueBroadcast \/ BroadcastGameState
    BY <1>1, DropAdmitsNobody DEF QueueBroadcast, BroadcastGameState
  <1>2. CASE BroadcastPositions \/ Chase \/ Expire
    BY <1>2 DEF BroadcastPositions, Chase, Expire, players, Admitted
  <1>3. CASE SettleSetup
    BY <1>3, SettlingAdmitsNobody DEF SettleSetup, players, Admitted
  <1>4. CASE Reevaluate
    <2>1. CASE UNCHANGED players
      BY <2>1 DEF players, Admitted
    <2>2. \/ UNCHANGED players
          \/ SettleSetup
          \/ EndGame
      BY <1>4 DEF Reevaluate, ReevaluateLobby, ReevaluateRound, TypeOK, Phases
    <2> QED BY <1>3, <2>1, <2>2, SettlingAdmitsNobody
  <1>5. CASE MaybeAdmit
    BY <1>5, DropAdmitsNobody DEF MaybeAdmit, players, Admitted
  <1>6. CASE AdmitTail
    <2>1. StackOK
      BY TypeParts
    <2>2. Head(todo) \in Marked /\ Head(todo).fn = "maybe_admit_player.tail"
      BY <1>6, <2>1, RunningMarked DEF AdmitTail, AdmitFns
    <2> QED BY <1>6, <2>2 DEF AdmitTail, IInv, TailAdmitsReady, match
  <1>7. CASE CloseLobby
    BY <1>7 DEF CloseLobby, players, Admitted
  <1>8. CASE CloseLobbyTail
    BY <1>8, SettlingAdmitsNobody DEF CloseLobbyTail, players, Admitted
  <1>9. CASE ExpireSlot
    BY <1>9, DropAdmitsNobody DEF ExpireSlot, DropLoudly, players, Admitted
  <1>10. CASE ExpireTail
    BY <1>3, <1>10 DEF ExpireTail
  <1> QED BY <1>1, <1>2, <1>4, <1>5, <1>6, <1>7, <1>8, <1>9, <1>10 DEF Step

LEMMA CommandAdmitsNobody ==
  ASSUME NEW i \in Slots,
         Accept(i) \/ Command(i) \/ Leave(i) \/ FallBehind(i) \/ CatchUp(i)
  PROVE  Admitted' \subseteq Admitted
  <1>1. CASE Accept(i) \/ Hello(i)
    BY <1>1 DEF Accept, Hello, ResetProgress, Admitted
  <1>2. CASE GetState(i) \/ Leave(i)
    BY <1>2, DropAdmitsNobody DEF GetState, Leave, DropLoudly
  <1>3. CASE Rematch(i)
    BY <1>3 DEF Rematch, ResetProgress, Admitted
  <1>4. CASE (\E c \in Picks : Choose(i, c)) \/ Spawn(i) \/ FallBehind(i) \/ CatchUp(i)
    BY <1>4 DEF Choose, Spawn, FallBehind, CatchUp, Admitted
  <1> QED BY <1>1, <1>2, <1>3, <1>4 DEF Command

(* Whoever is admitted is so in the lobby: the tail of an admission, which does
   not look at the phase again, is never suspended past the lobby's end. *)
THEOREM AdmissionOnlyInLobbyAlways == Spec => AdmissionOnlyInLobby
  <1>1. TypeOK /\ IInv /\ [Next]_vars =>
          [~(Admitted' \subseteq Admitted) => phase = "LOBBY_OPEN" /\ phase' = "LOBBY_OPEN"]_vars
    <2> SUFFICES ASSUME TypeOK, IInv, Next
                 PROVE  \/ Admitted' \subseteq Admitted
                        \/ phase = "LOBBY_OPEN" /\ phase' = "LOBBY_OPEN"
      OBVIOUS
    <2>1. CASE Step
      BY <2>1, StepAdmits
    <2>2. CASE Timers \/ JoinWindowEnds \/ SetupWindowEnds
      BY <2>2 DEF Timers, JoinWindowEnds, SetupWindowEnds, players, Admitted
    <2>3. ASSUME NEW i \in Slots,
                 Accept(i) \/ Command(i) \/ Leave(i) \/ FallBehind(i) \/ CatchUp(i)
          PROVE  Admitted' \subseteq Admitted
      BY <2>3, CommandAdmitsNobody
    <2> QED BY <2>1, <2>2, <2>3 DEF Next
  <1> QED BY <1>1, TypeCorrect, Invariant, PTL DEF Spec, AdmissionOnlyInLobby
-----------------------------------------------------------------------------
(* The handlers return: what the calls on the stack may still cost. *)

(* f adds up the costs of the first m calls of q. *)
Sums(f, q, m) == f = [k \in 0 .. m |-> IF k = 0 THEN 0 ELSE f[k - 1] + Cost(q[k])]

LEMMA StartCostType == StartCost \in Nat /\ StartCost = 2 * MaxPlayers + 3 /\ MaxPlayers \in Nat
  BY MatchServerAssumption DEF StartCost

LEMMA CallCosts ==
  /\ \A line \in Lines : Cost(Broadcast(line)) = 1
  /\ Cost(Call("broadcast_game_state")) = 1
  /\ \A i \in Int : Cost(CallOn("broadcast_positions", i)) = 2 * (MaxPlayers - i) + 1
  /\ Cost(Call("reevaluate_state")) = StartCost
  /\ Cost(Call("close_lobby_if_needed.tail")) = StartCost
  /\ Cost(Call("expire_unready.tail")) = StartCost
  /\ \A i : Cost(CallOn("maybe_admit_player.tail", i)) = 3
  /\ \A i : Cost(CallOn("expire_unready.slot", i)) = 3
  /\ \A i : Cost(CallOn("maybe_admit_player", i)) = 5
  /\ Cost(Call("close_lobby_if_needed")) = StartCost + 3
  /\ Cost(Call("expire_unready_setup_players")) = StartCost + 3 * MaxPlayers + 1
  /\ Cost(Call("chase")) = 2 * StartCost - 1
  BY DEF Cost, Broadcast, Call, CallOn

(* The cost of a call depends on its function, and on the slot reached. *)
LEMMA CostByName ==
  ASSUME NEW c
  PROVE  /\ c.fn \in {"queue_broadcast", "broadcast_game_state"} => Cost(c) = 1
         /\ c.fn = "broadcast_positions" => Cost(c) = 2 * (MaxPlayers - c.slot) + 1
         /\ c.fn \in {"reevaluate_state", "close_lobby_if_needed.tail",
                      "expire_unready.tail"} => Cost(c) = StartCost
         /\ c.fn \in {"maybe_admit_player.tail", "expire_unready.slot"} => Cost(c) = 3
         /\ c.fn = "maybe_admit_player" => Cost(c) = 5
         /\ c.fn = "close_lobby_if_needed" => Cost(c) = StartCost + 3
         /\ c.fn = "expire_unready_setup_players" => Cost(c) = StartCost + 3 * MaxPlayers + 1
         /\ c.fn = "chase" => Cost(c) = 2 * StartCost - 1
  BY DEF Cost

LEMMA CostType == \A c \in Calls : Cost(c) \in Nat /\ 1 <= Cost(c)
  <1> SUFFICES ASSUME NEW c \in Calls PROVE Cost(c) \in Nat /\ 1 <= Cost(c)
    OBVIOUS
  <1> HIDE DEF Cost
  <1>1. CASE c \in [fn : {"queue_broadcast"}, line : Lines]
    BY <1>1, CostByName
  <1>2. CASE c \in [fn : Procedures]
    <2>1. c.fn \in Procedures
      BY <1>2
    <2>2. Cost(c) \in {1, StartCost, StartCost + 3, StartCost + 3 * MaxPlayers + 1,
                       2 * StartCost - 1}
      BY <2>1, CostByName DEF Procedures
    <2> QED BY <2>2, StartCostType
  <1>3. CASE c \in [fn : SlotProcedures, slot : Slots]
    <2>1. Cost(c) \in {3, 5}
      BY <1>3, CostByName DEF SlotProcedures
    <2> QED BY <2>1
  <1>4. CASE c \in [fn : {"broadcast_positions"}, slot : 0 .. MaxPlayers]
    <2>1. c.slot \in 0 .. MaxPlayers /\ Cost(c) = 2 * (MaxPlayers - c.slot) + 1
      BY <1>4, CostByName
    <2> QED BY <2>1, StartCostType
  <1> QED BY <1>1, <1>2, <1>3, <1>4 DEF Calls

LEMMA SumsExist ==
  ASSUME NEW q \in Seq(Calls)
  PROVE  \A m \in Nat : m <= Len(q) => \E f \in [0 .. m -> Nat] : Sums(f, q, m)
  <1> DEFINE Bad == {m \in Nat : m <= Len(q) /\ ~\E f \in [0 .. m -> Nat] : Sums(f, q, m)}
  <1>1. SUFFICES ASSUME Bad # {} PROVE FALSE
    OBVIOUS
  <1>2. PICK m \in Bad : \A x \in Bad : m <= x
    BY <1>1, LeastNatural
  <1>3. m # 0
    <2>1. Sums([k \in 0 .. 0 |-> 0], q, 0) /\ [k \in 0 .. 0 |-> 0] \in [0 .. 0 -> Nat]
      BY DEF Sums
    <2> QED BY <2>1
  <1>4. m \in Nat /\ m - 1 \in Nat /\ m <= Len(q) /\ m - 1 \notin Bad /\ Len(q) \in Nat
    <2>1. m \in Nat /\ m <= Len(q) /\ Len(q) \in Nat
      OBVIOUS
    <2>2. m - 1 \in Nat /\ ~(m <= m - 1)
      BY <1>3, <2>1
    <2> HIDE DEF Bad
    <2> QED BY <1>2, <2>1, <2>2
  <1>5. PICK f \in [0 .. m - 1 -> Nat] : Sums(f, q, m - 1)
    <2>1. m - 1 <= Len(q)
      BY <1>4
    <2> QED BY <1>4, <2>1
  <1>6. \A k \in 0 .. m - 1 : f[k] = IF k = 0 THEN 0 ELSE f[k - 1] + Cost(q[k])
    BY <1>5 DEF Sums
  <1>7. q[m] \in Calls /\ Cost(q[m]) \in Nat
    BY <1>3, <1>4, CostType
  <1> DEFINE g == [k \in 0 .. m |-> IF k = m THEN f[m - 1] + Cost(q[m]) ELSE f[k]]
  <1>8. /\ \A k \in 0 .. m - 1 : g[k] = f[k] /\ k \in 0 .. m
        /\ g[m] = f[m - 1] + Cost(q[m]) /\ g[m - 1] = f[m - 1]
    BY <1>4
  <1>9. g \in [0 .. m -> Nat]
    BY <1>4, <1>7
  <1> HIDE DEF g
  <1>10. ASSUME NEW k \in 0 .. m PROVE g[k] = IF k = 0 THEN 0 ELSE g[k - 1] + Cost(q[k])
    <2>1. CASE k = m
      BY <1>3, <1>8, <2>1
    <2>2. CASE k # m
      <3>1. k \in 0 .. m - 1 /\ (k # 0 => k - 1 \in 0 .. m - 1)
        BY <1>4, <2>2
      <3> QED BY <1>6, <1>8, <3>1
    <2> QED BY <2>1, <2>2
  <1>11. Sums(g, q, m)
    BY <1>9, <1>10 DEF Sums
  <1> QED BY <1>2, <1>9, <1>11

LEMMA SumsAgree ==
  ASSUME NEW q, NEW m \in Nat, NEW f, NEW g, Sums(f, q, m), Sums(g, q, m)
  PROVE  f = g
  <1> DEFINE Bad == {k \in 0 .. m : f[k] # g[k]}
  <1>1. /\ \A k \in 0 .. m : f[k] = IF k = 0 THEN 0 ELSE f[k - 1] + Cost(q[k])
        /\ \A k \in 0 .. m : g[k] = IF k = 0 THEN 0 ELSE g[k - 1] + Cost(q[k])
    BY DEF Sums
  <1>2. Bad = {}
    <2>1. SUFFICES ASSUME Bad # {} PROVE FALSE
      OBVIOUS
    <2>2. PICK k \in Bad : \A x \in Bad : k <= x
      <3>1. Bad \in SUBSET Nat
        OBVIOUS
      <3> HIDE DEF Bad
      <3> QED BY <2>1, <3>1, LeastNatural
    <2>3. k # 0
      BY <1>1
    <2>4. k - 1 \in 0 .. m /\ k - 1 \notin Bad
      BY <2>2, <2>3
    <2> QED BY <1>1, <2>2, <2>3, <2>4
  <1>3. f = [k \in 0 .. m |-> f[k]] /\ g = [k \in 0 .. m |-> g[k]]
    BY DEF Sums
  <1> QED BY <1>2, <1>3

LEMMA CostOfIsSum ==
  ASSUME NEW q \in Seq(Calls), NEW f, Sums(f, q, Len(q))
  PROVE  CostOf(q) = f[Len(q)]
  <1> DEFINE h == CHOOSE g : Sums(g, q, Len(q))
  <1>1. Sums(h, q, Len(q))
    OBVIOUS
  <1>2. h = f
    <2>1. Len(q) \in Nat
      OBVIOUS
    <2> HIDE DEF h
    <2> QED BY <1>1, <2>1, SumsAgree
  <1>3. h = CHOOSE g : g = [k \in 0 .. Len(q) |-> IF k = 0 THEN 0 ELSE g[k - 1] + Cost(q[k])]
    BY DEF Sums
  <1>4. CostOf(q) = h[Len(q)]
    BY <1>3 DEF CostOf
  <1> QED BY <1>2, <1>4

LEMMA CostOfType == ASSUME NEW q \in Seq(Calls) PROVE CostOf(q) \in Nat
  <1>1. Len(q) \in Nat /\ Len(q) <= Len(q)
    OBVIOUS
  <1>2. PICK f \in [0 .. Len(q) -> Nat] : Sums(f, q, Len(q))
    BY <1>1, SumsExist
  <1>3. f[Len(q)] \in Nat
    BY <1>1
  <1> QED BY <1>2, <1>3, CostOfIsSum

(* The costs of two lists of calls add up. *)
LEMMA CostOfConcat ==
  ASSUME NEW p \in Seq(Calls), NEW q \in Seq(Calls)
  PROVE  CostOf(p \o q) = CostOf(p) + CostOf(q)
  <1> DEFINE a == Len(p)
             b == Len(q)
             r == p \o q
  <1>1. a \in Nat /\ b \in Nat /\ r \in Seq(Calls) /\ Len(r) = a + b
    OBVIOUS
  <1>2. /\ \A k \in 1 .. a : r[k] = p[k]
        /\ \A k \in a + 1 .. a + b : r[k] = q[k - a]
    OBVIOUS
  <1> HIDE DEF r
  <1>3. PICK f \in [0 .. a -> Nat] : Sums(f, p, a)
    <2>1. a <= Len(p)
      BY <1>1
    <2> QED BY <1>1, <2>1, SumsExist
  <1>4. PICK g \in [0 .. b -> Nat] : Sums(g, q, b)
    <2>1. b <= Len(q)
      BY <1>1
    <2> QED BY <1>1, <2>1, SumsExist
  <1>5. /\ \A k \in 0 .. a : f[k] = IF k = 0 THEN 0 ELSE f[k - 1] + Cost(p[k])
        /\ \A k \in 0 .. b : g[k] = IF k = 0 THEN 0 ELSE g[k - 1] + Cost(q[k])
    BY <1>3, <1>4 DEF Sums
  <1>6. CostOf(p) = f[a] /\ CostOf(q) = g[b]
    BY <1>3, <1>4, CostOfIsSum
  <1> DEFINE h == [k \in 0 .. a + b |-> IF k <= a THEN f[k] ELSE f[a] + g[k - a]]
  <1> HIDE DEF a, b
  <1>7. ASSUME NEW k \in 0 .. a + b PROVE h[k] = IF k = 0 THEN 0 ELSE h[k - 1] + Cost(r[k])
    <2>1. CASE k = 0
      <3>1. 0 \in 0 .. a /\ 0 <= a
        BY <1>1
      <3> QED BY <1>5, <2>1, <3>1
    <2>2. CASE k # 0 /\ k <= a
      <3>1. k \in 0 .. a /\ k \in 1 .. a /\ k - 1 \in 0 .. a + b /\ k - 1 <= a
        BY <1>1, <2>2
      <3>2. h[k] = f[k] /\ h[k - 1] = f[k - 1]
        BY <2>2, <3>1
      <3>3. f[k] = f[k - 1] + Cost(p[k])
        BY <1>5, <2>2, <3>1
      <3> QED BY <1>2, <2>2, <3>1, <3>2, <3>3
    <2>3. CASE k > a
      <3>1. /\ k - a \in 0 .. b /\ k - a # 0 /\ k - a - 1 \in 0 .. b /\ k - 1 \in 0 .. a + b
            /\ k \in a + 1 .. a + b /\ k - 1 - a = k - a - 1 /\ ~(k <= a) /\ k # 0
        BY <1>1, <2>3
      <3>2. h[k] = f[a] + g[k - a] /\ g[k - a] = g[k - a - 1] + Cost(q[k - a])
        BY <1>5, <3>1
      <3>3. h[k - 1] = f[a] + g[k - a - 1]
        <4>1. CASE k - 1 <= a
          <5>1. k - 1 = a /\ k - a - 1 = 0 /\ 0 \in 0 .. b /\ f[a] \in Nat
            BY <1>1, <2>3, <4>1
          <5>2. g[k - a - 1] = 0
            BY <1>5, <5>1
          <5>3. h[k - 1] = f[a]
            BY <3>1, <4>1, <5>1
          <5> QED BY <5>1, <5>2, <5>3
        <4>2. CASE ~(k - 1 <= a)
          BY <3>1, <4>2
        <4> QED BY <4>1, <4>2
      <3>4. f[a] \in Int /\ g[k - a - 1] \in Int /\ r[k] = q[k - a]
        BY <1>1, <1>2, <3>1
      <3>5. Cost(q[k - a]) \in Int
        <4>1. q[k - a] \in Calls
          BY <3>1 DEF b
        <4> QED BY <4>1, CostType
      <3> HIDE DEF h
      <3> QED BY <3>1, <3>2, <3>3, <3>4, <3>5
    <2> QED BY <1>1, <2>1, <2>2, <2>3
  <1>8. Sums(h, r, a + b)
    <2>1. h = [k \in 0 .. a + b |-> h[k]]
      OBVIOUS
    <2> HIDE DEF h
    <2> QED BY <1>7, <2>1 DEF Sums
  <1>9. CostOf(r) = h[a + b]
    <2> HIDE DEF h
    <2> QED BY <1>1, <1>8, CostOfIsSum
  <1>10. h[a + b] = f[a] + g[b]
    <2>1. a + b \in 0 .. a + b /\ a + b - a = b
      BY <1>1
    <2>2. CASE b = 0
      <3>1. g[b] = 0 /\ a + b <= a /\ a + b = a /\ f[a] \in Nat
        BY <1>1, <1>5, <2>2
      <3> QED BY <2>1, <3>1
    <2>3. CASE b # 0
      <3>1. ~(a + b <= a)
        BY <1>1, <2>3
      <3>2. PICK t \in 0 .. a + b : t = a + b /\ ~(t <= a) /\ t - a = b
        BY <1>1, <2>1, <3>1
      <3>3. h[t] = f[a] + g[t - a]
        BY <3>2
      <3> HIDE DEF h
      <3> QED BY ONLY <3>2, <3>3
    <2> QED BY <2>2, <2>3
  <1> QED BY <1>6, <1>9, <1>10 DEF r

LEMMA CostOfFew ==
  /\ CostOf(<<>>) = 0
  /\ \A c \in Calls : CostOf(<<c>>) = Cost(c)
  /\ \A c, d \in Calls : CostOf(<<c, d>>) = Cost(c) + Cost(d)
  /\ \A c, d, e \in Calls : CostOf(<<c, d, e>>) = Cost(c) + Cost(d) + Cost(e)
  <1>1. CostOf(<<>>) = 0
    <2>1. <<>> \in Seq(Calls) /\ Len(<<>>) = 0
      OBVIOUS
    <2>2. PICK q \in Seq(Calls) : q = <<>> /\ Len(q) = 0
      BY <2>1
    <2>3. PICK f : f = [k \in 0 .. 0 |-> 0]
      OBVIOUS
    <2>4. Sums(f, q, 0) /\ f[0] = 0
      BY <2>3 DEF Sums
    <2> QED BY <2>2, <2>4, CostOfIsSum
  <1>2. ASSUME NEW c \in Calls
        PROVE  CostOf(<<c>>) = Cost(c)
    <2>1. <<c>> \in Seq(Calls) /\ Len(<<c>>) = 1 /\ <<c>>[1] = c
      OBVIOUS
    <2>2. PICK q \in Seq(Calls) : q = <<c>> /\ Len(q) = 1 /\ q[1] = c
      BY <2>1
    <2>3. PICK f : f = [k \in 0 .. 1 |-> IF k = 0 THEN 0 ELSE Cost(c)]
      OBVIOUS
    <2>4. Cost(c) \in Nat
      BY CostType
    <2>5. /\ f[0] = 0
          /\ f[1] = Cost(c)
      BY ONLY <2>3
    <2>6. \A k \in 0 .. 1 : f[k] = IF k = 0 THEN 0 ELSE f[k - 1] + Cost(q[k])
      <3> SUFFICES ASSUME NEW k \in 0 .. 1 PROVE f[k] = IF k = 0 THEN 0 ELSE f[k - 1] + Cost(q[k])
        OBVIOUS
      <3>1. k \in {0, 1}
        OBVIOUS
      <3> QED BY ONLY <2>2, <2>4, <2>5, <3>1
    <2>7. Sums(f, q, 1)
      <3>1. f = [k \in 0 .. 1 |-> f[k]]
        BY ONLY <2>3
      <3> QED BY ONLY <2>6, <3>1 DEF Sums
    <2> QED BY <2>2, <2>5, <2>7, CostOfIsSum
  <1>3. ASSUME NEW c \in Calls, NEW d \in Calls
        PROVE  CostOf(<<c, d>>) = Cost(c) + Cost(d)
    <2>1. <<c, d>> \in Seq(Calls) /\ Len(<<c, d>>) = 2 /\ <<c, d>>[1] = c /\ <<c, d>>[2] = d
      OBVIOUS
    <2>2. PICK q \in Seq(Calls) : q = <<c, d>> /\ Len(q) = 2 /\ q[1] = c /\ q[2] = d
      BY <2>1
    <2>3. PICK f : f = [k \in 0 .. 2 |-> IF k = 0 THEN 0 ELSE IF k = 1 THEN Cost(c)
                                         ELSE Cost(c) + Cost(d)]
      OBVIOUS
    <2>4. Cost(c) \in Nat /\ Cost(d) \in Nat
      BY CostType
    <2>5. /\ f[0] = 0
          /\ f[1] = Cost(c)
          /\ f[2] = Cost(c) + Cost(d)
      BY ONLY <2>3
    <2>6. \A k \in 0 .. 2 : f[k] = IF k = 0 THEN 0 ELSE f[k - 1] + Cost(q[k])
      <3> SUFFICES ASSUME NEW k \in 0 .. 2 PROVE f[k] = IF k = 0 THEN 0 ELSE f[k - 1] + Cost(q[k])
        OBVIOUS
      <3>1. k \in {0, 1, 2}
        OBVIOUS
      <3> QED BY ONLY <2>2, <2>4, <2>5, <3>1
    <2>7. Sums(f, q, 2)
      <3>1. f = [k \in 0 .. 2 |-> f[k]]
        BY ONLY <2>3
      <3> QED BY ONLY <2>6, <3>1 DEF Sums
    <2> QED BY <2>2, <2>5, <2>7, CostOfIsSum
  <1>4. ASSUME NEW c \in Calls, NEW d \in Calls, NEW e \in Calls
        PROVE  CostOf(<<c, d, e>>) = Cost(c) + Cost(d) + Cost(e)
    <2>1. /\ <<c, d, e>> \in Seq(Calls) /\ Len(<<c, d, e>>) = 3
          /\ <<c, d, e>>[1] = c /\ <<c, d, e>>[2] = d /\ <<c, d, e>>[3] = e
      OBVIOUS
    <2>2. PICK q \in Seq(Calls) : q = <<c, d, e>> /\ Len(q) = 3 /\ q[1] = c /\ q[2] = d /\ q[3] = e
      BY <2>1
    <2>3. PICK f : f = [k \in 0 .. 3 |-> IF k = 0 THEN 0 ELSE IF k = 1 THEN Cost(c)
                                         ELSE IF k = 2 THEN Cost(c) + Cost(d)
                                         ELSE Cost(c) + Cost(d) + Cost(e)]
      OBVIOUS
    <2>4. Cost(c) \in Nat /\ Cost(d) \in Nat /\ Cost(e) \in Nat
      BY CostType
    <2>5. /\ f[0] = 0
          /\ f[1] = Cost(c)
          /\ f[2] = Cost(c) + Cost(d)
          /\ f[3] = Cost(c) + Cost(d) + Cost(e)
      BY ONLY <2>3
    <2>6. \A k \in 0 .. 3 : f[k] = IF k = 0 THEN 0 ELSE f[k - 1] + Cost(q[k])
      <3> SUFFICES ASSUME NEW k \in 0 .. 3 PROVE f[k] = IF k = 0 THEN 0 ELSE f[k - 1] + Cost(q[k])
        OBVIOUS
      <3>1. k \in {0, 1, 2, 3}
        OBVIOUS
      <3> QED BY ONLY <2>2, <2>4, <2>5, <3>1
    <2>7. Sums(f, q, 3)
      <3>1. f = [k \in 0 .. 3 |-> f[k]]
        BY ONLY <2>3
      <3> QED BY ONLY <2>6, <3>1 DEF Sums
    <2> QED BY <2>2, <2>5, <2>7, CostOfIsSum
  <1> QED BY <1>1, <1>2, <1>3, <1>4

LEMMA CostOfOne ==
  ASSUME NEW c \in Calls PROVE <<c>> \in Seq(Calls) /\ CostOf(<<c>>) = Cost(c)
  <1>1. <<c>> \in Seq(Calls)
    OBVIOUS
  <1> QED BY <1>1, CostOfFew

LEMMA CostOfTwo ==
  ASSUME NEW c \in Calls, NEW d \in Calls
  PROVE  <<c, d>> \in Seq(Calls) /\ CostOf(<<c, d>>) = Cost(c) + Cost(d)
  <1>1. <<c, d>> \in Seq(Calls)
    OBVIOUS
  <1> QED BY <1>1, CostOfFew

LEMMA CostOfThree ==
  ASSUME NEW c \in Calls, NEW d \in Calls, NEW e \in Calls
  PROVE  /\ <<c, d, e>> \in Seq(Calls)
         /\ CostOf(<<c, d, e>>) = Cost(c) + Cost(d) + Cost(e)
  <1>1. <<c, d, e>> \in Seq(Calls)
    OBVIOUS
  <1> QED BY <1>1, CostOfFew

(* The players that are not ready are expired one after another. *)
LEMMA CostOfSlots ==
  ASSUME NEW q \in Seq(Calls), NEW m \in Nat, Len(q) = m, \A k \in 1 .. m : Cost(q[k]) = 3
  PROVE  CostOf(q) = 3 * m
  <1> DEFINE f == [k \in 0 .. m |-> 3 * k]
  <1>1. Sums(f, q, m)
    <2>1. \A k \in 0 .. m : f[k] = IF k = 0 THEN 0 ELSE f[k - 1] + Cost(q[k])
      OBVIOUS
    <2>2. f = [k \in 0 .. m |-> f[k]]
      OBVIOUS
    <2> HIDE DEF f
    <2> QED BY <2>1, <2>2 DEF Sums
  <1>2. f[m] = 3 * m
    OBVIOUS
  <1> HIDE DEF f
  <1> QED BY <1>1, <1>2, CostOfIsSum
LEMMA FarewellCost == ASSUME NEW i PROVE CostOf(Farewell(i)) \in {0, 2}
  <1>1. CASE i \in registered
    <2>1. /\ Broadcast("LEFT") \in Calls /\ Cost(Broadcast("LEFT")) = 1
          /\ Call("broadcast_game_state") \in Calls /\ Cost(Call("broadcast_game_state")) = 1
      BY CallTypes, CallCosts DEF Lines, Procedures
    <2>2. CostOf(<<Broadcast("LEFT"), Call("broadcast_game_state")>>) = 1 + 1
      BY <2>1, CostOfFew
    <2> QED BY <1>1, <2>2 DEF Farewell
  <1>2. CASE i \notin registered
    BY <1>2, CostOfFew DEF Farewell
  <1> QED BY <1>1, <1>2


LEMMA ReturnCost ==
  ASSUME StackOK, todo # <<>>, NEW calls \in Seq(Calls), Return(calls)
  PROVE  /\ CostOf(calls) \in Nat /\ CostOf(Tail(todo)) \in Nat /\ Head(todo) \in Calls
         /\ CostOf(todo) = Cost(Head(todo)) + CostOf(Tail(todo))
         /\ CostOf(todo') = CostOf(calls) + CostOf(Tail(todo))
  <1>1. Head(todo) \in Calls /\ Tail(todo) \in Seq(Calls)
    BY FramesOfStack DEF StackOK
  <1>2. todo = <<Head(todo)>> \o Tail(todo)
    BY HeadTailProperties DEF StackOK
  <1>3. <<Head(todo)>> \in Seq(Calls) /\ CostOf(<<Head(todo)>>) = Cost(Head(todo))
    BY <1>1, CostOfFew
  <1>4. CostOf(<<Head(todo)>> \o Tail(todo)) = Cost(Head(todo)) + CostOf(Tail(todo))
    BY <1>1, <1>3, CostOfConcat
  <1>5. CostOf(calls \o Tail(todo)) = CostOf(calls) + CostOf(Tail(todo))
    BY <1>1, CostOfConcat
  <1> QED BY <1>1, <1>2, <1>4, <1>5, CostOfType DEF Return

(* Clients that were behind and are dropped are fewer to drop. *)
LEMMA LaggingType == ASSUME DataOK PROVE IsFiniteSet(lagging) /\ Cardinality(lagging) \in Nat
  <1>1. IsFiniteSet(Slots)
    BY MatchServerAssumption, FS_Interval DEF Slots
  <1>2. IsFiniteSet(lagging)
    BY <1>1, FS_Subset DEF DataOK
  <1> QED BY <1>2, FS_CardinalityType

LEMMA FewerLagging ==
  ASSUME DataOK, NEW S \in SUBSET lagging
  PROVE  /\ Cardinality(S) \in Nat /\ Cardinality(S) <= Cardinality(lagging)
         /\ S # lagging => Cardinality(S) < Cardinality(lagging)
  <1>1. IsFiniteSet(lagging) /\ Cardinality(lagging) \in Nat
    BY LaggingType
  <1>2. /\ IsFiniteSet(S) /\ Cardinality(S) <= Cardinality(lagging)
        /\ (Cardinality(lagging) = Cardinality(S) => lagging = S)
    BY <1>1, FS_Subset
  <1>3. Cardinality(S) \in Nat
    BY <1>2, FS_CardinalityType
  <1> QED BY <1>1, <1>2, <1>3

LEMMA Multiples ==
  ASSUME NEW s \in Nat, NEW m \in Nat, NEW n \in Nat
  PROVE  /\ s * m \in Nat
         /\ m <= n => s * m <= s * n
         /\ m < n => s * m + s <= s * n
  <1>1. \A i, j \in Nat : i * j \in Nat
    OBVIOUS
  <1>2. ASSUME m <= n PROVE s * m <= s * n
    <2>1. PICK d \in Nat : n = m + d
      <3>1. n - m \in Nat /\ n = m + (n - m)
        BY <1>2
      <3> QED BY <3>1
    <2>2. s * n = s * m + s * d
      BY <2>1
    <2>3. s * m \in Nat /\ s * d \in Nat
      BY <1>1
    <2> QED BY ONLY <2>2, <2>3
  <1>3. ASSUME m < n PROVE s * m + s <= s * n
    <2>1. PICK d \in Nat : n = m + 1 + d
      <3>1. n - m - 1 \in Nat /\ n = m + 1 + (n - m - 1)
        BY <1>3
      <3> QED BY <3>1
    <2>2. s * n = s * m + s + s * d
      BY <2>1
    <2>3. s * m \in Nat /\ s * d \in Nat
      BY <1>1
    <2> QED BY ONLY <2>2, <2>3
  <1> QED BY <1>1, <1>2, <1>3

(* A call that is replaced by cheaper ones, *)
LEMMA Cheaper ==
  ASSUME StackOK, DataOK, todo # <<>>, NEW calls \in Seq(Calls), Return(calls),
         lagging' \subseteq lagging, CostOf(calls) < Cost(Head(todo))
  PROVE  Outstanding' < Outstanding
  <1>1. /\ CostOf(calls) \in Nat /\ CostOf(Tail(todo)) \in Nat /\ Cost(Head(todo)) \in Nat
        /\ CostOf(todo) = Cost(Head(todo)) + CostOf(Tail(todo))
        /\ CostOf(todo') = CostOf(calls) + CostOf(Tail(todo))
    BY ReturnCost, CostType
  <1>2. /\ Cardinality(lagging') \in Nat /\ Cardinality(lagging) \in Nat
        /\ Cardinality(lagging') <= Cardinality(lagging)
    BY FewerLagging, LaggingType
  <1>3. /\ StartCost * Cardinality(lagging') <= StartCost * Cardinality(lagging)
        /\ StartCost * Cardinality(lagging') \in Nat /\ StartCost * Cardinality(lagging) \in Nat
    BY <1>2, Multiples, StartCostType
  <1>4. /\ Outstanding = CostOf(todo) + StartCost * Cardinality(lagging)
        /\ Outstanding' = CostOf(todo') + StartCost * Cardinality(lagging')
    BY DEF Outstanding, StartCost, CostOf, Cost
  <1> QED BY <1>1, <1>3, <1>4

(* and a broadcast that drops clients, which a reevaluation follows. *)
LEMMA CheaperAfter ==
  ASSUME StackOK, DataOK, todo # <<>>, NEW lost \in SUBSET lagging, Return(After(lost)),
         lagging' = lagging \ lost
  PROVE  Outstanding' < Outstanding
  <1>1. Head(todo) \in Calls /\ Cost(Head(todo)) \in Nat /\ 1 <= Cost(Head(todo))
    BY FramesOfStack, CostType DEF StackOK
  <1>2. CASE lost = {}
    <2>1. PICK calls \in Seq(Calls) : calls = After(lost) /\ CostOf(calls) = 0
      <3>1. After(lost) = <<>> /\ CostOf(<<>>) = 0
        BY <1>2, CostOfFew DEF After
      <3>2. CostOf(After(lost)) = 0
        BY ONLY <3>1
      <3> QED BY <3>2, AfterType
    <2>2. CostOf(calls) < Cost(Head(todo)) /\ lagging' \subseteq lagging /\ Return(calls)
      BY <1>1, <2>1
    <2> QED BY ONLY <2>2, Cheaper, StackOK, DataOK, todo # <<>>
  <1>3. CASE lost # {}
    <2>1. PICK calls \in Seq(Calls) : calls = After(lost) /\ CostOf(calls) = StartCost
      <3>1. Call("reevaluate_state") \in Calls
        BY CallTypes DEF Procedures
      <3>2. After(lost) = <<Call("reevaluate_state")>>
        BY <1>3 DEF After
      <3>3. CostOf(After(lost)) = StartCost
        BY <3>1, <3>2, CostOfFew, CallCosts
      <3> QED BY <3>3, AfterType
    <2>2. /\ CostOf(Tail(todo)) \in Nat
          /\ CostOf(todo) = Cost(Head(todo)) + CostOf(Tail(todo))
          /\ CostOf(todo') = CostOf(calls) + CostOf(Tail(todo))
      BY <2>1, ReturnCost
    <2>3. lagging' # lagging /\ lagging' \in SUBSET lagging
      BY <1>3
    <2>4. /\ Cardinality(lagging') \in Nat /\ Cardinality(lagging) \in Nat
          /\ Cardinality(lagging') < Cardinality(lagging)
      BY <2>3, FewerLagging, LaggingType
    <2>5. /\ StartCost * Cardinality(lagging') + StartCost <= StartCost * Cardinality(lagging)
          /\ StartCost * Cardinality(lagging') \in Nat /\ StartCost * Cardinality(lagging) \in Nat
      BY <2>4, Multiples, StartCostType
    <2>6. /\ Outstanding = CostOf(todo) + StartCost * Cardinality(lagging)
          /\ Outstanding' = CostOf(todo') + StartCost * Cardinality(lagging')
      BY DEF Outstanding, StartCost, CostOf, Cost
    <2> QED BY <1>1, <2>1, <2>2, <2>5, <2>6, StartCostType
  <1> QED BY <1>2, <1>3

(* The decisions: a match ends, a round starts, or neither. *)
LEMMA SettlesCheaply ==
  ASSUME StackOK, DataOK, todo # <<>>, Cost(Head(todo)) = StartCost,
         \/ EndGame
         \/ StartActiveRound
         \/ Return(<<>>) /\ lagging' \subseteq lagging
         \/ Return(<<Broadcast("WAITING_FOR_OTHERS")>>) /\ lagging' \subseteq lagging
  PROVE  Outstanding' < Outstanding
  <1>1. StartCost \in Nat /\ 2 < StartCost /\ StartCost = 2 * MaxPlayers + 3 /\ MaxPlayers \in Nat
    BY StartCostType
  <1>2. CASE Return(<<>>) /\ lagging' \subseteq lagging
    <2>1. <<>> \in Seq(Calls) /\ CostOf(<<>>) < Cost(Head(todo))
      BY <1>1, CostOfFew
    <2> QED BY <1>2, <2>1, Cheaper
  <1>3. CASE Return(<<Broadcast("WAITING_FOR_OTHERS")>>) /\ lagging' \subseteq lagging
    <2>1. Broadcast("WAITING_FOR_OTHERS") \in Calls /\ Cost(Broadcast("WAITING_FOR_OTHERS")) = 1
      BY CallTypes, CallCosts DEF Lines
    <2>2. PICK calls \in Seq(Calls) :
             calls = <<Broadcast("WAITING_FOR_OTHERS")>> /\ CostOf(calls) = 1
      BY <2>1, CostOfOne
    <2>3. CostOf(calls) < Cost(Head(todo)) /\ Return(calls)
      BY <1>1, <1>3, <2>2
    <2> QED BY <1>3, <2>3, Cheaper
  <1>4. CASE EndGame
    <2>1. Return(<<>>) /\ lagging' \subseteq lagging
      BY <1>4 DEF EndGame, Queue
    <2> QED BY <1>2, <2>1
  <1>5. CASE StartActiveRound
    <2>1. /\ Broadcast("ROUND_START") \in Calls /\ Cost(Broadcast("ROUND_START")) = 1
          /\ CallOn("broadcast_positions", 0) \in Calls
          /\ Cost(CallOn("broadcast_positions", 0)) = 2 * MaxPlayers + 1
      <3>1. 0 \in 0 .. MaxPlayers /\ 0 \in Int /\ 2 * (MaxPlayers - 0) + 1 = 2 * MaxPlayers + 1
        BY <1>1
      <3> QED BY <3>1, CallTypes, CallCosts DEF Lines
    <2>2. PICK calls \in Seq(Calls) :
             /\ calls = <<Broadcast("ROUND_START"), CallOn("broadcast_positions", 0)>>
             /\ CostOf(calls) = 1 + (2 * MaxPlayers + 1)
        BY <2>1, CostOfTwo
    <2>3. Return(calls) /\ lagging' \subseteq lagging
      BY <1>5, <2>2 DEF StartActiveRound
    <2>4. CostOf(calls) < Cost(Head(todo))
      BY <1>1, <2>2
    <2> QED BY <2>3, <2>4, Cheaper
  <1> QED BY <1>2, <1>3, <1>4, <1>5

LEMMA BroadcastsRunOut ==
  ASSUME StackOK, DataOK, QueueBroadcast \/ BroadcastGameState \/ BroadcastPositions
  PROVE  Outstanding' < Outstanding
  <1>0. todo # <<>>
    BY DEF QueueBroadcast, BroadcastGameState, BroadcastPositions, Running
  <1>1. CASE QueueBroadcast
    <2>1. PICK lost \in SUBSET (connected \cap lagging) :
             Return(After(lost)) /\ lagging' = lagging \ lost
      BY <1>1 DEF QueueBroadcast, Queue
    <2> QED BY <1>0, <2>1, CheaperAfter
  <1>2. CASE BroadcastGameState
    <2>1. PICK lost \in SUBSET (Registered \cap lagging) :
             Return(After(lost)) /\ lagging' = lagging \ lost
      BY <1>2 DEF BroadcastGameState, Queue
    <2> QED BY <1>0, <2>1, CheaperAfter
  <1>3. CASE BroadcastPositions
    <2>1. lagging' \subseteq lagging /\ Running("broadcast_positions")
      BY <1>3 DEF BroadcastPositions, players
    <2> DEFINE s == Head(todo).slot
    <2>2. s \in 0 .. MaxPlayers /\ Cost(Head(todo)) = 2 * (MaxPlayers - s) + 1
      <3>1. Head(todo) \in Calls /\ Head(todo).fn = "broadcast_positions"
        BY <1>0, <2>1, FramesOfStack DEF StackOK, Running
      <3>2. Head(todo) \in [fn : {"broadcast_positions"}, slot : 0 .. MaxPlayers]
        BY <3>1 DEF Calls, Procedures, SlotProcedures
      <3> QED BY <3>1, <3>2, CostByName
    <2>3. \/ Return(<<>>)
          \/ \E i \in Admitted :
               /\ s <= i
               /\ Return(<<Broadcast("PLAYER"), CallOn("broadcast_positions", i + 1)>>)
      BY <1>3 DEF BroadcastPositions
    <2> HIDE DEF s
    <2>4. CASE Return(<<>>)
      <3>1. <<>> \in Seq(Calls) /\ CostOf(<<>>) < Cost(Head(todo))
        BY <2>2, CostOfFew, StartCostType
      <3> QED BY <1>0, <2>1, <2>4, <3>1, Cheaper
    <2>5. ASSUME NEW i \in Admitted, s <= i,
                 Return(<<Broadcast("PLAYER"), CallOn("broadcast_positions", i + 1)>>)
          PROVE  Outstanding' < Outstanding
      <3>1. i \in Nat /\ i + 1 \in 0 .. MaxPlayers /\ i + 1 \in Int
        BY MatchServerAssumption DEF DataOK, Admitted, Slots
      <3>2. /\ Broadcast("PLAYER") \in Calls /\ Cost(Broadcast("PLAYER")) = 1
            /\ CallOn("broadcast_positions", i + 1) \in Calls
            /\ Cost(CallOn("broadcast_positions", i + 1)) = 2 * (MaxPlayers - (i + 1)) + 1
        BY <3>1, CallTypes, CallCosts DEF Lines
      <3>3. PICK calls \in Seq(Calls) :
               /\ calls = <<Broadcast("PLAYER"), CallOn("broadcast_positions", i + 1)>>
               /\ CostOf(calls) = 1 + (2 * (MaxPlayers - (i + 1)) + 1)
        BY <3>2, CostOfTwo
      <3>4. CostOf(calls) < Cost(Head(todo))
        BY <2>2, <2>5, <3>1, <3>3, StartCostType
      <3> QED BY <1>0, <2>1, <2>5, <3>3, <3>4, Cheaper
    <2> QED BY <2>3, <2>4, <2>5
  <1> QED BY <1>1, <1>2, <1>3

LEMMA ReevaluateRunsOut ==
  ASSUME StackOK, DataOK, Reevaluate PROVE Outstanding' < Outstanding
  <1>1. todo # <<>> /\ Cost(Head(todo)) = StartCost
    BY CostByName DEF Reevaluate, Running
  <1>2. \/ EndGame
        \/ StartActiveRound
        \/ Return(<<>>) /\ UNCHANGED <<players, match>>
        \/ ReevaluateLobby
    <2>1. phase \in Phases
      BY DEF DataOK
    <2> QED BY <2>1 DEF Reevaluate, SettleSetup, ReevaluateRound, Phases
  <1>3. ReevaluateLobby \/ UNCHANGED <<players, match>> => lagging' \subseteq lagging
    BY DEF ReevaluateLobby, players
  <1>4. ReevaluateLobby => Return(<<>>)
    BY DEF ReevaluateLobby
  <1> QED BY <1>1, <1>2, <1>3, <1>4, SettlesCheaply

LEMMA AdmissionRunsOut ==
  ASSUME StackOK, DataOK, MaybeAdmit \/ AdmitTail
  PROVE  Outstanding' < Outstanding
  <1> DEFINE i == Head(todo).slot
  <1>0. todo # <<>>
    BY DEF MaybeAdmit, AdmitTail, Running
  <1>1. i \in Slots
    BY RunningSlot DEF MaybeAdmit, AdmitTail, SlotProcedures
  <1>2. /\ CallOn("maybe_admit_player.tail", i) \in Calls
        /\ Cost(CallOn("maybe_admit_player.tail", i)) = 3
        /\ Broadcast("LOBBY_OPEN") \in Calls /\ Cost(Broadcast("LOBBY_OPEN")) = 1
        /\ Broadcast("JOINED") \in Calls /\ Cost(Broadcast("JOINED")) = 1
        /\ Call("broadcast_game_state") \in Calls /\ Cost(Call("broadcast_game_state")) = 1
    <2> HIDE DEF i
    <2> QED BY <1>1, CallTypes, CallCosts DEF Lines, Procedures, SlotProcedures
  <1>3. ASSUME MaybeAdmit PROVE Outstanding' < Outstanding
    <2>1. Cost(Head(todo)) = 5
      BY <1>3, CostByName DEF MaybeAdmit, Running
    <2>2. CASE Return(<<>>) /\ UNCHANGED <<players, match>>
      <3>1. <<>> \in Seq(Calls) /\ CostOf(<<>>) < Cost(Head(todo)) /\ lagging' \subseteq lagging
        BY <2>1, <2>2, CostOfFew DEF players
      <3> QED BY <1>0, <2>2, <3>1, Cheaper
    <2>3. ASSUME NEW lost \in SUBSET ({i} \cap lagging), Queue(Silence, lost),
                 Return(After(lost))
          PROVE  Outstanding' < Outstanding
      <3>1. lost \in SUBSET lagging /\ lagging' = lagging \ lost
        BY <2>3 DEF Queue
      <3> QED BY <1>0, <2>3, <3>1, CheaperAfter
    <2>4. ASSUME Return((IF join_deadline = "unset" THEN <<Broadcast("LOBBY_OPEN")>>
                         ELSE <<>>) \o <<CallOn("maybe_admit_player.tail", i)>>),
                 UNCHANGED <<players, phase, setup_deadline, round_no>>
          PROVE  Outstanding' < Outstanding
      <3>1. PICK first \in Seq(Calls) :
               /\ first = IF join_deadline = "unset" THEN <<Broadcast("LOBBY_OPEN")>> ELSE <<>>
               /\ CostOf(first) \in {0, 1}
        <4>1. <<Broadcast("LOBBY_OPEN")>> \in Seq(Calls) /\ <<>> \in Seq(Calls)
          BY <1>2
        <4>2. CostOf(<<Broadcast("LOBBY_OPEN")>>) = 1 /\ CostOf(<<>>) = 0
          BY <1>2, CostOfFew
        <4> QED BY <4>1, <4>2
      <3>2. PICK last \in Seq(Calls) :
               last = <<CallOn("maybe_admit_player.tail", i)>> /\ CostOf(last) = 3
        <4> HIDE DEF i
        <4> QED BY <1>2, CostOfOne
      <3>3. CostOf(first \o last) = CostOf(first) + CostOf(last) /\ first \o last \in Seq(Calls)
        BY CostOfConcat
      <3>4. CostOf(first \o last) < Cost(Head(todo))
        BY <2>1, <3>1, <3>2, <3>3
      <3>5. Return(first \o last) /\ lagging' \subseteq lagging
        BY <2>4, <3>1, <3>2 DEF players
      <3> QED BY <1>0, <3>3, <3>4, <3>5, Cheaper
    <2> QED BY <1>3, <2>2, <2>3, <2>4 DEF MaybeAdmit
  <1>4. ASSUME AdmitTail PROVE Outstanding' < Outstanding
    <2>1. Cost(Head(todo)) = 3
      BY <1>4, CostByName DEF AdmitTail, Running
    <2>2. \/ /\ Return(<<Broadcast("JOINED"), Call("broadcast_game_state")>>)
             /\ lagging' \subseteq lagging
          \/ i \in lagging /\ Queue(Silence, {i}) /\ Return(<<Call("reevaluate_state")>>)
      BY <1>4 DEF AdmitTail
    <2>3. ASSUME Return(<<Broadcast("JOINED"), Call("broadcast_game_state")>>),
                 lagging' \subseteq lagging
          PROVE  Outstanding' < Outstanding
      <3>1. PICK calls \in Seq(Calls) :
               /\ calls = <<Broadcast("JOINED"), Call("broadcast_game_state")>>
               /\ CostOf(calls) = 1 + 1
        <4> HIDE DEF i
        <4> QED BY <1>2, CostOfTwo
      <3>2. CostOf(calls) < Cost(Head(todo))
        BY <2>1, <3>1
      <3> QED BY <1>0, <2>3, <3>1, <3>2, Cheaper
    <2>4. ASSUME i \in lagging, Queue(Silence, {i}), Return(<<Call("reevaluate_state")>>)
          PROVE  Outstanding' < Outstanding
      <3>1. After({i}) = <<Call("reevaluate_state")>>
        BY DEF After
      <3>2. {i} \in SUBSET lagging /\ lagging' = lagging \ {i} /\ Return(After({i}))
        BY <2>4, <3>1 DEF Queue
      <3> HIDE DEF i
      <3> QED BY <1>0, <3>2, CheaperAfter
    <2> QED BY <2>2, <2>3, <2>4
  <1> QED BY <1>3, <1>4

LEMMA TimersRunOut ==
  ASSUME StackOK, DataOK,
         CloseLobby \/ CloseLobbyTail \/ Expire \/ ExpireSlot \/ ExpireTail \/ Chase
  PROVE  Outstanding' < Outstanding
  <1>0. todo # <<>>
    BY DEF CloseLobby, CloseLobbyTail, Expire, ExpireSlot, ExpireTail, Chase, Running
  <1>1. StartCost \in Nat /\ StartCost = 2 * MaxPlayers + 3 /\ MaxPlayers \in Nat
    BY StartCostType
  <1>2. ASSUME Return(<<>>), lagging' \subseteq lagging PROVE Outstanding' < Outstanding
    <2>1. Head(todo) \in Calls
      BY <1>0, FramesOfStack DEF StackOK
    <2>2. <<>> \in Seq(Calls) /\ CostOf(<<>>) < Cost(Head(todo))
      BY <2>1, CostOfFew, CostType
    <2> QED BY <1>0, <1>2, <2>2, Cheaper
  <1>3. ASSUME CloseLobby PROVE Outstanding' < Outstanding
    <2>1. Cost(Head(todo)) = StartCost + 3 /\ lagging' \subseteq lagging
      BY <1>3, CostByName DEF CloseLobby, Running, players
    <2>2. CASE Return(<<Broadcast("LOBBY_CLOSED"), Broadcast("SETUP_OPEN"),
                        Call("close_lobby_if_needed.tail")>>)
      <3>1. /\ Broadcast("LOBBY_CLOSED") \in Calls /\ Cost(Broadcast("LOBBY_CLOSED")) = 1
            /\ Broadcast("SETUP_OPEN") \in Calls /\ Cost(Broadcast("SETUP_OPEN")) = 1
            /\ Call("close_lobby_if_needed.tail") \in Calls
            /\ Cost(Call("close_lobby_if_needed.tail")) = StartCost
        BY CallTypes, CallCosts DEF Lines, Procedures
      <3>2. PICK calls \in Seq(Calls) :
               /\ calls = <<Broadcast("LOBBY_CLOSED"), Broadcast("SETUP_OPEN"),
                            Call("close_lobby_if_needed.tail")>>
               /\ CostOf(calls) = 1 + 1 + StartCost
        <4>1. PICK c \in Calls, d \in Calls, e \in Calls :
                 /\ c = Broadcast("LOBBY_CLOSED") /\ d = Broadcast("SETUP_OPEN")
                 /\ e = Call("close_lobby_if_needed.tail")
                 /\ Cost(c) = 1 /\ Cost(d) = 1 /\ Cost(e) = StartCost
          BY <3>1
        <4>2. <<c, d, e>> \in Seq(Calls) /\ CostOf(<<c, d, e>>) = Cost(c) + Cost(d) + Cost(e)
          BY CostOfThree
        <4> QED BY <4>1, <4>2
      <3>3. CostOf(calls) < Cost(Head(todo)) /\ Return(calls)
        BY <1>1, <2>1, <2>2, <3>2
      <3> QED BY <1>0, <2>1, <3>3, Cheaper
    <2> QED BY <1>2, <1>3, <2>1, <2>2 DEF CloseLobby
  <1>4. ASSUME CloseLobbyTail PROVE Outstanding' < Outstanding
    <2>1. Cost(Head(todo)) = StartCost
      BY <1>4, CostByName DEF CloseLobbyTail, Running
    <2>2. \/ EndGame
          \/ StartActiveRound
          \/ Return(<<Broadcast("WAITING_FOR_OTHERS")>>) /\ lagging' \subseteq lagging
      BY <1>4 DEF CloseLobbyTail, players
    <2> QED BY <1>0, <2>1, <2>2, SettlesCheaply
  <1>5. ASSUME Expire PROVE Outstanding' < Outstanding
    <2>1. Cost(Head(todo)) = StartCost + 3 * MaxPlayers + 1 /\ lagging' \subseteq lagging
      BY <1>5, CostByName DEF Expire, Running, players
    <2> DEFINE row == [k \in 1 .. MaxPlayers |-> CallOn("expire_unready.slot", k - 1)]
               last == <<Call("expire_unready.tail")>>
    <2>2. CASE Return(row \o last)
      <3>1. \A k \in 1 .. MaxPlayers : /\ CallOn("expire_unready.slot", k - 1) \in Calls
                                       /\ Cost(CallOn("expire_unready.slot", k - 1)) = 3
        <4>1. \A k \in 1 .. MaxPlayers : k - 1 \in Slots
          BY <1>1 DEF Slots
        <4> QED BY <4>1, CallTypes, CallCosts DEF SlotProcedures
      <3>2. /\ row \in Seq(Calls) /\ Len(row) = MaxPlayers
            /\ \A k \in 1 .. MaxPlayers : row[k] = CallOn("expire_unready.slot", k - 1)
        BY <1>1, <3>1
      <3> HIDE DEF row
      <3>3. CostOf(row) = 3 * MaxPlayers
        BY <1>1, <3>1, <3>2, CostOfSlots
      <3>4. last \in Seq(Calls) /\ CostOf(last) = StartCost
        <4>1. Call("expire_unready.tail") \in Calls /\ Cost(Call("expire_unready.tail")) = StartCost
          BY CallTypes, CallCosts DEF Procedures
        <4> QED BY <4>1, CostOfOne
      <3> HIDE DEF last
      <3>5. row \o last \in Seq(Calls) /\ CostOf(row \o last) = 3 * MaxPlayers + StartCost
        BY <3>2, <3>3, <3>4, CostOfConcat
      <3>6. CostOf(row \o last) < Cost(Head(todo))
        BY <1>1, <2>1, <3>5
      <3> QED BY <1>0, <2>1, <2>2, <3>5, <3>6, Cheaper
    <2>3. Return(row \o last) \/ Return(<<>>)
      BY <1>5 DEF Expire
    <2> QED BY <1>2, <2>1, <2>2, <2>3
  <1>6. ASSUME ExpireSlot PROVE Outstanding' < Outstanding
    <2> DEFINE i == Head(todo).slot
    <2>1. Cost(Head(todo)) = 3
      BY <1>6, CostByName DEF ExpireSlot, Running
    <2>2. /\ Return(Farewell(i)) \/ Return(<<>>)
          /\ lagging' \subseteq lagging
      BY <1>6 DEF ExpireSlot, DropLoudly, Queue, players
    <2>3. Farewell(i) \in Seq(Calls) /\ CostOf(Farewell(i)) \in {0, 2}
      BY FarewellType, FarewellCost
    <2>4. CostOf(Farewell(i)) < Cost(Head(todo))
      BY <2>1, <2>3
    <2> HIDE DEF i
    <2> QED BY <1>0, <1>2, <2>2, <2>3, <2>4, Cheaper
  <1>7. ASSUME ExpireTail PROVE Outstanding' < Outstanding
    <2>1. Cost(Head(todo)) = StartCost
      BY <1>7, CostByName DEF ExpireTail, Running
    <2>2. \/ EndGame
          \/ StartActiveRound
          \/ Return(<<>>) /\ lagging' \subseteq lagging
      BY <1>7 DEF ExpireTail, SettleSetup, players
    <2> QED BY <1>0, <2>1, <2>2, SettlesCheaply
  <1>8. ASSUME Chase PROVE Outstanding' < Outstanding
    <2>1. Cost(Head(todo)) = 2 * StartCost - 1 /\ lagging' \subseteq lagging
      BY <1>8, CostByName DEF Chase, Running
    <2>2. \/ Return(<<>>)
          \/ \E S \in SUBSET Alive :
               Return(<<CallOn("broadcast_positions", 0)>> \o
                      (IF AtMostOneType(Alive \ S, choice)
                       THEN <<Call("reevaluate_state")>> ELSE <<>>))
      BY <1>8 DEF Chase
    <2>3. ASSUME NEW S,
                 Return(<<CallOn("broadcast_positions", 0)>> \o
                        (IF AtMostOneType(Alive \ S, choice)
                         THEN <<Call("reevaluate_state")>> ELSE <<>>))
          PROVE  Outstanding' < Outstanding
      <3>1. PICK first \in Seq(Calls) :
               /\ first = <<CallOn("broadcast_positions", 0)>>
               /\ CostOf(first) = 2 * MaxPlayers + 1
        <4>1. 0 \in 0 .. MaxPlayers /\ 0 \in Int /\ 2 * (MaxPlayers - 0) + 1 = 2 * MaxPlayers + 1
          BY <1>1
        <4>2. /\ CallOn("broadcast_positions", 0) \in Calls
              /\ Cost(CallOn("broadcast_positions", 0)) = 2 * MaxPlayers + 1
          BY <4>1, CallTypes, CallCosts
        <4> QED BY <4>2, CostOfOne
      <3>2. PICK last \in Seq(Calls) :
               /\ last = IF AtMostOneType(Alive \ S, choice)
                         THEN <<Call("reevaluate_state")>> ELSE <<>>
               /\ CostOf(last) \in {0, StartCost}
        <4>1. /\ Call("reevaluate_state") \in Calls
              /\ Cost(Call("reevaluate_state")) = StartCost
          BY CallTypes, CallCosts DEF Procedures
        <4>2. /\ <<Call("reevaluate_state")>> \in Seq(Calls) /\ <<>> \in Seq(Calls)
              /\ CostOf(<<Call("reevaluate_state")>>) = StartCost /\ CostOf(<<>>) = 0
          BY <4>1, CostOfOne, CostOfFew
        <4> QED BY <4>2
      <3>3. CostOf(first \o last) = CostOf(first) + CostOf(last) /\ first \o last \in Seq(Calls)
        BY CostOfConcat
      <3>4. CostOf(first \o last) < Cost(Head(todo))
        BY <1>1, <2>1, <3>1, <3>2, <3>3
      <3>5. Return(first \o last)
        BY <2>3, <3>1, <3>2
      <3> QED BY <1>0, <2>1, <3>3, <3>4, <3>5, Cheaper
    <2> QED BY <1>2, <2>1, <2>2, <2>3
  <1> QED BY <1>3, <1>4, <1>5, <1>6, <1>7, <1>8

LEMMA StepRunsOut ==
  ASSUME TypeOK, Next, ~Idle PROVE Outstanding' < Outstanding
  <1>1. StackOK /\ DataOK
    BY DEF TypeOK, StackOK, DataOK
  <1>2. Step
    BY DEF Next, Timers, JoinWindowEnds, SetupWindowEnds, Accept, Command, Hello, Choose, Spawn,
           GetState, Rematch, Leave, FallBehind, CatchUp
  <1> QED BY <1>1, <1>2, BroadcastsRunOut, ReevaluateRunsOut, AdmissionRunsOut, TimersRunOut
         DEF Step

(* Every step of a running handler brings it nearer to its return: whichever
   clients the nested broadcasts drop, and in whatever order, the handler's calls
   of one another run out.  With fairness of Step this is what HandlersReturn
   rests on (server_state.c:41-94, 492-517). *)
THEOREM NestedCallsRunOutAlways == Spec => NestedCallsRunOut
  <1>1. TypeOK /\ [Next]_vars => [~Idle => Outstanding' < Outstanding]_vars
    BY StepRunsOut
  <1> QED BY <1>1, TypeCorrect, PTL DEF Spec, NestedCallsRunOut

(* The most that a command or an iteration's timers may put on the stack; and with
   it, what clients that are behind may add. *)
LongestHandler == 4 * StartCost + 3 * MaxPlayers + 3

HandlersShort ==
    Outstanding \in Nat /\ Outstanding <= LongestHandler + StartCost * MaxPlayers

LEMMA Short ==
  ASSUME NEW q \in Seq(Calls), NEW S \in SUBSET Slots
  PROVE  /\ CostOf(q) + StartCost * Cardinality(S) \in Nat
         /\ CostOf(q) <= LongestHandler =>
               CostOf(q) + StartCost * Cardinality(S) <= LongestHandler + StartCost * MaxPlayers
  <1>1. IsFiniteSet(Slots) /\ Cardinality(Slots) = MaxPlayers /\ MaxPlayers \in Nat
    <2>1. MaxPlayers \in Nat /\ MaxPlayers > 0 /\ MaxPlayers - 1 \in Int /\ 0 \in Int
      BY MatchServerAssumption
    <2>2. IsFiniteSet(0 .. MaxPlayers - 1) /\ Cardinality(0 .. MaxPlayers - 1) = MaxPlayers
      BY <2>1, FS_Interval
    <2> QED BY <2>1, <2>2 DEF Slots
  <1>2. Cardinality(S) <= MaxPlayers /\ Cardinality(S) \in Nat
    BY <1>1, FS_Subset, FS_CardinalityType
  <1>3. CostOf(q) \in Nat /\ LongestHandler \in Nat
    BY CostOfType, StartCostType DEF LongestHandler
  <1>4. /\ StartCost * Cardinality(S) \in Nat
        /\ StartCost * MaxPlayers \in Nat
        /\ StartCost * Cardinality(S) <= StartCost * MaxPlayers
    BY <1>1, <1>2, Multiples, StartCostType
  <1> QED BY ONLY <1>3, <1>4

LEMMA HandlersStartShort ==
  ASSUME StackOK, DataOK, Idle, Next PROVE CostOf(todo') <= LongestHandler
  <1>1. StartCost \in Nat /\ MaxPlayers \in Nat /\ 5 <= StartCost /\ LongestHandler \in Nat
        /\ LongestHandler = 4 * StartCost + 3 * MaxPlayers + 3
    BY StartCostType, MatchServerAssumption DEF LongestHandler
  <1>2. ~Step
    BY DEF Idle, Step, QueueBroadcast, BroadcastGameState, BroadcastPositions, Reevaluate,
           MaybeAdmit, AdmitTail, CloseLobby, CloseLobbyTail, Expire, ExpireSlot, ExpireTail,
           Chase, Running
  <1>3. ASSUME todo' = <<>> PROVE CostOf(todo') <= LongestHandler
    BY <1>1, <1>3, CostOfFew
  <1>4. CASE Timers
    <2>1. /\ Call("close_lobby_if_needed") \in Calls
          /\ Call("expire_unready_setup_players") \in Calls
          /\ Call("chase") \in Calls
          /\ Cost(Call("close_lobby_if_needed")) = StartCost + 3
          /\ Cost(Call("expire_unready_setup_players")) = StartCost + 3 * MaxPlayers + 1
          /\ Cost(Call("chase")) = 2 * StartCost - 1
      BY CallTypes, CallCosts DEF Procedures
    <2>2. todo' = <<Call("close_lobby_if_needed"), Call("expire_unready_setup_players"),
                    Call("chase")>>
      BY <1>4 DEF Timers
    <2>3. CostOf(todo') = StartCost + 3 + (StartCost + 3 * MaxPlayers + 1) + (2 * StartCost - 1)
      BY <2>1, <2>2, CostOfFew
    <2> QED BY <1>1, <2>3
  <1>5. ASSUME NEW i \in Slots, (\E c \in Picks : Choose(i, c)) \/ Spawn(i)
        PROVE  CostOf(todo') <= LongestHandler
    <2>1. todo' = <<CallOn("maybe_admit_player", i)>>
      BY <1>5 DEF Choose, Spawn
    <2>2. /\ CallOn("maybe_admit_player", i) \in Calls
          /\ Cost(CallOn("maybe_admit_player", i)) = 5
      BY CallTypes, CallCosts DEF SlotProcedures
    <2> QED BY <1>1, <2>1, <2>2, CostOfOne
  <1>6. /\ Call("reevaluate_state") \in Calls /\ Cost(Call("reevaluate_state")) = StartCost
        /\ CostOf(<<Call("reevaluate_state")>>) = StartCost
        /\ <<Call("reevaluate_state")>> \in Seq(Calls)
    BY CallTypes, CallCosts, CostOfOne DEF Procedures
  <1>7. ASSUME NEW i \in Slots, GetState(i) PROVE CostOf(todo') <= LongestHandler
    <2>1. PICK lost : todo' = After(lost)
      BY <1>7 DEF GetState
    <2>2. todo' = <<>> \/ todo' = <<Call("reevaluate_state")>>
      BY <2>1 DEF After
    <2>3. ASSUME todo' = <<Call("reevaluate_state")>> PROVE CostOf(todo') <= LongestHandler
      BY <1>1, <1>6, <2>3
    <2> QED BY <1>3, <2>2, <2>3
  <1>8. ASSUME NEW i \in Slots, Leave(i) PROVE CostOf(todo') <= LongestHandler
    <2>1. CostOf(todo') = CostOf(Farewell(i)) + StartCost
      <3>1. todo' = Farewell(i) \o <<Call("reevaluate_state")>>
        BY <1>8 DEF Leave
      <3>2. PICK last \in Seq(Calls) :
               last = <<Call("reevaluate_state")>> /\ CostOf(last) = StartCost
        BY <1>6
      <3>3. CostOf(Farewell(i) \o last) = CostOf(Farewell(i)) + CostOf(last)
        BY FarewellType, CostOfConcat
      <3> QED BY <3>1, <3>2, <3>3
    <2> QED BY <1>1, <2>1, FarewellCost
  <1>9. ASSUME NEW i \in Slots, Accept(i) \/ Hello(i) \/ Rematch(i) \/ FallBehind(i) \/ CatchUp(i)
        PROVE  todo' = <<>>
    BY <1>9 DEF Idle, Accept, Hello, Rematch, FallBehind, CatchUp
  <1>10. JoinWindowEnds \/ SetupWindowEnds => todo' = <<>>
    BY DEF Idle, JoinWindowEnds, SetupWindowEnds
  <1> QED BY <1>2, <1>3, <1>4, <1>5, <1>7, <1>8, <1>9, <1>10 DEF Next, Command

(* A handler returns within a number of steps that the number of slots bounds:
   one client's command or departure, and one iteration's timers, keep the others
   waiting for no longer, whatever their broadcasts drop (server.c:210-234). *)
THEOREM HandlersShortAlways == Spec => []HandlersShort
  <1>1. Init => HandlersShort
    <2> SUFFICES ASSUME Init PROVE HandlersShort
      OBVIOUS
    <2>1. todo \in Seq(Calls) /\ lagging \in SUBSET Slots
      BY InitType DEF TypeOK
    <2>2. CostOf(todo) = 0
      BY CostOfFew DEF Init
    <2>3. 0 <= LongestHandler
      BY StartCostType DEF LongestHandler
    <2> QED BY <2>1, <2>2, <2>3, Short DEF HandlersShort, Outstanding
  <1>2. TypeOK /\ TypeOK' /\ HandlersShort /\ [Next]_vars => HandlersShort'
    <2> SUFFICES ASSUME TypeOK, TypeOK', HandlersShort, [Next]_vars PROVE HandlersShort'
      OBVIOUS
    <2>1. StackOK /\ DataOK /\ todo' \in Seq(Calls) /\ lagging' \in SUBSET Slots
      BY DEF TypeOK, StackOK, DataOK
    <2>2. /\ Outstanding = CostOf(todo) + StartCost * Cardinality(lagging)
          /\ Outstanding' = CostOf(todo') + StartCost * Cardinality(lagging')
      BY DEF Outstanding, StartCost, CostOf, Cost
    <2>3. HandlersShort' <=> /\ Outstanding' \in Nat
                             /\ Outstanding' <= LongestHandler + StartCost * MaxPlayers
      BY DEF HandlersShort, LongestHandler, StartCost
    <2>4. Outstanding' \in Nat
      BY <2>1, <2>2, Short
    <2>5. CASE UNCHANGED vars
      <3>1. Outstanding' = Outstanding
        BY <2>2, <2>5 DEF vars, players
      <3> QED BY <2>3, <3>1 DEF HandlersShort
    <2>6. CASE Next /\ Idle
      <3>1. CostOf(todo') <= LongestHandler
        BY <2>1, <2>6, HandlersStartShort
      <3> QED BY <2>1, <2>2, <2>3, <3>1, Short
    <2>7. CASE Next /\ ~Idle
      <3>1. Outstanding' < Outstanding
        BY <2>5, <2>7, StepRunsOut
      <3>2. LongestHandler + StartCost * MaxPlayers \in Nat
        BY StartCostType, Multiples DEF LongestHandler
      <3> QED BY <2>3, <2>4, <3>1, <3>2 DEF HandlersShort
    <2> QED BY <2>5, <2>6, <2>7
  <1> QED BY <1>1, <1>2, TypeCorrect, PTL DEF Spec
=============================================================================
