----------------------------- MODULE MatchProofs -----------------------------
(***************************************************************************)
(* MatchServer implements Match, as long as no two clients may fall behind: *)
(* a client that its broadcasts drop is then the only one, and the tail of  *)
(* close_lobby_if_needed, which does not look at the phase again, meets the *)
(* phase that it would have chosen itself.  And what the server keeps while *)
(* at most one client, or none, falls behind.                              *)
(***************************************************************************)
EXTENDS MCMatchServer, AtRestProofs

(* close_lobby_if_needed or its tail is on the stack. *)
Closes == \E c \in Frames(todo) : c.fn \in CloseFns

LaterFree(q) == \A k \in 2 .. Len(q) : q[k].fn # "reevaluate_state"

(* Under the closing of the lobby a reevaluation runs at once. *)
ReevaluateFirst == Closes => LaterFree(todo)

(* The one client that the closing may drop is dropped in PHASE_SETUP, and what
   its departure then decides agrees with what the tail finds. *)
ClosingAgrees ==
    Closing =>
        /\ phase # "SETUP" => lagging = {}
        /\ phase = "ROUND_ACTIVE" => ~FewerThanTwo(Admitted)
        /\ phase = "GAME_OVER" => FewerThanTwo(Admitted)
        /\ Running("reevaluate_state") => phase = "SETUP" /\ lagging = {}

LagInv == lagging \subseteq MayLag /\ ReevaluateFirst /\ ClosingAgrees

-----------------------------------------------------------------------------
(* The stack under one step. *)

LEMMA LaterOfShort ==
  /\ LaterFree(<<>>)
  /\ \A c : LaterFree(<<c>>)
  /\ \A c, d : d.fn # "reevaluate_state" => LaterFree(<<c, d>>)
  <1>1. LaterFree(<<>>) /\ \A c : LaterFree(<<c>>)
    BY DEF LaterFree
  <1>2. ASSUME NEW c, NEW d, d.fn # "reevaluate_state" PROVE LaterFree(<<c, d>>)
    <2>1. Len(<<c, d>>) = 2 /\ <<c, d>>[2] = d
      OBVIOUS
    <2>2. \A k \in 2 .. 2 : k = 2
      OBVIOUS
    <2> QED BY <1>2, <2>1, <2>2 DEF LaterFree
  <1> QED BY <1>1, <1>2

(* A return that calls reevaluate_state first, or not at all. *)
LEMMA ReturnLater ==
  ASSUME StackOK, todo # <<>>, NEW calls \in Seq(Calls), Return(calls),
         LaterFree(todo), LaterFree(calls)
  PROVE  /\ LaterFree(todo')
         /\ (todo' # <<>> /\ Head(todo').fn = "reevaluate_state") =>
                Len(calls) > 0 /\ calls[1].fn = "reevaluate_state"
  <1>1. /\ Len(calls) \in Nat /\ Len(todo) \in Nat \ {0}
        /\ Len(todo') = Len(calls) + Len(todo) - 1
        /\ \A k \in 1 .. Len(calls) : todo'[k] = calls[k]
        /\ \A k \in 2 .. Len(todo) : todo'[k + Len(calls) - 1] = todo[k]
    BY ReturnPlaces
  <1>2. ASSUME NEW k \in 1 .. Len(todo'), k > Len(calls)
        PROVE  todo'[k].fn # "reevaluate_state"
    <2> DEFINE j == k - Len(calls) + 1
    <2>1. j \in 2 .. Len(todo) /\ j + Len(calls) - 1 = k
      BY <1>1, <1>2
    <2>2. todo'[k] = todo[j]
      BY <1>1, <2>1
    <2> QED BY <2>1, <2>2 DEF LaterFree
  <1>3. ASSUME NEW k \in 2 .. Len(todo'), ~(k > Len(calls))
        PROVE  todo'[k].fn # "reevaluate_state"
    <2>1. k \in 1 .. Len(calls) /\ k \in 2 .. Len(calls)
      BY <1>1, <1>3
    <2> QED BY <1>1, <2>1 DEF LaterFree
  <1>4. LaterFree(todo')
    BY <1>1, <1>2, <1>3 DEF LaterFree
  <1>5. ASSUME todo' # <<>>, Head(todo').fn = "reevaluate_state"
        PROVE  Len(calls) > 0 /\ calls[1].fn = "reevaluate_state"
    <2>1. todo' \in Seq(Calls)
      BY ReturnFrames DEF StackOK
    <2>2. Head(todo') = todo'[1] /\ 1 \in 1 .. Len(todo')
      BY <1>5, <2>1
    <2>3. ~(1 > Len(calls))
      BY <1>2, <1>5, <2>2
    <2>4. 1 \in 1 .. Len(calls)
      BY <1>1, <2>3
    <2> QED BY <1>1, <1>5, <2>2, <2>4
  <1> QED BY <1>4, <1>5

(* While the lobby is being closed there is no admission and no tick. *)
LEMMA ClosingExcludes ==
  ASSUME TypeOK, IInv, ChaseLast, Closes
  PROVE  /\ ~MaybeAdmit /\ ~AdmitTail /\ ~ExpireSlot /\ ~ExpireTail
         /\ Chase => Frames(todo) = {Head(todo)} /\ Head(todo).fn = "chase"
  <1>1. StackOK
    BY TypeParts
  <1>2. PICK d \in Frames(todo) : d.fn \in CloseFns
    BY DEF Closes
  <1>3. d \in Marked /\ d.fn \in TimerFns
    BY <1>2 DEF Marked, CloseFns, TimerFns
  <1>4. ASSUME NEW f \in AdmitFns PROVE ~Running(f)
    BY <1>1, <1>3, RunningMarked DEF IInv, OneCause
  <1>5. ~MaybeAdmit /\ ~AdmitTail
    BY <1>4 DEF MaybeAdmit, AdmitTail, AdmitFns
  <1>6. ~ExpireSlot /\ ~ExpireTail
    BY <1>1, RunningMarked DEF ExpireSlot, ExpireTail, TimerFns, IInv, NeverExpires
  <1>7. Chase => Frames(todo) = {Head(todo)} /\ Head(todo).fn = "chase"
    BY <1>1, ChaseAlone DEF Chase, Running
  <1> QED BY <1>5, <1>6, <1>7

(* No step but that of close_lobby_if_needed begins to close the lobby. *)
LEMMA ClosesBefore ==
  ASSUME TypeOK, IInv, StartInv, Step
  PROVE  /\ Closes' => Closes
         /\ Closing' /\ ~CloseLobby => Closing /\ ~Running("close_lobby_if_needed.tail")
         /\ Closes' => ~Chase \/ ~ChaseLast
  <1>1. StackOK /\ todo # <<>>
    BY StepReturns
  <1>2. CASE CloseLobby
    <2>1. Head(todo) \in Frames(todo) /\ Head(todo).fn \in CloseFns
      BY <1>1, <1>2, FramesOfStack DEF StackOK, CloseLobby, Running, CloseFns
    <2>2. ~Chase
      BY <1>2 DEF Chase, CloseLobby, Running
    <2> QED BY <1>2, <2>1, <2>2 DEF Closes
  <1>3. CASE ~CloseLobby
    <2>1. PICK calls \in Seq(Calls) : Return(calls) /\ Open(calls)
      BY <1>3, StepOpens
    <2>2. /\ Frames(todo') = Frames(calls) \cup Frames(Tail(todo))
          /\ Frames(todo) = {Head(todo)} \cup Frames(Tail(todo))
      BY <1>1, <2>1, ReturnFrames DEF StackOK
    <2>3. \A c \in Frames(todo') : c.fn \in CloseFns => c \in Frames(Tail(todo))
      BY <2>1, <2>2 DEF Open
    <2>4. Closes' => \E c \in Frames(Tail(todo)) : c.fn \in CloseFns
      BY <2>3 DEF Closes
    <2>5. Closing' => \E c \in Frames(Tail(todo)) : c.fn = "close_lobby_if_needed.tail"
      BY <2>3 DEF Closing, CloseFns
    <2>6. ASSUME Running("close_lobby_if_needed.tail") PROVE ~Closing'
      <3>1. Head(todo).fn \in CloseFns
        BY <2>6 DEF Running, CloseFns
      <3> QED BY <1>1, <2>5, <3>1, TailOnce DEF StartInv, CloseFns
    <2>7. ASSUME Chase, ChaseLast PROVE ~Closes'
      <3>1. Frames(todo) = {Head(todo)} /\ Head(todo).fn = "chase"
        BY <1>1, <2>7, ChaseAlone DEF Chase, Running
      <3> QED BY <2>2, <2>4, <3>1 DEF CloseFns
    <2> QED BY <2>2, <2>4, <2>5, <2>6, <2>7 DEF Closes, Closing
  <1> QED BY <1>2, <1>3

(* Under the closing of the lobby a step calls reevaluate_state first if at all,
   and only for a client that it has dropped. *)
LEMMA ClosingCalls ==
  ASSUME TypeOK, IInv, ChaseLast, Closes, Step, ~Chase
  PROVE  \E calls \in Seq(Calls) :
            /\ Return(calls) /\ LaterFree(calls)
            /\ Len(calls) > 0 /\ calls[1].fn = "reevaluate_state" =>
                  /\ QueueBroadcast \/ BroadcastGameState
                  /\ lagging' # lagging
  <1> DEFINE Drops == (QueueBroadcast \/ BroadcastGameState) /\ lagging' # lagging
             First(calls) == Len(calls) > 0 /\ calls[1].fn = "reevaluate_state" => Drops
             Returns == \E calls \in Seq(Calls) : Return(calls) /\ LaterFree(calls) /\ First(calls)
  <1> SUFFICES Returns
    OBVIOUS
  <1>1. StackOK
    BY TypeParts
  <1>2. Return(<<>>) => Returns
    <2>1. <<>> \in Seq(Calls) /\ LaterFree(<<>>) /\ First(<<>>)
      BY LaterOfShort
    <2> QED BY <2>1
  <1>3. ASSUME NEW c \in Calls, Return(<<c>>), c.fn = "reevaluate_state" => Drops
        PROVE  Returns
    <2>1. <<c>> \in Seq(Calls) /\ LaterFree(<<c>>) /\ First(<<c>>)
      BY <1>3, LaterOfShort
    <2> QED BY <1>3, <2>1
  <1>4. ASSUME NEW c \in Calls, NEW d \in Calls, Return(<<c, d>>),
               c.fn # "reevaluate_state", d.fn # "reevaluate_state"
        PROVE  Returns
    <2>1. <<c, d>> \in Seq(Calls) /\ LaterFree(<<c, d>>) /\ First(<<c, d>>)
      BY <1>4, LaterOfShort
    <2> QED BY <1>4, <2>1
  <1> HIDE DEF Returns
  <1>5. /\ \A line \in Lines : /\ Broadcast(line) \in Calls
                               /\ Broadcast(line).fn # "reevaluate_state"
        /\ Call("reevaluate_state") \in Calls
        /\ \A i \in 0 .. MaxPlayers :
              /\ CallOn("broadcast_positions", i) \in Calls
              /\ CallOn("broadcast_positions", i).fn # "reevaluate_state"
    BY CallTypes DEF Broadcast, Call, CallOn, Procedures
  <1>6. StartActiveRound => Returns
    <2>1. "ROUND_START" \in Lines /\ 0 \in 0 .. MaxPlayers
      BY MatchServerAssumption DEF Lines
    <2> QED BY <1>4, <1>5, <2>1 DEF StartActiveRound
  <1>7. SettleSetup \/ EndGame \/ ReevaluateLobby \/ ReevaluateRound => Returns
    BY <1>2, <1>6 DEF SettleSetup, EndGame, ReevaluateLobby, ReevaluateRound
  <1>8. ASSUME QueueBroadcast \/ BroadcastGameState, NEW said,
               NEW lost \in SUBSET lagging, Queue(said, lost), Return(After(lost))
        PROVE  Returns
    <2>1. CASE lost = {}
      BY <1>2, <1>8, <2>1 DEF After
    <2>2. CASE lost # {}
      <3>1. lagging' # lagging
        BY <1>8, <2>2 DEF Queue
      <3>2. Return(<<Call("reevaluate_state")>>)
        BY <1>8, <2>2 DEF After
      <3> QED BY <1>3, <1>5, <1>8, <3>1, <3>2
    <2> QED BY <2>1, <2>2
  <1>9. CASE QueueBroadcast
    <2>1. PICK lost \in SUBSET (connected \cap lagging) :
             /\ Queue([i \in connected |-> Heard(i, Head(todo).line)], lost)
             /\ Return(After(lost))
      BY <1>9 DEF QueueBroadcast
    <2> QED BY <1>8, <1>9, <2>1
  <1>10. CASE BroadcastGameState
    <2>1. PICK lost \in SUBSET (Registered \cap lagging) :
             Queue([i \in Registered |-> StateLine(i)], lost) /\ Return(After(lost))
      BY <1>10 DEF BroadcastGameState
    <2> QED BY <1>8, <1>10, <2>1
  <1>11. CASE BroadcastPositions
    <2>1. ASSUME NEW i \in Admitted,
                 Return(<<Broadcast("PLAYER"), CallOn("broadcast_positions", i + 1)>>)
          PROVE  Returns
      <3>1. i + 1 \in 0 .. MaxPlayers
        BY MatchServerAssumption DEF TypeOK, Admitted, Slots
      <3>2. "PLAYER" \in Lines
        BY DEF Lines
      <3> QED BY <1>4, <1>5, <2>1, <3>1, <3>2
    <2> QED BY <1>2, <1>11, <2>1 DEF BroadcastPositions
  <1>12. CASE Reevaluate
    <2>1. phase \in Phases
      BY DEF TypeOK
    <2> QED BY <1>2, <1>7, <1>12, <2>1 DEF Reevaluate, Phases
  <1>13. CASE CloseLobby
    <2> DEFINE c1 == Broadcast("LOBBY_CLOSED")
               c2 == Broadcast("SETUP_OPEN")
               c3 == Call("close_lobby_if_needed.tail")
    <2>1. <<c1, c2, c3>> \in Seq(Calls)
      BY CallTypes DEF Lines, Procedures
    <2>2. /\ c1.fn # "reevaluate_state" /\ c2.fn # "reevaluate_state"
          /\ c3.fn # "reevaluate_state"
      BY DEF Broadcast, Call
    <2>3. Return(<<>>) \/ Return(<<c1, c2, c3>>)
      BY <1>13 DEF CloseLobby
    <2> HIDE DEF c1, c2, c3
    <2>4. LaterFree(<<c1, c2, c3>>) /\ First(<<c1, c2, c3>>)
      <3>1. /\ Len(<<c1, c2, c3>>) = 3 /\ <<c1, c2, c3>>[1] = c1
            /\ <<c1, c2, c3>>[2] = c2 /\ <<c1, c2, c3>>[3] = c3
        OBVIOUS
      <3>2. \A k \in 2 .. 3 : k = 2 \/ k = 3
        OBVIOUS
      <3> QED BY <2>2, <3>1, <3>2 DEF LaterFree
    <2> QED BY <1>2, <2>1, <2>3, <2>4 DEF Returns
  <1>14. CASE CloseLobbyTail
    <2>1. "WAITING_FOR_OTHERS" \in Lines
      BY DEF Lines
    <2> QED BY <1>3, <1>5, <1>6, <1>7, <1>14, <2>1 DEF CloseLobbyTail
  <1>15. CASE Expire
    BY <1>2, <1>15 DEF Expire, IInv, NeverExpires, SetupExpired
  <1> QED BY <1>9, <1>10, <1>11, <1>12, <1>13, <1>14, <1>15, ClosingExcludes DEF Step

-----------------------------------------------------------------------------
(* LagInv under the steps. *)

(* Whoever is dropped was the only one behind. *)
LEMMA LastBehind ==
  ASSUME FewerThanTwo(MayLag), lagging \subseteq MayLag, NEW lost \in SUBSET lagging,
         lost # {}
  PROVE  lagging \ lost = {}
  BY DEF FewerThanTwo

LEMMA LagStays ==
  ASSUME TypeOK, Step PROVE lagging' \subseteq lagging
  <1>1. ASSUME NEW said, NEW lost, Queue(said, lost) PROVE lagging' \subseteq lagging
    BY <1>1 DEF Queue
  <1>2. EndGame \/ StartActiveRound \/ SettleSetup \/ UNCHANGED players => lagging' \subseteq lagging
    BY <1>1 DEF EndGame, StartActiveRound, SettleSetup, players
  <1>3. CASE Reevaluate
    BY <1>2, <1>3 DEF Reevaluate, ReevaluateLobby, ReevaluateRound, TypeOK, Phases
  <1> QED BY <1>1, <1>2, <1>3
          DEF Step, QueueBroadcast, BroadcastGameState, BroadcastPositions, MaybeAdmit,
              AdmitTail, CloseLobby, CloseLobbyTail, Expire, ExpireSlot, DropLoudly,
              ExpireTail, Chase

(* A step under the closing: the client it drops, if any, leaves nobody behind. *)
LEMMA ClosingStep ==
  ASSUME FewerThanTwo(MayLag), TypeOK, IInv, ChaseLast, LagInv, Closing, Step,
         ~Chase, ~CloseLobby, ~Running("close_lobby_if_needed.tail"),
         Running("reevaluate_state")' =>
            (QueueBroadcast \/ BroadcastGameState) /\ lagging' # lagging
  PROVE  ClosingAgrees'
  <1>1. Closes
    BY DEF Closes, Closing, CloseFns
  <1>2. /\ phase # "SETUP" => lagging = {}
        /\ phase = "ROUND_ACTIVE" => ~FewerThanTwo(Admitted)
        /\ phase = "GAME_OVER" => FewerThanTwo(Admitted)
        /\ Running("reevaluate_state") => phase = "SETUP" /\ lagging = {}
    BY DEF LagInv, ClosingAgrees
  <1>3. ASSUME NEW said, NEW lost \in SUBSET lagging, Queue(said, lost), UNCHANGED match
        PROVE  ClosingAgrees'
    <2>1. Admitted' = Admitted \ lost /\ lagging' = lagging \ lost /\ phase' = phase
      BY <1>3 DEF Queue, Admitted, match
    <2>2. CASE lost = {}
      <3>1. Admitted' = Admitted /\ lagging' = lagging
        BY <2>1, <2>2
      <3> QED BY <1>2, <2>1, <3>1 DEF ClosingAgrees
    <2>3. CASE lost # {}
      <3>1. lagging' = {}
        BY <2>1, <2>3, LastBehind DEF LagInv
      <3>2. phase' = "SETUP"
        BY <1>2, <2>1, <2>3
      <3> QED BY <3>1, <3>2 DEF ClosingAgrees
    <2> QED BY <2>2, <2>3
  <1>4. CASE QueueBroadcast \/ BroadcastGameState
    BY <1>3, <1>4 DEF QueueBroadcast, BroadcastGameState
  <1>5. ASSUME UNCHANGED <<players, match>>, ~QueueBroadcast, ~BroadcastGameState
        PROVE  ClosingAgrees'
    <2>1. Admitted' = Admitted /\ lagging' = lagging /\ phase' = phase
      BY <1>5 DEF players, match, Admitted
    <2>2. ~Running("reevaluate_state")'
      BY <1>5
    <2> QED BY <1>2, <2>1, <2>2 DEF ClosingAgrees
  <1>6. CASE BroadcastPositions \/ Expire
    <2>1. ~QueueBroadcast /\ ~BroadcastGameState
      BY <1>6 DEF BroadcastPositions, Expire, QueueBroadcast, BroadcastGameState, Running
    <2> QED BY <1>5, <1>6, <2>1 DEF BroadcastPositions, Expire
  <1>7. CASE Reevaluate
    <2>1. phase = "SETUP" /\ lagging = {}
      BY <1>2, <1>7 DEF Reevaluate
    <2>2. SettleSetup
      BY <1>7, <2>1 DEF Reevaluate
    <2>3. ~QueueBroadcast /\ ~BroadcastGameState
      BY <1>7 DEF Reevaluate, QueueBroadcast, BroadcastGameState, Running
    <2>4. ~Running("reevaluate_state")'
      BY <2>3
    <2>5. CASE FewerThanTwo(Admitted) /\ EndGame
      <3>1. PICK lost \in SUBSET (Registered \cap lagging) :
               Queue([i \in Registered |-> Verdict(i)], lost)
        BY <2>5 DEF EndGame
      <3>2. lost = {}
        BY <2>1, <3>1
      <3>3. Admitted' = Admitted /\ lagging' = {} /\ phase' = "GAME_OVER"
        BY <2>1, <2>5, <3>1, <3>2 DEF Queue, Admitted, EndGame
      <3> QED BY <2>4, <2>5, <3>3 DEF ClosingAgrees
    <2>6. CASE ~FewerThanTwo(Admitted) /\ StartActiveRound
      <3>1. Admitted' = Admitted /\ lagging' = {} /\ phase' = "ROUND_ACTIVE"
        BY <2>1, <2>6 DEF StartActiveRound, StartRound, Admitted
      <3> QED BY <2>4, <2>6, <3>1 DEF ClosingAgrees
    <2> QED BY <1>5, <2>2, <2>3, <2>5, <2>6 DEF SettleSetup
  <1>8. ~CloseLobbyTail
    BY DEF CloseLobbyTail
  <1> QED BY <1>1, <1>4, <1>6, <1>7, <1>8, ClosingExcludes DEF Step

LEMMA StepLags ==
  ASSUME FewerThanTwo(MayLag), TypeOK, IInv, StartInv, ChaseLast, LagInv, Step
  PROVE  LagInv'
  <1>1. lagging' \subseteq MayLag
    BY LagStays DEF LagInv
  <1>2. StackOK /\ todo # <<>>
    BY StepReturns
  <1>3. CASE ~Closes'
    <2>1. ~Closing'
      BY <1>3 DEF Closes, Closing, CloseFns
    <2> QED BY <1>1, <1>3, <2>1 DEF LagInv, ReevaluateFirst, ClosingAgrees
  <1>4. CASE Closes'
    <2>1. Closes /\ ~Chase
      BY <1>4, ClosesBefore
    <2>2. PICK calls \in Seq(Calls) :
             /\ Return(calls) /\ LaterFree(calls)
             /\ Len(calls) > 0 /\ calls[1].fn = "reevaluate_state" =>
                   (QueueBroadcast \/ BroadcastGameState) /\ lagging' # lagging
      BY <2>1, ClosingCalls
    <2>3. LaterFree(todo)
      BY <2>1 DEF LagInv, ReevaluateFirst
    <2>4. /\ LaterFree(todo')
          /\ (todo' # <<>> /\ Head(todo').fn = "reevaluate_state") =>
                 Len(calls) > 0 /\ calls[1].fn = "reevaluate_state"
      BY <1>2, <2>2, <2>3, ReturnLater
    <2>5. Running("reevaluate_state")' =>
             (QueueBroadcast \/ BroadcastGameState) /\ lagging' # lagging
      BY <2>2, <2>4 DEF Running
    <2>6. CASE CloseLobby
      <3>1. ~Running("reevaluate_state")'
        BY <2>5, <2>6 DEF CloseLobby, QueueBroadcast, BroadcastGameState, Running
      <3>2. CASE phase' = "SETUP"
        BY <1>1, <2>4, <3>1, <3>2 DEF LagInv, ReevaluateFirst, ClosingAgrees
      <3>3. CASE Return(<<>>) /\ UNCHANGED <<players, match>>
        <4>1. Frames(todo') \subseteq Frames(todo)
          BY <1>2, <3>3, ReturnFrames, ChaselessEmpty, FramesOfEmpty DEF StackOK
        <4>2. Closing' => Closing
          BY <4>1 DEF Closing
        <4>3. Admitted' = Admitted /\ lagging' = lagging /\ phase' = phase
          BY <3>3 DEF players, match, Admitted
        <4> QED BY <1>1, <2>4, <3>1, <4>2, <4>3 DEF LagInv, ReevaluateFirst, ClosingAgrees
      <3> QED BY <2>6, <3>2, <3>3 DEF CloseLobby
    <2>7. CASE ~CloseLobby /\ Closing'
      <3>1. Closing /\ ~Running("close_lobby_if_needed.tail")
        BY <2>7, ClosesBefore
      <3>2. ClosingAgrees'
        BY <2>1, <2>5, <2>7, <3>1, ClosingStep
      <3> QED BY <1>1, <2>4, <3>2 DEF LagInv, ReevaluateFirst
    <2>8. CASE ~Closing'
      BY <1>1, <2>4, <2>8 DEF LagInv, ReevaluateFirst, ClosingAgrees
    <2> QED BY <2>6, <2>7, <2>8
  <1> QED BY <1>3, <1>4

(* The idle server closes no lobby but by its timers. *)
LEMMA CommandLags ==
  ASSUME TypeOK, LagInv, NEW i \in Slots,
         Accept(i) \/ Command(i) \/ Leave(i) \/ FallBehind(i) \/ CatchUp(i)
  PROVE  LagInv'
  <1>1. Idle /\ ~Closes
    BY FramesOfEmpty DEF Closes, Idle, Accept, Command, Hello, Choose, Spawn, GetState,
           Rematch, Leave, FallBehind, CatchUp
  <1>2. ASSUME lagging' \subseteq MayLag, ~Closes' PROVE LagInv'
    BY <1>2 DEF LagInv, ReevaluateFirst, ClosingAgrees, Closes, Closing, CloseFns
  <1>3. todo' = todo => ~Closes'
    BY <1>1 DEF Closes
  <1>4. CASE Accept(i) \/ Hello(i) \/ FallBehind(i) \/ CatchUp(i) \/ Rematch(i)
    BY <1>2, <1>3, <1>4
       DEF Accept, Hello, FallBehind, CatchUp, Rematch, LagInv
  <1>5. CASE (\E c \in Picks : Choose(i, c)) \/ Spawn(i)
    <2>1. todo' = <<CallOn("maybe_admit_player", i)>> /\ UNCHANGED lagging
      BY <1>5 DEF Choose, Spawn
    <2>2. ~Closes'
      BY <2>1, FramesOfOne DEF CallOn, CloseFns, Closes
    <2> QED BY <1>2, <2>1, <2>2 DEF LagInv
  <1>6. ASSUME \A c \in Frames(todo') : c.fn \notin TimerFns \cup AdmitFns PROVE ~Closes'
    BY <1>6 DEF Closes, CloseFns, TimerFns
  <1>7. CASE GetState(i)
    <2>1. lagging' \subseteq lagging
      BY <1>7 DEF GetState, Queue
    <2>2. \A c \in Frames(todo') : c.fn \notin TimerFns \cup AdmitFns
      BY <1>7, AfterPlain DEF GetState
    <2> QED BY <1>2, <1>6, <2>1, <2>2 DEF LagInv
  <1>8. CASE Leave(i)
    <2> DEFINE last == <<Call("reevaluate_state")>>
    <2>1. todo' = Farewell(i) \o last /\ lagging' \subseteq lagging
      BY <1>8 DEF Leave, DropLoudly, Queue
    <2>2. Frames(todo') = Frames(Farewell(i)) \cup Frames(last)
      <3>1. Farewell(i) \in Seq(Calls) /\ last \in Seq(Calls)
        BY ChaselessFarewell, ChaselessReevaluate
      <3> HIDE DEF last
      <3> QED BY <2>1, <3>1, CallFrames
    <2>3. \A c \in Frames(todo') : c.fn \notin TimerFns \cup AdmitFns
      BY <2>2, FarewellPlain, FramesOfOne, Unmarked DEF Call
    <2> QED BY <1>2, <1>6, <2>1, <2>3 DEF LagInv
  <1> QED BY <1>4, <1>5, <1>7, <1>8 DEF Command

LEMMA LagStep ==
  ASSUME FewerThanTwo(MayLag)
  PROVE  TypeOK /\ IInv /\ StartInv /\ ChaseLast /\ LagInv /\ [Next]_vars => LagInv'
  <1> SUFFICES ASSUME TypeOK, IInv, StartInv, ChaseLast, LagInv, [Next]_vars PROVE LagInv'
    OBVIOUS
  <1>1. CASE Step
    BY <1>1, StepLags
  <1>2. CASE Timers
    <2> DEFINE calls == <<Call("close_lobby_if_needed"),
                          Call("expire_unready_setup_players"), Call("chase")>>
    <2>1. todo' = calls /\ lagging' = lagging
      BY <1>2 DEF Timers, players
    <2>2. Frames(calls) = {Call("close_lobby_if_needed"),
                           Call("expire_unready_setup_players"), Call("chase")}
      BY FramesOfThree
    <2>3. \A c \in Frames(calls) : /\ c.fn # "close_lobby_if_needed.tail"
                                   /\ c.fn # "reevaluate_state"
      BY <2>2 DEF Call
    <2>4. \A k \in 1 .. Len(calls) : calls[k] \in Frames(calls)
      BY DEF Frames
    <2>5. Len(calls) = 3
      OBVIOUS
    <2> HIDE DEF calls
    <2>6. LaterFree(calls)
      BY <2>3, <2>4, <2>5 DEF LaterFree
    <2> QED BY <2>1, <2>3, <2>6 DEF LagInv, ReevaluateFirst, ClosingAgrees, Closing
  <1>3. CASE JoinWindowEnds \/ SetupWindowEnds
    <2>1. todo' = todo /\ todo = <<>> /\ lagging' = lagging
      BY <1>3 DEF JoinWindowEnds, SetupWindowEnds, Idle, players
    <2>2. ~Closes' /\ ~Closing'
      BY <2>1, FramesOfEmpty DEF Closes, Closing
    <2> QED BY <2>1, <2>2 DEF LagInv, ReevaluateFirst, ClosingAgrees
  <1>4. ASSUME NEW i \in Slots,
               Accept(i) \/ Command(i) \/ Leave(i) \/ FallBehind(i) \/ CatchUp(i)
        PROVE  LagInv'
    BY <1>4, CommandLags
  <1>5. CASE UNCHANGED vars
    <2>1. UNCHANGED <<players, match, todo>>
      BY <1>5 DEF vars
    <2>2. Admitted' = Admitted /\ lagging' = lagging /\ phase' = phase
      BY <2>1 DEF players, match, Admitted
    <2> QED BY <2>1, <2>2 DEF LagInv, ReevaluateFirst, ClosingAgrees, Closes, Closing,
                              Running, LaterFree
  <1> QED BY <1>1, <1>2, <1>3, <1>4, <1>5 DEF Next

LEMMA LagInit == Init => LagInv
  <1> SUFFICES ASSUME Init PROVE LagInv
    OBVIOUS
  <1>1. ~Closes /\ ~Closing
    BY FramesOfEmpty DEF Init, Closes, Closing
  <1> QED BY <1>1 DEF Init, LagInv, ReevaluateFirst, ClosingAgrees

LEMMA LagInvariant ==
  ASSUME FewerThanTwo(MayLag)
  PROVE  Spec => [](TypeOK /\ IInv /\ StartInv /\ ChaseLast /\ LagInv)
  <1>1. OwedInv /\ ChaseLast => ChaseLast
    OBVIOUS
  <1> QED BY <1>1, LagInit, LagStep, StartInit, StartStep, OwedInvariant, TypeCorrect,
             Invariant, PTL DEF Spec

-----------------------------------------------------------------------------
(* The steps of Match that the steps of MatchServer are, under the mapping of
   Abstract: MatchStage, Winners, Fallen and Pick are what it maps the state to. *)

MatchStage == CASE phase \in {"LOBBY_OPEN", "SETUP"} -> "lobby"
                [] phase = "ROUND_ACTIVE" -> "playing"
                [] phase = "GAME_OVER" -> "over"

Pick == [i \in Slots |-> IF i \in Admitted THEN choice[i] ELSE NoChoice]

Forgotten(lost) == [i \in Slots |-> IF i \in lost THEN NoChoice ELSE Pick[i]]

Stutter == UNCHANGED <<MatchStage, Winners, Admitted, Pick>>

LEMMA StageOfPhase ==
  /\ phase \in {"LOBBY_OPEN", "SETUP"} => MatchStage = "lobby"
  /\ phase = "ROUND_ACTIVE" => MatchStage = "playing"
  /\ phase = "GAME_OVER" => MatchStage = "over"
  BY DEF MatchStage

LEMMA StageNext ==
  /\ phase' \in {"LOBBY_OPEN", "SETUP"} => MatchStage' = "lobby"
  /\ phase' = "ROUND_ACTIVE" => MatchStage' = "playing"
  /\ phase' = "GAME_OVER" => MatchStage' = "over"
  BY DEF MatchStage

LEMMA StutterMaps == Stutter => UNCHANGED Abstract!vars
  <1> SUFFICES ASSUME Stutter PROVE UNCHANGED Abstract!vars
    OBVIOUS
  <1>1. MatchStage' = MatchStage /\ Winners' = Winners /\ Admitted' = Admitted /\ Pick' = Pick
    BY DEF Stutter
  <1>2. (Admitted \ Winners)' = Admitted \ Winners
    BY <1>1
  <1> QED BY <1>1, <1>2 DEF Abstract!vars, MatchStage, Winners, Pick

(* Rps is one module, and the mapping leaves it as it is. *)
LEMMA SameRps ==
  /\ Abstract!NoChoice = NoChoice /\ Abstract!Choice = Choice
  /\ \A a, b : Abstract!CanEat(a, b) <=> CanEat(a, b)
  /\ \A S, f : Abstract!AtMostOneType(S, f) <=> AtMostOneType(S, f)
  BY DEF Abstract!NoChoice, NoChoice, Abstract!Choice, Choice, Abstract!CanEat, CanEat,
         Abstract!AtMostOneType, AtMostOneType

LEMMA ForgetMaps ==
  ASSUME NEW lost, Pick' = Forgotten(lost) PROVE Abstract!Forget(lost)
  BY SameRps DEF Abstract!Forget, Pick, Forgotten

LEMMA LeaveMaps ==
  ASSUME NEW lost \in SUBSET Slots, MatchStage' = MatchStage, Winners' = Winners \ lost,
         Admitted' = Admitted \ lost, Pick' = Forgotten(lost)
  PROVE  Abstract!Next
  <1>1. (Admitted \ Winners)' = (Admitted \ Winners) \ lost
    OBVIOUS
  <1>2. Abstract!Forget(lost)
    BY ForgetMaps
  <1>3. Abstract!Leave(lost)
    BY <1>1, <1>2 DEF Abstract!Leave, MatchStage, Winners
  <1> QED BY <1>3 DEF Abstract!Next

LEMMA FinishMaps ==
  ASSUME NEW lost \in SUBSET Slots, MatchStage' = "over", Winners' = Winners \ lost,
         Admitted' = Admitted \ lost, Pick' = Forgotten(lost),
         \/ MatchStage = "playing" /\ AtMostOneType(Winners, Pick)
         \/ MatchStage = "lobby" /\ FewerThanTwo(Winners)
  PROVE  Abstract!Next
  <1>1. (Admitted \ Winners)' = (Admitted \ Winners) \ lost
    OBVIOUS
  <1>2. Abstract!Forget(lost)
    BY ForgetMaps
  <1>3. FewerThanTwo(Winners) => Abstract!Lonely(Winners)
    BY DEF FewerThanTwo, Abstract!Lonely
  <1>4. AtMostOneType(Winners, Pick) => Abstract!AtMostOneType(Winners, Pick)
    BY SameRps
  <1>5. Abstract!Finish(lost)
    BY <1>1, <1>2, <1>3, <1>4 DEF Abstract!Finish, MatchStage, Winners, Pick
  <1> QED BY <1>5 DEF Abstract!Next

LEMMA BeginMaps ==
  ASSUME MatchStage = "lobby", MatchStage' = "playing", ~FewerThanTwo(Winners),
         UNCHANGED <<Winners, Admitted, Pick>>
  PROVE  Abstract!Next
  <1>1. /\ (Admitted \ Winners)' = Admitted \ Winners
        /\ Winners' = Winners /\ Pick' = Pick
    OBVIOUS
  <1>2. ~Abstract!Lonely(Winners)
    BY DEF FewerThanTwo, Abstract!Lonely
  <1>3. Abstract!Begin
    BY <1>1, <1>2 DEF Abstract!Begin, MatchStage, Winners, Pick
  <1> QED BY <1>3 DEF Abstract!Next

LEMMA EnterMaps ==
  ASSUME NEW i \in Slots, NEW c \in Choice, MatchStage = "lobby", MatchStage' = "lobby",
         i \notin Admitted, Admitted' = Admitted \cup {i}, Winners' = Winners \cup {i},
         Pick' = [Pick EXCEPT ![i] = c]
  PROVE  Abstract!Next
  <1>1. (Admitted \ Winners)' = Admitted \ Winners
    OBVIOUS
  <1>2. i \notin Winners
    BY DEF Winners, WonMatch
  <1>3. c \in Abstract!Choice
    BY SameRps
  <1>4. Abstract!Enter(i)
    BY <1>1, <1>2, <1>3 DEF Abstract!Enter, MatchStage, Winners, Pick
  <1> QED BY <1>4 DEF Abstract!Next

LEMMA EliminateMaps ==
  ASSUME NEW S \in SUBSET Slots, MatchStage = "playing", MatchStage' = "playing",
         S \subseteq Winners, S # Winners, Winners' = Winners \ S, Admitted' = Admitted,
         Pick' = Pick, \A i \in S : \E j \in Winners : CanEat(Pick[j], Pick[i])
  PROVE  Abstract!Next
  <1>1. (Admitted \ Winners)' = (Admitted \ Winners) \cup S
    BY DEF Winners, WonMatch
  <1>2. \A i \in S : \E j \in Winners : Abstract!CanEat(Pick[j], Pick[i])
    BY SameRps
  <1>3. Abstract!Eliminate(S)
    BY <1>1, <1>2 DEF Abstract!Eliminate, MatchStage, Winners, Pick
  <1> QED BY <1>3 DEF Abstract!Next

LEMMA ResetMaps ==
  ASSUME MatchStage = "over", MatchStage' = "lobby", Winners' = {}, Admitted' = {},
         Pick' = [i \in Slots |-> NoChoice]
  PROVE  Abstract!Next
  <1>1. (Admitted \ Winners)' = {}
    OBVIOUS
  <1>2. Abstract!Reset
    BY <1>1, SameRps DEF Abstract!Reset, MatchStage, Winners, Pick
  <1> QED BY <1>2 DEF Abstract!Next

-----------------------------------------------------------------------------
(* What the steps of the server are. *)

(* Lines that drop players while the phase stays, or change nothing of it. *)
LEMMA QueueMapped ==
  ASSUME TypeOK, NEW said, NEW lost \in SUBSET Slots, Queue(said, lost)
  PROVE  Winners' = Winners \ lost /\ Admitted' = Admitted \ lost /\ Pick' = Forgotten(lost)
  <1>1. Admitted' = Admitted \ lost
    BY DEF Queue, Admitted
  <1>2. Winners' = Winners \ lost
    BY <1>1 DEF Winners, WonMatch, Queue
  <1>3. Pick' = Forgotten(lost)
    BY <1>1 DEF Pick, Forgotten, Queue
  <1> QED BY <1>1, <1>2, <1>3

LEMMA DropMaps ==
  ASSUME TypeOK, NEW said, NEW lost \in SUBSET Slots, Queue(said, lost), phase' = phase
  PROVE  Abstract!Next
  <1>1. MatchStage' = MatchStage
    BY DEF MatchStage
  <1> QED BY <1>1, QueueMapped, LeaveMaps

LEMMA QuietStutters ==
  ASSUME UNCHANGED <<connected, registered, admitted, alive, waiting, choice>>,
         MatchStage' = MatchStage
  PROVE  Stutter
  BY DEF Stutter, Winners, WonMatch, Admitted, Pick

LEMMA UnchangedStutters ==
  ASSUME UNCHANGED players, phase' = phase PROVE Stutter
  <1>1. MatchStage' = MatchStage
    BY DEF MatchStage
  <1> QED BY <1>1, QuietStutters DEF players

Maps == [Abstract!Next]_(Abstract!vars)

LEMMA StutterIsMapped == Stutter => Maps
  BY StutterMaps DEF Maps

LEMMA NextIsMapped == Abstract!Next => Maps
  BY DEF Maps

(* Who stands: in the lobby everybody, in the round those that are alive. *)
LEMMA WhoStands ==
  ASSUME TypeOK, IInv
  PROVE  /\ Winners \subseteq Admitted /\ Admitted \subseteq Slots
         /\ phase \in {"LOBBY_OPEN", "SETUP"} => Winners = Admitted
         /\ phase = "ROUND_ACTIVE" => Winners = Alive
         /\ \A i \in Admitted : Pick[i] = choice[i] /\ choice[i] \in Choice
  <1>1. Admitted \subseteq Slots
    BY DEF TypeOK, Admitted
  <1>2. Winners \subseteq Admitted
    BY DEF Winners, WonMatch
  <1>3. FlagsFollowPhase /\ AdmittedReady
    BY DEF IInv, FlagsOK
  <1>4. phase \in {"LOBBY_OPEN", "SETUP"} => Winners = Admitted
    BY <1>1, <1>3 DEF Winners, WonMatch, FlagsFollowPhase
  <1>5. phase = "ROUND_ACTIVE" => Winners = Alive
    BY <1>1, <1>3 DEF Winners, WonMatch, FlagsFollowPhase, Alive
  <1>6. \A i \in Admitted : Pick[i] = choice[i] /\ choice[i] \in Choice
    BY <1>1, <1>3 DEF Pick, AdmittedReady, Ready, TypeOK
  <1> QED BY <1>1, <1>2, <1>4, <1>5, <1>6

LEMMA EndGameMaps ==
  ASSUME TypeOK, IInv, EndGame,
         \/ phase \in {"LOBBY_OPEN", "SETUP"} /\ FewerThanTwo(Admitted)
         \/ phase = "ROUND_ACTIVE" /\ RoundDecided
         \/ phase = "GAME_OVER"
  PROVE  Maps
  <1>1. PICK lost \in SUBSET (Registered \cap lagging) :
           Queue([i \in Registered |-> Verdict(i)], lost)
    BY DEF EndGame
  <1>2. lost \in SUBSET Slots
    BY DEF TypeOK
  <1>3. /\ Winners' = Winners \ lost /\ Admitted' = Admitted \ lost
        /\ Pick' = Forgotten(lost)
    BY <1>1, <1>2, QueueMapped
  <1>4. MatchStage' = "over"
    BY StageNext DEF EndGame
  <1>5. CASE phase \in {"LOBBY_OPEN", "SETUP"} /\ FewerThanTwo(Admitted)
    <2>1. MatchStage = "lobby" /\ Winners = Admitted
      BY <1>5, StageOfPhase, WhoStands
    <2>2. FewerThanTwo(Winners)
      BY <1>5, <2>1
    <2> QED BY <1>2, <1>3, <1>4, <2>1, <2>2, FinishMaps, NextIsMapped
  <1>6. CASE phase = "ROUND_ACTIVE" /\ RoundDecided
    <2>1. MatchStage = "playing" /\ Winners = Alive
      BY <1>6, StageOfPhase, WhoStands
    <2>2. AtMostOneType(Winners, choice)
      BY <1>6, <2>1 DEF RoundDecided, FewerThanTwo, AtMostOneType
    <2>3. AtMostOneType(Winners, Pick)
      BY <2>2, WhoStands DEF AtMostOneType
    <2> QED BY <1>2, <1>3, <1>4, <2>1, <2>3, FinishMaps, NextIsMapped
  <1>7. CASE phase = "GAME_OVER"
    <2>1. MatchStage' = MatchStage
      BY <1>4, <1>7, StageOfPhase
    <2> QED BY <1>2, <1>3, <2>1, LeaveMaps, NextIsMapped
  <1> QED BY <1>5, <1>6, <1>7

LEMMA StartMaps ==
  ASSUME TypeOK, IInv, StartActiveRound, ~FewerThanTwo(Admitted),
         phase \in {"LOBBY_OPEN", "SETUP", "ROUND_ACTIVE"}
  PROVE  Maps
  <1>1. Admitted' = Admitted /\ Pick' = Pick
    BY DEF StartActiveRound, Admitted, Pick
  <1>2. Winners' = Winners
    BY DEF StartActiveRound, StartRound, Winners, WonMatch, Admitted
  <1>3. MatchStage' = "playing"
    BY StageNext DEF StartActiveRound, StartRound
  <1>4. CASE phase = "ROUND_ACTIVE"
    <2>1. Stutter
      BY <1>1, <1>2, <1>3, <1>4, StageOfPhase DEF Stutter
    <2> QED BY <2>1, StutterIsMapped
  <1>5. CASE phase \in {"LOBBY_OPEN", "SETUP"}
    <2>1. MatchStage = "lobby" /\ Winners = Admitted
      BY <1>5, StageOfPhase, WhoStands
    <2> QED BY <1>1, <1>2, <1>3, <2>1, BeginMaps, NextIsMapped
  <1> QED BY <1>4, <1>5

LEMMA SettlingMaps ==
  ASSUME TypeOK, IInv, phase = "SETUP", SettleSetup
  PROVE  Maps
  <1>1. CASE FewerThanTwo(Admitted)
    BY <1>1, EndGameMaps DEF SettleSetup
  <1>2. CASE ~FewerThanTwo(Admitted) /\ StartActiveRound
    BY <1>2, StartMaps
  <1>3. CASE UNCHANGED <<players, match>>
    BY <1>3, UnchangedStutters, StutterIsMapped DEF match
  <1> QED BY <1>1, <1>2, <1>3 DEF SettleSetup

LEMMA ReevaluateMaps ==
  ASSUME TypeOK, IInv, Reevaluate PROVE Maps
  <1>1. CASE UNCHANGED players /\ phase' = phase
    BY <1>1, UnchangedStutters, StutterIsMapped
  <1>2. CASE phase = "LOBBY_OPEN"
    BY <1>1, <1>2 DEF Reevaluate, ReevaluateLobby
  <1>3. CASE phase = "SETUP"
    BY <1>3, SettlingMaps DEF Reevaluate
  <1>4. CASE phase = "ROUND_ACTIVE"
    <2>1. ReevaluateRound
      BY <1>4 DEF Reevaluate
    <2> QED BY <1>1, <1>4, <2>1, EndGameMaps DEF ReevaluateRound, match
  <1>5. CASE phase = "GAME_OVER"
    BY <1>1, <1>5 DEF Reevaluate, match
  <1> QED BY <1>2, <1>3, <1>4, <1>5 DEF TypeOK, Phases

(* The tail agrees with whatever its broadcasts have led to. *)
LEMMA CloseLobbyTailMaps ==
  ASSUME TypeOK, IInv, LagInv, CloseLobbyTail PROVE Maps
  <1>1. StackOK
    BY TypeParts
  <1>2. Closing
    BY <1>1, RunningMarked, FramesOfStack DEF CloseLobbyTail, Closing, StackOK, Running
  <1>3. /\ phase = "ROUND_ACTIVE" => ~FewerThanTwo(Admitted)
        /\ phase = "GAME_OVER" => FewerThanTwo(Admitted)
        /\ phase \in Phases
    BY <1>2 DEF LagInv, ClosingAgrees, TypeOK
  <1>4. CASE FewerThanTwo(Admitted)
    BY <1>3, <1>4, EndGameMaps DEF CloseLobbyTail, Phases
  <1>5. CASE ~FewerThanTwo(Admitted) /\ StartActiveRound
    BY <1>3, <1>5, StartMaps DEF Phases
  <1>6. CASE UNCHANGED <<players, match>>
    BY <1>6, UnchangedStutters, StutterIsMapped DEF match
  <1> QED BY <1>4, <1>5, <1>6 DEF CloseLobbyTail

(* The admission's tail lets its player in, or marks a slot that is free. *)
LEMMA AdmitTailMaps ==
  ASSUME TypeOK, IInv, AdmitTail PROVE Maps
  <1> DEFINE i == Head(todo).slot
  <1>1. StackOK
    BY TypeParts
  <1>2. i \in Slots /\ Head(todo) \in Marked /\ Head(todo).fn = "maybe_admit_player.tail"
    BY <1>1, RunningMarked, RunningSlot DEF AdmitTail, AdmitFns, SlotProcedures
  <1>3. phase = "LOBBY_OPEN" /\ (i \in connected => i \in registered /\ Ready(i))
    BY <1>2 DEF IInv, TailAdmitsReady
  <1>4. UNCHANGED match
    BY DEF AdmitTail
  <1> HIDE DEF i
  <1>5. CASE Queue(Silence, {i})
    <2>1. {i} \in SUBSET Slots /\ phase' = phase
      BY <1>2, <1>4 DEF match
    <2> QED BY <1>5, <2>1, DropMaps, NextIsMapped
  <1>6. CASE /\ admitted' = admitted \cup {i} /\ waiting' = waiting \cup {i}
             /\ UNCHANGED <<connected, registered, alive, choice>>
    <2>1. MatchStage = "lobby" /\ MatchStage' = "lobby"
      BY <1>3, <1>4, StageOfPhase, StageNext DEF match
    <2>2. CASE i \in connected /\ i \notin Admitted
      <3>1. Admitted' = Admitted \cup {i}
        BY <1>3, <1>6, <2>2 DEF Admitted
      <3>2. Winners' = Winners \cup {i}
        BY <1>2, <1>6, <2>2, <3>1 DEF Winners, WonMatch
      <3>3. choice[i] \in Choice
        BY <1>2, <1>3, <2>2 DEF Ready, TypeOK
      <3>4. Pick' = [Pick EXCEPT ![i] = choice[i]]
        BY <1>2, <1>6, <3>1 DEF Pick
      <3> QED BY <1>2, <2>1, <2>2, <3>1, <3>2, <3>3, <3>4, EnterMaps, NextIsMapped
    <2>3. CASE i \in Admitted
      <3>1. i \in waiting /\ i \in admitted
        BY <1>3, <2>3 DEF IInv, FlagsOK, FlagsFollowPhase, Admitted
      <3>2. admitted' = admitted /\ waiting' = waiting
        BY <1>6, <3>1
      <3>3. Stutter
        BY <1>6, <2>1, <3>2, QuietStutters
      <3> QED BY <3>3, StutterIsMapped
    <2>4. CASE i \notin connected
      <3>1. Admitted' = Admitted /\ i \notin Admitted
        BY <1>6, <2>4 DEF Admitted
      <3>2. Winners' = Winners
        BY <1>6, <3>1 DEF Winners, WonMatch
      <3>3. Pick' = Pick
        BY <1>6, <3>1 DEF Pick
      <3>4. Stutter
        BY <2>1, <3>1, <3>2, <3>3 DEF Stutter
      <3> QED BY <3>4, StutterIsMapped
    <2> QED BY <2>2, <2>3, <2>4
  <1> QED BY <1>5, <1>6 DEF AdmitTail, i

(* Those that are captured have their hunters among the living, and not all are
   captured: the hunter with the highest slot is not. *)
LEMMA SomebodyIsLeft ==
  ASSUME TypeOK, NEW S \in SUBSET Alive, S # {}, Capturable(S)
  PROVE  S # Alive
  <1>1. PICK hunter \in [S -> Alive] :
           /\ \A p, q \in S : hunter[p] = hunter[q] => p = q
           /\ \A p \in S : /\ CanEat(choice[hunter[p]], choice[p])
                           /\ hunter[p] \in S => hunter[hunter[p]] > hunter[p]
    BY DEF Capturable
  <1>2. SUFFICES ASSUME S = Alive PROVE FALSE
    OBVIOUS
  <1>3. Alive \subseteq Slots
    BY DEF TypeOK, Alive, Admitted
  <1> DEFINE Above == {MaxPlayers - hunter[p] : p \in S}
  <1>4. Above \in SUBSET Nat /\ Above # {}
    <2>1. \A p \in S : hunter[p] \in 0 .. MaxPlayers - 1
      BY <1>2, <1>3 DEF Slots
    <2> QED BY <2>1, MatchServerAssumption
  <1>5. PICK m \in Above : \A x \in Above : m <= x
    <2> HIDE DEF Above
    <2> QED BY <1>4, LeastNatural
  <1>6. PICK p \in S : m = MaxPlayers - hunter[p]
    BY <1>5
  <1>7. hunter[p] \in S /\ hunter[hunter[p]] > hunter[p]
    BY <1>1, <1>2
  <1>8. MaxPlayers - hunter[hunter[p]] \in Above
    BY <1>7
  <1>9. hunter[p] \in Int /\ hunter[hunter[p]] \in Int /\ MaxPlayers \in Int
    <2>1. hunter[p] \in Slots /\ hunter[hunter[p]] \in Slots
      BY <1>3, <1>7
    <2> QED BY <2>1, MatchServerAssumption DEF Slots
  <1>10. MaxPlayers - hunter[p] <= MaxPlayers - hunter[hunter[p]]
    BY <1>5, <1>6, <1>8
  <1> QED BY <1>7, <1>9, <1>10

LEMMA ChaseMaps ==
  ASSUME TypeOK, IInv, Chase PROVE Maps
  <1>1. UNCHANGED <<connected, registered, admitted, waiting, choice>> /\ phase' = phase
    BY DEF Chase, match
  <1>2. MatchStage' = MatchStage
    BY <1>1 DEF MatchStage
  <1>3. CASE UNCHANGED alive
    BY <1>1, <1>2, <1>3, QuietStutters, StutterIsMapped
  <1>4. ASSUME phase = "ROUND_ACTIVE", NEW S \in SUBSET Alive, Capturable(S),
               alive' = alive \ S, S # {}
        PROVE  Maps
    <2>1. MatchStage = "playing" /\ Winners = Alive /\ S \in SUBSET Slots /\ Alive \subseteq Admitted
      BY <1>4, StageOfPhase, WhoStands DEF Alive
    <2>2. Admitted' = Admitted /\ Pick' = Pick
      BY <1>1 DEF Admitted, Pick
    <2>3. Winners' = Winners \ S
      <3>1. Admitted \cap waiting = {} /\ Admitted \subseteq Slots
        BY <1>4, WhoStands DEF IInv, FlagsOK, FlagsFollowPhase
      <3>2. \A i \in Slots : WonMatch(i)' <=> i \in Admitted /\ i \in alive /\ i \notin S
        BY <1>1, <1>4, <2>2, <3>1 DEF WonMatch
      <3> QED BY <2>1, <3>1, <3>2 DEF Winners, Alive
    <2>4. S # Winners
      BY <1>4, <2>1, SomebodyIsLeft
    <2>5. \A i \in S : \E j \in Winners : CanEat(Pick[j], Pick[i])
      <3>1. \A i \in S : \E j \in Alive : CanEat(choice[j], choice[i])
        BY <1>4 DEF Capturable
      <3> QED BY <2>1, <3>1, WhoStands
    <2> QED BY <1>2, <2>1, <2>2, <2>3, <2>4, <2>5, EliminateMaps, NextIsMapped
  <1>5. alive \ {} = alive
    OBVIOUS
  <1> QED BY <1>3, <1>4, <1>5 DEF Chase

LEMMA StepMaps ==
  ASSUME TypeOK, IInv, LagInv, Step PROVE Maps
  <1>1. ASSUME NEW said, NEW lost \in SUBSET lagging, Queue(said, lost), UNCHANGED match
        PROVE  Maps
    <2>1. lost \in SUBSET Slots /\ phase' = phase
      BY <1>1 DEF TypeOK, match
    <2> QED BY <1>1, <2>1, DropMaps, NextIsMapped
  <1>2. CASE UNCHANGED players /\ phase' = phase
    BY <1>2, UnchangedStutters, StutterIsMapped
  <1>3. CASE QueueBroadcast \/ BroadcastGameState
    BY <1>1, <1>3 DEF QueueBroadcast, BroadcastGameState
  <1>4. CASE BroadcastPositions \/ Expire
    BY <1>2, <1>4 DEF BroadcastPositions, Expire, match
  <1>5. CASE MaybeAdmit
    <2>1. \/ UNCHANGED players /\ phase' = phase
          \/ /\ UNCHANGED match
             /\ \E lost \in SUBSET lagging : Queue(Silence, lost)
      BY <1>5 DEF MaybeAdmit, match
    <2> QED BY <1>1, <1>2, <2>1
  <1>6. CASE CloseLobby
    <2>1. CASE LobbyExpired /\ phase' = "SETUP" /\ UNCHANGED players
      <3>1. MatchStage' = MatchStage
        BY <2>1, StageOfPhase, StageNext DEF LobbyExpired
      <3> QED BY <2>1, <3>1, QuietStutters, StutterIsMapped DEF players
    <2> QED BY <1>2, <1>6, <2>1 DEF CloseLobby, match
  <1>7. ~ExpireSlot /\ ~ExpireTail
    <2>1. StackOK
      BY TypeParts
    <2> QED BY <2>1, RunningMarked DEF ExpireSlot, ExpireTail, TimerFns, IInv, NeverExpires
  <1> QED BY <1>3, <1>4, <1>5, <1>6, <1>7, ReevaluateMaps, AdmitTailMaps,
             CloseLobbyTailMaps, ChaseMaps DEF Step

LEMMA CommandMaps ==
  ASSUME TypeOK, IInv, NEW i \in Slots,
         Accept(i) \/ Command(i) \/ Leave(i) \/ FallBehind(i) \/ CatchUp(i)
  PROVE  Maps
  <1>1. ASSUME NEW said, NEW lost \in SUBSET Slots, Queue(said, lost), UNCHANGED match
        PROVE  Maps
    <2>1. phase' = phase
      BY <1>1 DEF match
    <2> QED BY <1>1, <2>1, DropMaps, NextIsMapped
  <1>2. CASE Spawn(i) \/ FallBehind(i) \/ CatchUp(i)
    <2>1. UNCHANGED <<connected, registered, admitted, alive, waiting, choice, phase>>
      BY <1>2 DEF Spawn, FallBehind, CatchUp, match
    <2>2. MatchStage' = MatchStage
      BY <2>1 DEF MatchStage
    <2> QED BY <2>1, <2>2, QuietStutters, StutterIsMapped
  <1>3. CASE Accept(i) \/ Hello(i) \/ (\E c \in Picks : Choose(i, c))
    <2>1. i \notin Admitted /\ phase' = phase
      BY <1>3 DEF Accept, Hello, Choose, MaySetUp, Registered, Admitted, match, TypeOK
    <2>2. Admitted' = Admitted
      BY <1>3 DEF Accept, Hello, Choose, ResetProgress, Admitted
    <2>3. /\ \A j \in Slots \ {i} : choice'[j] = choice[j]
          /\ \A j \in Slots \ {i} : (j \in alive' <=> j \in alive)
                                    /\ (j \in waiting' <=> j \in waiting)
      BY <1>3 DEF Accept, Hello, Choose, ResetProgress, TypeOK
    <2>4. Winners' = Winners
      BY <2>1, <2>2, <2>3 DEF Winners, WonMatch
    <2>5. Pick' = Pick
      BY <2>1, <2>2, <2>3 DEF Pick
    <2>6. MatchStage' = MatchStage
      BY <2>1 DEF MatchStage
    <2> QED BY <2>2, <2>4, <2>5, <2>6, StutterIsMapped DEF Stutter
  <1>4. CASE GetState(i)
    <2>1. PICK lost \in SUBSET ({i} \cap lagging) : Queue([j \in {i} |-> StateLine(j)], lost)
      BY <1>4 DEF GetState
    <2>2. lost \in SUBSET Slots /\ UNCHANGED match
      BY <1>4 DEF GetState
    <2> QED BY <1>1, <2>1, <2>2
  <1>5. CASE Leave(i)
    <2>1. {i} \in SUBSET Slots /\ UNCHANGED match /\ Queue(Silence, {i})
      BY <1>5 DEF Leave, DropLoudly
    <2> QED BY <1>1, <2>1
  <1>6. CASE Rematch(i)
    <2>1. MatchStage = "over" /\ MatchStage' = "lobby"
      BY <1>6, StageOfPhase, StageNext DEF Rematch, FreshMatch
    <2>2. Admitted' = {}
      BY <1>6 DEF Rematch, ResetProgress, ResetSlots, Registered, Admitted
    <2>3. Winners' = {} /\ Pick' = [j \in Slots |-> NoChoice]
      BY <2>2 DEF Winners, WonMatch, Pick
    <2> QED BY <2>1, <2>2, <2>3, ResetMaps, NextIsMapped
  <1> QED BY <1>2, <1>3, <1>4, <1>5, <1>6 DEF Command

LEMMA NextMaps == TypeOK /\ IInv /\ LagInv /\ [Next]_vars => Maps
  <1> SUFFICES ASSUME TypeOK, IInv, LagInv, [Next]_vars PROVE Maps
    OBVIOUS
  <1>1. CASE UNCHANGED <<players, phase>>
    BY <1>1, UnchangedStutters, StutterIsMapped
  <1>2. CASE Step
    BY <1>2, StepMaps
  <1>3. CASE Timers \/ JoinWindowEnds \/ SetupWindowEnds
    BY <1>1, <1>3 DEF Timers, JoinWindowEnds, SetupWindowEnds, match
  <1>4. ASSUME NEW i \in Slots,
               Accept(i) \/ Command(i) \/ Leave(i) \/ FallBehind(i) \/ CatchUp(i)
        PROVE  Maps
    BY <1>4, CommandMaps
  <1>5. CASE UNCHANGED vars
    BY <1>1, <1>5 DEF vars, match
  <1> QED BY <1>2, <1>3, <1>4, <1>5 DEF Next

LEMMA InitMaps == Init => Abstract!Init
  <1> SUFFICES ASSUME Init PROVE Abstract!Init
    OBVIOUS
  <1>1. MatchStage = "lobby" /\ Admitted = {}
    BY DEF Init, MatchStage, Admitted
  <1>2. Winners = {} /\ Admitted \ Winners = {} /\ Pick = [i \in Slots |-> NoChoice]
    BY <1>1 DEF Winners, WonMatch, Pick
  <1> QED BY <1>1, <1>2, SameRps DEF Abstract!Init, MatchStage, Winners, Pick

(* The server implements the match its players are promised: it is entered in
   the lobby only, begun by two or more, played by captures that leave somebody,
   and over when those that stand hold one choice; a match that is over is not
   played again before it is reset, though the tail of close_lobby_if_needed ends
   or starts it without looking.  With two clients behind the last part is false
   (run GameOverIsFinal). *)
THEOREM ServerIsMatch ==
  ASSUME FewerThanTwo(MayLag)
  PROVE  Spec => ImplementsMatch
  <1>1. TypeOK /\ IInv /\ LagInv /\ [Next]_vars => [Abstract!Next]_(Abstract!vars)
    BY NextMaps DEF Maps
  <1> QED BY <1>1, InitMaps, LagInvariant, PTL DEF Spec, ImplementsMatch, Abstract!Spec

-----------------------------------------------------------------------------
(* A match that is over, as long as no two clients fall behind. *)

LEMMA OverStays ==
  ASSUME TypeOK, IInv, StartInv, LagInv, phase = "GAME_OVER", [Next]_vars
  PROVE  phase' \in {"GAME_OVER", "LOBBY_OPEN"}
  <1>1. StackOK
    BY TypeParts
  <1>2. UNCHANGED match \/ EndGame => phase' = "GAME_OVER"
    BY DEF match, EndGame
  <1>3. CASE CloseLobbyTail
    <2>1. Closing
      BY <1>1, <1>3, RunningMarked, FramesOfStack DEF CloseLobbyTail, Closing, StackOK, Running
    <2>2. FewerThanTwo(Admitted)
      BY <2>1 DEF LagInv, ClosingAgrees
    <2> QED BY <1>2, <1>3, <2>2 DEF CloseLobbyTail
  <1>4. CASE Reevaluate
    <2>1. UNCHANGED match
      BY <1>4 DEF Reevaluate, match
    <2> QED BY <1>2, <2>1
  <1>5. CASE CloseLobby \/ MaybeAdmit
    BY <1>2, <1>5 DEF CloseLobby, LobbyExpired, MaybeAdmit, match
  <1>6. ~ExpireSlot /\ ~ExpireTail
    BY <1>1, RunningMarked DEF ExpireSlot, ExpireTail, TimerFns, IInv, NeverExpires
  <1>7. QueueBroadcast \/ BroadcastGameState \/ BroadcastPositions \/ AdmitTail \/ Expire \/ Chase
        => UNCHANGED match
    BY DEF QueueBroadcast, BroadcastGameState, BroadcastPositions, AdmitTail, Expire, Chase
  <1>8. Timers \/ UNCHANGED vars => UNCHANGED match
    BY DEF Timers, vars
  <1>9. JoinWindowEnds \/ SetupWindowEnds => phase' = "GAME_OVER"
    BY DEF JoinWindowEnds, SetupWindowEnds
  <1>10. ASSUME NEW i \in Slots,
                Accept(i) \/ Command(i) \/ Leave(i) \/ FallBehind(i) \/ CatchUp(i)
         PROVE  phase' \in {"GAME_OVER", "LOBBY_OPEN"}
    BY <1>10 DEF Accept, Command, Hello, Choose, Spawn, GetState, Rematch, FreshMatch,
                 Leave, FallBehind, CatchUp, match
  <1> QED BY <1>2, <1>3, <1>4, <1>5, <1>6, <1>7, <1>8, <1>9, <1>10 DEF Next, Step

(* A match that is over stays over until somebody asks for a rematch, unless the
   output buffers of two clients may fill: what the run game_over_final needs two
   for is what it takes (server_state.c:519-548). *)
THEOREM OverIsFinalIfOneIsSlow ==
  ASSUME FewerThanTwo(MayLag)
  PROVE  Spec => GameOverIsFinal
  <1>1. TypeOK /\ IInv /\ StartInv /\ LagInv /\ [Next]_vars =>
           [phase = "GAME_OVER" => phase' \in {"GAME_OVER", "LOBBY_OPEN"}]_vars
    BY OverStays
  <1> QED BY <1>1, LagInvariant, PTL DEF Spec, GameOverIsFinal

-----------------------------------------------------------------------------
(* While no output buffer fills, nobody is dropped by a broadcast, so that nothing
   comes between the pieces of an admission or of the closing of the lobby. *)

Entering == \E c \in Frames(todo) : c.fn = "maybe_admit_player.tail"

(* No reevaluation is due while an admission or a closing is in progress. *)
NotInterrupted ==
    (\E c \in Frames(todo) : c.fn \in AdmitFns \cup CloseFns) => ~Owed

ClosingInSetup == Closing => phase = "SETUP"

LobbyCountsDown ==
    phase = "LOBBY_OPEN" /\ (Admitted # {} \/ Entering) => join_deadline # "unset"

(* One match starts its round once, as test_runner.c:361 checks of a lobby whose
   closing drops nobody.  AtMostTwoStarts is what is left of that otherwise. *)
StartsOnce == round_no <= 1

Undisturbed == NotInterrupted /\ ClosingInSetup /\ LobbyCountsDown /\ StartsOnce

(* Which step makes which calls, when it drops nobody. *)
Placid(calls) ==
    \A c \in Frames(calls) :
        /\ c.fn = "reevaluate_state" => Chase
        /\ c.fn \in CloseFns => CloseLobby
        /\ c.fn \in AdmitFns => MaybeAdmit

LEMMA StepPlacid ==
  ASSUME TypeOK, IInv, lagging = {}, Step
  PROVE  \E calls \in Seq(Calls) : Return(calls) /\ Placid(calls)
  <1> DEFINE Returns == \E calls \in Seq(Calls) : Return(calls) /\ Placid(calls)
             Ordinary(c) == c \in Calls /\ c.fn \notin {"reevaluate_state"} \cup CloseFns \cup AdmitFns
  <1>1. StackOK
    BY TypeParts
  <1> SUFFICES Returns
    OBVIOUS
  <1>2. Return(<<>>) => Returns
    <2>1. <<>> \in Seq(Calls) /\ Placid(<<>>)
      BY FramesOfEmpty DEF Placid
    <2> QED BY <2>1
  <1>3. ASSUME NEW c, Ordinary(c), Return(<<c>>) PROVE Returns
    <2>1. <<c>> \in Seq(Calls) /\ Placid(<<c>>)
      BY <1>3, FramesOfOne DEF Placid
    <2> QED BY <1>3, <2>1
  <1>4. ASSUME NEW c, NEW d, Ordinary(c), Ordinary(d), Return(<<c, d>>) PROVE Returns
    <2>1. <<c, d>> \in Seq(Calls)
      BY <1>4
    <2>2. Placid(<<c, d>>)
      BY <1>4, FramesOfTwo DEF Placid
    <2> QED BY <1>4, <2>1, <2>2
  <1>5. /\ \A line \in Lines : Ordinary(Broadcast(line))
        /\ Ordinary(Call("broadcast_game_state"))
        /\ \A i \in 0 .. MaxPlayers : Ordinary(CallOn("broadcast_positions", i))
    <2>1. \A line \in Lines : Ordinary(Broadcast(line))
      BY CallTypes DEF Broadcast, CloseFns, AdmitFns
    <2>2. Ordinary(Call("broadcast_game_state"))
      BY CallTypes DEF Call, Procedures, CloseFns, AdmitFns
    <2>3. \A i \in 0 .. MaxPlayers : Ordinary(CallOn("broadcast_positions", i))
      BY CallTypes DEF CallOn, CloseFns, AdmitFns
    <2> QED BY <2>1, <2>2, <2>3
  <1> HIDE DEF Ordinary
  <1>6. ASSUME NEW lost \in SUBSET lagging, Return(After(lost)) PROVE Returns
    BY <1>2, <1>6 DEF After
  <1>7. 0 \in 0 .. MaxPlayers
    BY MatchServerAssumption
  <1>8. StartActiveRound => Returns
    <2>1. "ROUND_START" \in Lines
      BY DEF Lines
    <2> QED BY <1>4, <1>5, <1>7, <2>1 DEF StartActiveRound
  <1>9. SettleSetup \/ EndGame \/ ReevaluateLobby \/ ReevaluateRound => Returns
    BY <1>2, <1>8 DEF SettleSetup, EndGame, ReevaluateLobby, ReevaluateRound
  <1>10. CASE QueueBroadcast \/ BroadcastGameState
    BY <1>6, <1>10 DEF QueueBroadcast, BroadcastGameState
  <1>11. CASE BroadcastPositions
    <2>1. ASSUME NEW i \in Admitted,
                 Return(<<Broadcast("PLAYER"), CallOn("broadcast_positions", i + 1)>>)
          PROVE  Returns
      <3>1. i + 1 \in 0 .. MaxPlayers
        BY MatchServerAssumption DEF TypeOK, Admitted, Slots
      <3>2. "PLAYER" \in Lines
        BY DEF Lines
      <3> QED BY <1>4, <1>5, <2>1, <3>1, <3>2
    <2> QED BY <1>2, <1>11, <2>1 DEF BroadcastPositions
  <1>12. CASE Reevaluate
    <2>1. phase \in Phases
      BY DEF TypeOK
    <2> QED BY <1>2, <1>9, <1>12, <2>1 DEF Reevaluate, Phases
  <1>13. CASE MaybeAdmit
    <2> DEFINE tail == <<CallOn("maybe_admit_player.tail", Head(todo).slot)>>
               open == <<Broadcast("LOBBY_OPEN")>>
    <2>1. Head(todo).slot \in Slots
      BY <1>1, <1>13, RunningSlot DEF MaybeAdmit, SlotProcedures
    <2>2. tail \in Seq(Calls) /\ Placid(tail)
      <3>1. /\ CallOn("maybe_admit_player.tail", Head(todo).slot) \in Calls
            /\ CallOn("maybe_admit_player.tail", Head(todo).slot).fn = "maybe_admit_player.tail"
        BY <2>1, CallTypes DEF SlotProcedures, CallOn
      <3> QED BY <1>13, <3>1, FramesOfOne DEF Placid, CloseFns
    <2>3. open \in Seq(Calls) /\ Placid(open) /\ <<>> \in Seq(Calls) /\ Placid(<<>>)
      <3>1. Broadcast("LOBBY_OPEN") \in Calls /\ Broadcast("LOBBY_OPEN").fn = "queue_broadcast"
        BY CallTypes DEF Lines, Broadcast
      <3> QED BY <3>1, FramesOfOne, FramesOfEmpty DEF Placid, CloseFns, AdmitFns
    <2>4. \/ Return(<<>>) \/ \E lost \in SUBSET lagging : Return(After(lost))
          \/ Return(open \o tail) \/ Return(<<>> \o tail)
      BY <1>13 DEF MaybeAdmit
    <2> HIDE DEF open, tail
    <2>5. /\ open \o tail \in Seq(Calls) /\ Placid(open \o tail)
          /\ <<>> \o tail \in Seq(Calls) /\ Placid(<<>> \o tail)
      BY <2>2, <2>3, CallFrames DEF Placid
    <2> QED BY <1>2, <1>6, <2>4, <2>5
  <1>14. CASE AdmitTail
    <2>1. Return(<<Broadcast("JOINED"), Call("broadcast_game_state")>>)
      BY <1>14 DEF AdmitTail
    <2>2. "JOINED" \in Lines
      BY DEF Lines
    <2> QED BY <1>4, <1>5, <2>1, <2>2
  <1>15. CASE CloseLobby
    <2> DEFINE c1 == Broadcast("LOBBY_CLOSED")
               c2 == Broadcast("SETUP_OPEN")
               c3 == Call("close_lobby_if_needed.tail")
    <2>1. <<c1, c2, c3>> \in Seq(Calls)
      BY CallTypes DEF Lines, Procedures
    <2>2. Placid(<<c1, c2, c3>>)
      <3>1. \A c \in {c1, c2, c3} : c.fn # "reevaluate_state" /\ c.fn \notin AdmitFns
        BY DEF Broadcast, Call, AdmitFns
      <3> QED BY <1>15, <3>1, FramesOfThree DEF Placid
    <2>3. Return(<<>>) \/ Return(<<c1, c2, c3>>)
      BY <1>15 DEF CloseLobby
    <2> QED BY <1>2, <2>1, <2>2, <2>3
  <1>16. CASE CloseLobbyTail
    <2>1. "WAITING_FOR_OTHERS" \in Lines
      BY DEF Lines
    <2> QED BY <1>3, <1>5, <1>8, <1>9, <1>16, <2>1 DEF CloseLobbyTail
  <1>17. CASE Expire
    BY <1>2, <1>17 DEF Expire, IInv, NeverExpires, SetupExpired
  <1>18. ~ExpireSlot /\ ~ExpireTail
    BY <1>1, RunningMarked DEF ExpireSlot, ExpireTail, TimerFns, IInv, NeverExpires
  <1>19. CASE Chase
    <2> DEFINE first == <<CallOn("broadcast_positions", 0)>>
               last == <<Call("reevaluate_state")>>
    <2>1. first \in Seq(Calls) /\ Placid(first)
      <3>1. Ordinary(CallOn("broadcast_positions", 0))
        BY <1>5, <1>7
      <3> QED BY <3>1, FramesOfOne DEF Placid, Ordinary
    <2>2. last \in Seq(Calls) /\ Placid(last) /\ <<>> \in Seq(Calls) /\ Placid(<<>>)
      <3>1. Call("reevaluate_state") \in Calls /\ Call("reevaluate_state").fn = "reevaluate_state"
        BY CallTypes DEF Procedures, Call
      <3> QED BY <1>19, <3>1, FramesOfOne, FramesOfEmpty DEF Placid, CloseFns, AdmitFns
    <2>3. Return(<<>>) \/ Return(first \o <<>>) \/ Return(first \o last)
      BY <1>19 DEF Chase
    <2> HIDE DEF first, last
    <2>4. /\ first \o <<>> \in Seq(Calls) /\ Placid(first \o <<>>)
          /\ first \o last \in Seq(Calls) /\ Placid(first \o last)
      BY <2>1, <2>2, CallFrames DEF Placid
    <2> QED BY <1>2, <2>3, <2>4
  <1> QED BY <1>10, <1>11, <1>12, <1>13, <1>14, <1>15, <1>16, <1>17, <1>18, <1>19 DEF Step

(* What is on the stack after such a step. *)
LEMMA PlacidStack ==
  ASSUME TypeOK, IInv, StartInv, ChaseLast, NotInterrupted, lagging = {}, Step
  PROVE  /\ NotInterrupted'
         /\ Closing' => CloseLobby \/ (Closing /\ ~CloseLobbyTail)
         /\ Entering' => MaybeAdmit \/ (Entering /\ ~Reevaluate)
         /\ Reevaluate => ~Closing
  <1>1. PICK calls \in Seq(Calls) : Return(calls) /\ Placid(calls)
    BY StepPlacid
  <1>2. StackOK /\ todo # <<>>
    BY StepReturns
  <1>3. /\ Frames(todo') = Frames(calls) \cup Frames(Tail(todo))
        /\ Frames(todo) = {Head(todo)} \cup Frames(Tail(todo))
    BY <1>1, <1>2, ReturnFrames DEF StackOK
  <1>4. CASE Chase
    <2>1. Frames(todo) = {Head(todo)} /\ Head(todo).fn = "chase"
      BY <1>2, <1>4, ChaseAlone DEF Chase, Running
    <2>2. ~CloseLobby /\ ~MaybeAdmit /\ ~Reevaluate
      BY <1>4 DEF Chase, CloseLobby, MaybeAdmit, Reevaluate, Running
    <2>3. \A c \in Frames(todo') : c.fn \notin AdmitFns \cup CloseFns
      BY <1>1, <1>3, <2>1, <2>2 DEF Placid, AdmitFns, CloseFns
    <2> QED BY <2>2, <2>3 DEF NotInterrupted, Closing, Entering, AdmitFns, CloseFns
  <1>5. CASE ~Chase
    <2>1. CloseLobby \/ MaybeAdmit => Head(todo).fn \in AdmitFns \cup CloseFns
      BY DEF CloseLobby, MaybeAdmit, Running, AdmitFns, CloseFns
    <2>2. \A c \in Frames(todo') : c.fn \in AdmitFns \cup CloseFns =>
             \E d \in Frames(todo) : d.fn \in AdmitFns \cup CloseFns
      BY <1>1, <1>3, <2>1 DEF Placid
    <2>3. Owed' => Owed
      BY <1>1, <1>3, <1>5 DEF Placid, Owed
    <2>4. NotInterrupted'
      BY <2>2, <2>3 DEF NotInterrupted
    <2>5. Closing' => CloseLobby \/ (Closing /\ ~CloseLobbyTail)
      BY ClosesBefore DEF CloseLobbyTail
    <2>6. Reevaluate => Owed
      BY <1>3 DEF Reevaluate, Running, Owed
    <2>7. Closing \/ Entering => ~Owed
      BY DEF NotInterrupted, Closing, Entering, AdmitFns, CloseFns
    <2>8. Entering' /\ ~MaybeAdmit => Entering
      BY <1>1, <1>3 DEF Placid, Entering, AdmitFns
    <2> QED BY <2>4, <2>5, <2>6, <2>7, <2>8
  <1> QED BY <1>4, <1>5

LEMMA StepUndisturbed ==
  ASSUME TypeOK, IInv, StartInv, ChaseLast, Undisturbed, lagging = {}, Step
  PROVE  Undisturbed'
  <1>1. /\ NotInterrupted'
        /\ Closing' => CloseLobby \/ (Closing /\ ~CloseLobbyTail)
        /\ Entering' => MaybeAdmit \/ (Entering /\ ~Reevaluate)
        /\ Reevaluate => ~Closing
    BY PlacidStack DEF Undisturbed
  <1>2. StackOK
    BY TypeParts
  <1>3. ClosingInSetup /\ LobbyCountsDown /\ StartsOnce /\ round_no \in Nat
    BY DEF Undisturbed, TypeOK
  <1>4. Running("close_lobby_if_needed.tail") => Closing /\ phase = "SETUP" /\ round_no = 0
    <2>1. Running("close_lobby_if_needed.tail") => Closing
      BY <1>2, RunningMarked, FramesOfStack DEF Closing, StackOK, Running
    <2> QED BY <1>3, <2>1 DEF ClosingInSetup, StartInv, Starts
  <1>5. phase = "SETUP" => Closing
    BY DEF IInv, TailEndsSetup, Marked, Closing
  <1>6. ~ExpireSlot /\ ~ExpireTail
    BY <1>2, RunningMarked DEF ExpireSlot, ExpireTail, TimerFns, IInv, NeverExpires
  <1>7. ASSUME NEW said, NEW lost \in SUBSET lagging, Queue(said, lost)
        PROVE  Admitted' = Admitted
    <2>1. lost = {}
      BY <1>7
    <2> QED BY <1>7, <2>1 DEF Queue, Admitted
  <1>8. ASSUME ~CloseLobby, ~CloseLobbyTail, UNCHANGED <<phase, join_deadline, round_no>>,
               Entering' => Entering, Admitted' = Admitted
        PROVE  Undisturbed'
    BY <1>1, <1>3, <1>8 DEF Undisturbed, ClosingInSetup, LobbyCountsDown, StartsOnce
  <1>9. CASE QueueBroadcast \/ BroadcastGameState \/ BroadcastPositions \/ Expire \/ Chase
    <2>1. UNCHANGED match
      BY <1>9 DEF QueueBroadcast, BroadcastGameState, BroadcastPositions, Expire, Chase
    <2>2. Admitted' = Admitted
      <3>1. BroadcastPositions \/ Expire \/ Chase => Admitted' = Admitted
        BY DEF BroadcastPositions, Expire, Chase, players, Admitted
      <3> QED BY <1>7, <1>9, <3>1 DEF QueueBroadcast, BroadcastGameState
    <2>3. ~CloseLobby /\ ~CloseLobbyTail /\ ~MaybeAdmit
      BY <1>9 DEF QueueBroadcast, BroadcastGameState, BroadcastPositions, Expire, Chase,
                  CloseLobby, CloseLobbyTail, MaybeAdmit, Running
    <2> QED BY <1>1, <1>8, <2>1, <2>2, <2>3 DEF match
  <1>10. ASSUME phase' \in {"ROUND_ACTIVE", "GAME_OVER"}, ~CloseLobby,
                CloseLobbyTail \/ ~Closing, round_no' <= 1
         PROVE  Undisturbed'
    BY <1>1, <1>10 DEF Undisturbed, ClosingInSetup, LobbyCountsDown, StartsOnce
  <1>11. EndGame => phase' = "GAME_OVER" /\ round_no' = round_no
    BY DEF EndGame
  <1>12. CASE Reevaluate
    <2>1. ~Closing /\ phase # "SETUP" /\ ~CloseLobby /\ ~CloseLobbyTail /\ ~MaybeAdmit
      BY <1>1, <1>5, <1>12 DEF Reevaluate, CloseLobby, CloseLobbyTail, MaybeAdmit, Running
    <2>2. CASE ReevaluateLobby
      <3>1. UNCHANGED <<phase, round_no>> /\ Admitted' = Admitted
        BY <2>2 DEF ReevaluateLobby, players, Admitted
      <3>2. ~Entering' /\ ~Closing'
        BY <1>1, <1>12, <2>1
      <3>3. Admitted # {} => join_deadline' = join_deadline
        BY <2>2 DEF ReevaluateLobby
      <3> QED BY <1>1, <1>3, <3>1, <3>2, <3>3
              DEF Undisturbed, ClosingInSetup, LobbyCountsDown, StartsOnce
    <2>3. CASE EndGame
      BY <1>3, <1>10, <1>11, <2>1, <2>3 DEF StartsOnce
    <2>4. CASE UNCHANGED <<players, match>>
      <3>1. Admitted' = Admitted
        BY <2>4 DEF players, Admitted
      <3> QED BY <1>1, <1>8, <2>1, <2>4, <3>1 DEF match
    <2> QED BY <1>12, <2>1, <2>2, <2>3, <2>4 DEF Reevaluate, ReevaluateRound, TypeOK, Phases
  <1>13. CASE CloseLobbyTail
    <2>1. /\ ~CloseLobby /\ ~MaybeAdmit /\ phase = "SETUP" /\ round_no = 0
      BY <1>4, <1>13 DEF CloseLobbyTail, CloseLobby, MaybeAdmit, Running
    <2>2. CASE EndGame
      BY <1>10, <1>11, <1>13, <2>1, <2>2
    <2>3. CASE StartActiveRound
      <3>1. phase' = "ROUND_ACTIVE" /\ round_no' = 1
        BY <2>1, <2>3 DEF StartActiveRound, StartRound
      <3> QED BY <1>10, <1>13, <2>1, <3>1
    <2>4. CASE ~EndGame /\ ~StartActiveRound
      <3>1. ~FewerThanTwo(Admitted) /\ ~AllAdmittedReady
        BY <1>13, <2>4 DEF CloseLobbyTail
      <3> QED BY <3>1 DEF AllAdmittedReady, IInv, AdmittedReady
    <2> QED BY <2>2, <2>3, <2>4
  <1>14. CASE MaybeAdmit
    <2>1. ~CloseLobby /\ ~CloseLobbyTail
      BY <1>14 DEF MaybeAdmit, CloseLobby, CloseLobbyTail, Running
    <2>2. UNCHANGED <<phase, round_no>> /\ Admitted' = Admitted
      BY <1>7, <1>14 DEF MaybeAdmit, match, players, Admitted
    <2>3. CASE join_deadline' # "unset"
      BY <1>1, <1>3, <2>1, <2>2, <2>3
         DEF Undisturbed, ClosingInSetup, LobbyCountsDown, StartsOnce
    <2>4. CASE join_deadline' = "unset"
      <3>1. Return(<<>>) \/ \E lost \in SUBSET lagging : Return(After(lost))
        BY <1>14, <2>4 DEF MaybeAdmit
      <3>2. Return(<<>>)
        BY <3>1 DEF After
      <3>3. Frames(todo') \subseteq Frames(todo)
        BY <1>2, <1>14, <3>2, ReturnFrames, ChaselessEmpty, FramesOfEmpty
           DEF StackOK, MaybeAdmit, Running
      <3>4. Entering' => Entering
        BY <3>3 DEF Entering
      <3>5. UNCHANGED join_deadline
        BY <1>14, <2>4 DEF MaybeAdmit, match
      <3> QED BY <1>8, <2>1, <2>2, <3>4, <3>5
    <2> QED BY <2>3, <2>4
  <1>15. CASE AdmitTail
    <2>1. ~CloseLobby /\ ~CloseLobbyTail /\ ~MaybeAdmit /\ UNCHANGED match
      BY <1>15 DEF AdmitTail, CloseLobby, CloseLobbyTail, MaybeAdmit, Running
    <2>2. Entering
      BY <1>2, <1>15, FramesOfStack DEF AdmitTail, Running, StackOK, Entering
    <2> QED BY <1>1, <1>3, <2>1, <2>2
            DEF Undisturbed, ClosingInSetup, LobbyCountsDown, StartsOnce, match
  <1>16. CASE CloseLobby
    <2>1. /\ LobbyExpired => phase' = "SETUP" /\ UNCHANGED round_no
          /\ ~LobbyExpired => Return(<<>>) /\ UNCHANGED <<players, match>>
      BY <1>16 DEF CloseLobby
    <2>2. CASE phase' = "SETUP" /\ UNCHANGED round_no
      BY <1>1, <1>3, <2>2 DEF Undisturbed, ClosingInSetup, LobbyCountsDown, StartsOnce
    <2>3. CASE Return(<<>>) /\ UNCHANGED <<players, match>>
      <3>1. Frames(todo') \subseteq Frames(todo)
        BY <1>2, <1>16, <2>3, ReturnFrames, ChaselessEmpty, FramesOfEmpty
           DEF StackOK, CloseLobby, Running
      <3>2. (Entering' => Entering) /\ (Closing' => Closing)
        BY <3>1 DEF Entering, Closing
      <3>3. UNCHANGED <<phase, join_deadline, round_no>> /\ Admitted' = Admitted
        BY <2>3 DEF match, players, Admitted
      <3> QED BY <1>1, <1>3, <3>2, <3>3
              DEF Undisturbed, ClosingInSetup, LobbyCountsDown, StartsOnce
    <2> QED BY <2>1, <2>2, <2>3
  <1> QED BY <1>6, <1>9, <1>12, <1>13, <1>14, <1>15, <1>16 DEF Step

(* What an idle server is asked to do. *)
LEMMA RequestUndisturbed ==
  ASSUME Undisturbed,
         \A c \in Frames(todo') : c.fn \notin TimerFns \cup AdmitFns
                                   \/ (c.fn = "maybe_admit_player" /\ ~Owed'),
         \/ UNCHANGED <<phase, join_deadline, round_no>> /\ Admitted' \subseteq Admitted
         \/ Admitted' = {} /\ round_no' = 0
  PROVE  Undisturbed'
  <1>1. ~Closing' /\ ~Entering'
    BY DEF Closing, Entering, TimerFns, AdmitFns
  <1>2. NotInterrupted'
    BY DEF NotInterrupted, TimerFns, CloseFns
  <1> QED BY <1>1, <1>2 DEF Undisturbed, ClosingInSetup, LobbyCountsDown, StartsOnce

LEMMA CommandUndisturbed ==
  ASSUME TypeOK, Undisturbed, lagging = {}, NEW i \in Slots,
         Accept(i) \/ Command(i) \/ Leave(i) \/ FallBehind(i) \/ CatchUp(i)
  PROVE  Undisturbed'
  <1> DEFINE Plain == \A c \in Frames(todo') : c.fn \notin TimerFns \cup AdmitFns
  <1>1. todo = <<>>
    BY DEF Idle, Accept, Command, Hello, Choose, Spawn, GetState, Rematch, Leave, FallBehind,
           CatchUp
  <1>2. todo' = <<>> => Plain
    BY FramesOfEmpty
  <1>3. CASE Accept(i) \/ Hello(i) \/ FallBehind(i) \/ CatchUp(i)
    <2>1. todo' = <<>> /\ UNCHANGED match
      BY <1>1, <1>3 DEF Accept, Hello, FallBehind, CatchUp
    <2>2. Admitted' \subseteq Admitted
      BY <1>3 DEF Accept, Hello, FallBehind, CatchUp, ResetProgress, Admitted
    <2> QED BY <1>2, <2>1, <2>2, RequestUndisturbed DEF match
  <1>4. CASE (\E c \in Picks : Choose(i, c)) \/ Spawn(i)
    <2>1. todo' = <<CallOn("maybe_admit_player", i)>> /\ UNCHANGED match /\ Admitted' = Admitted
      BY <1>4 DEF Choose, Spawn, Admitted
    <2>2. \A c \in Frames(todo') : c.fn = "maybe_admit_player"
      BY <2>1, FramesOfOne DEF CallOn
    <2>3. ~Owed'
      BY <2>2 DEF Owed
    <2> QED BY <2>1, <2>2, <2>3, RequestUndisturbed DEF match
  <1>5. CASE GetState(i)
    <2>1. PICK lost \in SUBSET ({i} \cap lagging) :
             Queue([j \in {i} |-> StateLine(j)], lost) /\ todo' = After(lost)
      BY <1>5 DEF GetState
    <2>2. Admitted' \subseteq Admitted
      BY <2>1 DEF Queue, Admitted
    <2> QED BY <1>5, <2>1, <2>2, AfterPlain, RequestUndisturbed DEF GetState, match
  <1>6. CASE Rematch(i)
    <2>1. Admitted' = {} /\ round_no' = 0 /\ todo' = <<>>
      BY <1>1, <1>6 DEF Rematch, FreshMatch, ResetProgress, ResetSlots, Registered, Admitted
    <2> QED BY <1>2, <2>1, RequestUndisturbed
  <1>7. CASE Leave(i)
    <2> DEFINE last == <<Call("reevaluate_state")>>
    <2>1. todo' = Farewell(i) \o last /\ UNCHANGED match
      BY <1>7 DEF Leave
    <2>2. Frames(todo') = Frames(Farewell(i)) \cup Frames(last)
      <3>1. Farewell(i) \in Seq(Calls) /\ last \in Seq(Calls)
        BY ChaselessFarewell, ChaselessReevaluate
      <3> HIDE DEF last
      <3> QED BY <2>1, <3>1, CallFrames
    <2>3. Plain
      BY <2>2, FarewellPlain, FramesOfOne, Unmarked DEF Call
    <2>4. Admitted' \subseteq Admitted
      BY <1>7 DEF Leave, DropLoudly, Queue, Admitted
    <2> HIDE DEF Plain
    <2>5. \A c \in Frames(todo') : c.fn \notin TimerFns \cup AdmitFns
      BY <2>3 DEF Plain
    <2> QED BY <2>1, <2>4, <2>5, RequestUndisturbed DEF match
  <1> QED BY <1>3, <1>4, <1>5, <1>6, <1>7 DEF Command

LEMMA UndisturbedStep ==
  TypeOK /\ IInv /\ StartInv /\ ChaseLast /\ Undisturbed /\ lagging = {} /\ [Next]_vars
  => Undisturbed'
  <1> SUFFICES ASSUME TypeOK, IInv, StartInv, ChaseLast, Undisturbed, lagging = {}, [Next]_vars
               PROVE  Undisturbed'
    OBVIOUS
  <1>1. CASE Step
    BY <1>1, StepUndisturbed
  <1>2. CASE Timers
    <2> DEFINE calls == <<Call("close_lobby_if_needed"),
                          Call("expire_unready_setup_players"), Call("chase")>>
    <2>1. todo' = calls /\ UNCHANGED match /\ Admitted' = Admitted
      BY <1>2 DEF Timers, players, Admitted
    <2>2. Frames(calls) = {Call("close_lobby_if_needed"),
                           Call("expire_unready_setup_players"), Call("chase")}
      BY FramesOfThree
    <2>3. \A c \in Frames(todo') : /\ c.fn # "close_lobby_if_needed.tail"
                                   /\ c.fn # "maybe_admit_player.tail"
                                   /\ c.fn # "reevaluate_state"
      BY <2>1, <2>2 DEF Call
    <2> HIDE DEF calls
    <2>4. ~Closing' /\ ~Entering' /\ ~Owed'
      BY <2>3 DEF Closing, Entering, Owed
    <2> QED BY <2>1, <2>4 DEF Undisturbed, NotInterrupted, ClosingInSetup, LobbyCountsDown,
                             StartsOnce, match
  <1>3. CASE JoinWindowEnds \/ SetupWindowEnds
    <2>1. /\ todo' = todo /\ todo = <<>> /\ UNCHANGED <<phase, round_no>>
          /\ Admitted' = Admitted /\ (join_deadline' # "unset" \/ UNCHANGED join_deadline)
      BY <1>3 DEF JoinWindowEnds, SetupWindowEnds, Idle, players, Admitted
    <2>2. ~Closing' /\ ~Entering' /\ NotInterrupted'
      BY <2>1, FramesOfEmpty DEF Closing, Entering, NotInterrupted
    <2> QED BY <2>1, <2>2 DEF Undisturbed, ClosingInSetup, LobbyCountsDown, StartsOnce
  <1>4. ASSUME NEW i \in Slots,
               Accept(i) \/ Command(i) \/ Leave(i) \/ FallBehind(i) \/ CatchUp(i)
        PROVE  Undisturbed'
    BY <1>4, CommandUndisturbed
  <1>5. CASE UNCHANGED vars
    <2>1. UNCHANGED <<players, match, todo>>
      BY <1>5 DEF vars
    <2> QED BY <2>1 DEF players, match, Admitted, Undisturbed, NotInterrupted, ClosingInSetup,
                        LobbyCountsDown, StartsOnce, Closing, Entering, Owed
  <1> QED BY <1>1, <1>2, <1>3, <1>4, <1>5 DEF Next

LEMMA UndisturbedInit == Init => Undisturbed
  <1> SUFFICES ASSUME Init PROVE Undisturbed
    OBVIOUS
  <1>1. Frames(todo) = {} /\ Admitted = {}
    BY FramesOfEmpty DEF Init, Admitted
  <1> QED BY <1>1 DEF Init, Undisturbed, NotInterrupted, ClosingInSetup, LobbyCountsDown,
                      StartsOnce, Closing, Entering

LEMMA UndisturbedInvariant ==
  ASSUME MayLag = {}
  PROVE  Spec => []Undisturbed
  <1>1. FewerThanTwo(MayLag)
    BY DEF FewerThanTwo
  <1>2. LagInv => lagging = {}
    BY DEF LagInv
  <1>3. Spec => [](TypeOK /\ IInv /\ StartInv /\ ChaseLast /\ LagInv)
    BY <1>1, LagInvariant
  <1> QED BY <1>2, <1>3, UndisturbedInit, UndisturbedStep, PTL DEF Spec

(* A lobby with a player in it counts down, as test_runner.c:237 checks after one
   admission, unless some output buffer may fill: it takes the drop of a client in
   the middle of the admission to unset the deadline (server_state.c:333-356). *)
THEOREM JoinWindowRunsInTime ==
  ASSUME MayLag = {}
  PROVE  Spec => []JoinWindowRuns
  <1>1. Undisturbed => JoinWindowRuns
    BY DEF Undisturbed, LobbyCountsDown, JoinWindowRuns
  <1> QED BY <1>1, UndisturbedInvariant, PTL

(* One match starts its round once, unless some output buffer may fill: the second
   start that AtMostTwoStarts allows is that of a closing which the drop of a
   client has overtaken (server_state.c:114-119, 456-468, 519-548). *)
THEOREM StartsOnceInTime ==
  ASSUME MayLag = {}
  PROVE  Spec => []StartsOnce
  <1>1. Undisturbed => StartsOnce
    BY DEF Undisturbed
  <1> QED BY <1>1, UndisturbedInvariant, PTL
=============================================================================
