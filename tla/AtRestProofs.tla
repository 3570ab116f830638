---------------------------- MODULE AtRestProofs ----------------------------
(***************************************************************************)
(* Theorems on what MatchServer has settled when it comes to rest, with the *)
(* stack empty: a reevaluation that is owed is never lost among the nested  *)
(* calls, a match is started twice at most, and everybody in it has been    *)
(* told what it is at.                                                     *)
(***************************************************************************)
EXTENDS MatchServerProofs

(* Some reevaluation is still to be made. *)
Owed == \E c \in Frames(todo) : c.fn = "reevaluate_state"

(* A round without two rivals is going to be reevaluated. *)
RivalsOrOwed == phase = "ROUND_ACTIVE" /\ FewerThanTwo(Alive) => Owed

(* An empty lobby that counts down is going to be reevaluated, or the player
   that made it count down is being admitted. *)
CountdownOrOwed ==
    phase = "LOBBY_OPEN" /\ Admitted = {} /\ join_deadline # "unset" =>
        \/ Owed
        \/ \E c \in Marked : c.fn = "maybe_admit_player.tail" /\ c.slot \in connected

(* Nobody has been eliminated when the tail of close_lobby_if_needed starts the
   round, for the first or the second time: all that are admitted will play. *)
NobodyFallen ==
    \A c \in Marked : c.fn = "close_lobby_if_needed.tail" =>
        Admitted \subseteq alive \cup waiting

(* The tick comes after everything else that the timers call. *)
ChaseLast == \A k \in 1 .. Len(todo) : todo[k].fn = "chase" => k = Len(todo)

OwedInv == RivalsOrOwed /\ CountdownOrOwed /\ NobodyFallen

-----------------------------------------------------------------------------
(* The stack under one step. *)

Chaseless(q) == \A c \in Frames(q) : c.fn # "chase"

(* Two calls make one list, neither the tick. *)
LEMMA ChaselessConcat ==
  ASSUME NEW p \in Seq(Calls), NEW q \in Seq(Calls), Chaseless(p), Chaseless(q)
  PROVE  p \o q \in Seq(Calls) /\ Chaseless(p \o q)
  <1>1. Frames(p \o q) = Frames(p) \cup Frames(q)
    BY CallFrames
  <1> QED BY <1>1 DEF Chaseless

LEMMA ChaselessAfter ==
  ASSUME NEW lost PROVE After(lost) \in Seq(Calls) /\ Chaseless(After(lost))
  BY AfterType, FramesOfEmpty, FramesOfOne DEF After, Call, Chaseless

LEMMA ChaselessFarewell ==
  ASSUME NEW i PROVE Farewell(i) \in Seq(Calls) /\ Chaseless(Farewell(i))
  BY FarewellType, FramesOfEmpty, FramesOfTwo DEF Farewell, Broadcast, Call, Chaseless

LEMMA ChaselessEmpty == <<>> \in Seq(Calls) /\ Chaseless(<<>>)
  BY FramesOfEmpty DEF Chaseless

LEMMA ChaselessReevaluate ==
  <<Call("reevaluate_state")>> \in Seq(Calls) /\ Chaseless(<<Call("reevaluate_state")>>)
  BY CallTypes, FramesOfOne DEF Procedures, Chaseless, Call

(* A return that does not call the tick leaves the tick where it is, last. *)
LEMMA ReturnChaseLast ==
  ASSUME StackOK, todo # <<>>, NEW calls \in Seq(Calls), Return(calls), Chaseless(calls),
         ChaseLast
  PROVE  ChaseLast'
  <1>1. /\ Tail(todo) \in Seq(Calls) /\ Len(Tail(todo)) = Len(todo) - 1
        /\ \A k \in 1 .. Len(todo) - 1 : Tail(todo)[k] = todo[k + 1]
        /\ Len(todo) \in Nat \ {0} /\ Len(calls) \in Nat
    BY DEF StackOK
  <1>2. /\ Len(todo') = Len(calls) + Len(todo) - 1
        /\ \A k \in 1 .. Len(calls) + Len(todo) - 1 :
              todo'[k] = IF k <= Len(calls) THEN calls[k] ELSE Tail(todo)[k - Len(calls)]
    <2>1. todo' = calls \o Tail(todo)
      BY DEF Return
    <2> QED BY <1>1, <2>1
  <1>3. SUFFICES ASSUME NEW k \in 1 .. Len(todo'), todo'[k].fn = "chase"
                 PROVE  k = Len(todo')
    BY DEF ChaseLast
  <1>4. CASE k <= Len(calls)
    <2>1. todo'[k] \in Frames(calls)
      BY <1>1, <1>2, <1>4 DEF Frames
    <2> QED BY <1>3, <2>1 DEF Chaseless
  <1>5. CASE k > Len(calls)
    <2> DEFINE j == k - Len(calls)
    <2>1. j \in 1 .. Len(todo) - 1
      BY <1>1, <1>2, <1>5
    <2>2. todo'[k] = todo[j + 1] /\ j + 1 \in 1 .. Len(todo)
      BY <1>1, <1>2, <1>5, <2>1
    <2>3. j + 1 = Len(todo)
      BY <1>3, <2>2 DEF ChaseLast
    <2> QED BY <1>1, <1>2, <2>3
  <1> QED BY <1>1, <1>4, <1>5

(* When the tick runs, nothing is left below it. *)
LEMMA ChaseAlone ==
  ASSUME StackOK, Running("chase"), ChaseLast
  PROVE  Frames(todo) = {Head(todo)}
  <1>1. Len(todo) \in Nat \ {0} /\ Head(todo) = todo[1] /\ todo[1].fn = "chase"
    BY DEF StackOK, Running
  <1>2. 1 \in 1 .. Len(todo)
    BY <1>1
  <1>3. 1 = Len(todo)
    BY <1>1, <1>2 DEF ChaseLast
  <1>4. \A k \in 1 .. Len(todo) : k = 1
    <2>1. \A k \in 1 .. 1 : k = 1
      OBVIOUS
    <2> QED BY <1>3, <2>1
  <1> QED BY <1>1, <1>2, <1>4 DEF Frames

(* Every step returns from the running call to the others, and calls no tick. *)
LEMMA StepReturns ==
  ASSUME TypeOK, IInv, Step
  PROVE  /\ StackOK /\ todo # <<>>
         /\ \E calls \in Seq(Calls) : Return(calls) /\ Chaseless(calls)
  <1> DEFINE Returns == \E calls \in Seq(Calls) : Return(calls) /\ Chaseless(calls)
  <1>1. StackOK
    BY TypeParts
  <1>2. todo # <<>>
    BY DEF Step, QueueBroadcast, BroadcastGameState, BroadcastPositions, Reevaluate,
           MaybeAdmit, AdmitTail, CloseLobby, CloseLobbyTail, Expire, ExpireSlot,
           ExpireTail, Chase, Running
  <1> SUFFICES Returns
    BY <1>1, <1>2
  <1>3. Return(<<>>) => Returns
    BY ChaselessEmpty
  <1>4. ASSUME NEW lost, Return(After(lost)) PROVE Returns
    BY <1>4, ChaselessAfter
  <1>5. StartActiveRound => Returns
    <2> DEFINE calls == <<Broadcast("ROUND_START"), CallOn("broadcast_positions", 0)>>
    <2>1. calls \in Seq(Calls)
      BY CallTypes, MatchServerAssumption DEF Lines
    <2>2. Chaseless(calls)
      BY FramesOfTwo DEF Chaseless, Broadcast, CallOn
    <2> QED BY <2>1, <2>2 DEF StartActiveRound
  <1>6. SettleSetup => Returns
    BY <1>3, <1>5 DEF SettleSetup, EndGame
  <1>7. CASE QueueBroadcast \/ BroadcastGameState
    BY <1>4, <1>7 DEF QueueBroadcast, BroadcastGameState
  <1>8. CASE BroadcastPositions
    <2>1. ASSUME NEW i \in Admitted,
                 Return(<<Broadcast("PLAYER"), CallOn("broadcast_positions", i + 1)>>)
          PROVE  Returns
      <3> DEFINE calls == <<Broadcast("PLAYER"), CallOn("broadcast_positions", i + 1)>>
      <3>1. i + 1 \in 0 .. MaxPlayers
        BY MatchServerAssumption DEF TypeOK, Admitted, Slots
      <3>2. calls \in Seq(Calls)
        BY <3>1, CallTypes DEF Lines
      <3>3. Chaseless(calls)
        BY FramesOfTwo DEF Chaseless, Broadcast, CallOn
      <3> QED BY <2>1, <3>2, <3>3
    <2> QED BY <1>3, <1>8, <2>1 DEF BroadcastPositions
  <1>9. CASE Reevaluate
    BY <1>3, <1>6, <1>9 DEF Reevaluate, ReevaluateLobby, ReevaluateRound, EndGame, TypeOK,
                        Phases
  <1>10. CASE MaybeAdmit
    <2> DEFINE tail == CallOn("maybe_admit_player.tail", Head(todo).slot)
               open == <<Broadcast("LOBBY_OPEN")>>
    <2>1. <<tail>> \in Seq(Calls) /\ Chaseless(<<tail>>)
      <3>1. Head(todo).slot \in Slots
        BY <1>1, <1>10, RunningSlot DEF MaybeAdmit, SlotProcedures
      <3>2. <<tail>> \in Seq(Calls)
        BY <3>1, CallTypes DEF SlotProcedures
      <3>3. Chaseless(<<tail>>)
        BY FramesOfOne DEF Chaseless, CallOn
      <3> QED BY <3>2, <3>3
    <2>2. open \in Seq(Calls) /\ Chaseless(open)
      BY CallTypes, FramesOfOne DEF Lines, Chaseless, Broadcast
    <2>3. /\ open \o <<tail>> \in Seq(Calls) /\ Chaseless(open \o <<tail>>)
          /\ <<>> \o <<tail>> \in Seq(Calls) /\ Chaseless(<<>> \o <<tail>>)
      BY <2>1, <2>2, ChaselessEmpty, ChaselessConcat
    <2>4. \/ Return(<<>>) \/ \E lost : Return(After(lost))
          \/ Return(open \o <<tail>>) \/ Return(<<>> \o <<tail>>)
      BY <1>10 DEF MaybeAdmit
    <2> QED BY <1>3, <1>4, <2>3, <2>4
  <1>11. CASE AdmitTail
    <2> DEFINE calls == <<Broadcast("JOINED"), Call("broadcast_game_state")>>
    <2>1. calls \in Seq(Calls)
      BY CallTypes DEF Lines, Procedures
    <2>2. Chaseless(calls)
      BY FramesOfTwo DEF Chaseless, Broadcast, Call
    <2> QED BY <1>11, <2>1, <2>2, ChaselessReevaluate DEF AdmitTail
  <1>12. CASE CloseLobby
    <2> DEFINE calls == <<Broadcast("LOBBY_CLOSED"), Broadcast("SETUP_OPEN"),
                          Call("close_lobby_if_needed.tail")>>
    <2>1. calls \in Seq(Calls)
      BY CallTypes DEF Lines, Procedures
    <2>2. Chaseless(calls)
      BY FramesOfThree DEF Chaseless, Broadcast, Call
    <2> QED BY <1>3, <1>12, <2>1, <2>2 DEF CloseLobby
  <1>13. CASE CloseLobbyTail
    <2>1. <<Broadcast("WAITING_FOR_OTHERS")>> \in Seq(Calls)
      BY CallTypes DEF Lines
    <2>2. Chaseless(<<Broadcast("WAITING_FOR_OTHERS")>>)
      BY FramesOfOne DEF Chaseless, Broadcast
    <2> QED BY <1>3, <1>5, <1>13, <2>1, <2>2 DEF CloseLobbyTail, EndGame
  <1>14. CASE Expire
    BY <1>3, <1>14 DEF Expire, IInv, NeverExpires, SetupExpired
  <1>15. ~ExpireSlot /\ ~ExpireTail
    BY <1>1, RunningMarked DEF ExpireSlot, ExpireTail, TimerFns, IInv, NeverExpires
  <1>16. CASE Chase
    <2> DEFINE first == <<CallOn("broadcast_positions", 0)>>
    <2>1. first \in Seq(Calls) /\ Chaseless(first)
      BY CallTypes, MatchServerAssumption, FramesOfOne DEF Chaseless, CallOn
    <2>2. /\ first \o <<>> \in Seq(Calls) /\ Chaseless(first \o <<>>)
          /\ first \o <<Call("reevaluate_state")>> \in Seq(Calls)
          /\ Chaseless(first \o <<Call("reevaluate_state")>>)
      BY <2>1, ChaselessEmpty, ChaselessReevaluate, ChaselessConcat
    <2>3. \/ Return(<<>>) \/ Return(first \o <<>>)
          \/ Return(first \o <<Call("reevaluate_state")>>)
      BY <1>16 DEF Chase
    <2> QED BY <1>3, <2>2, <2>3
  <1> QED BY <1>7, <1>8, <1>9, <1>10, <1>11, <1>12, <1>13, <1>14, <1>15, <1>16 DEF Step

(* What a step leaves on the stack. *)
LEMMA StepKeepsOthers ==
  ASSUME TypeOK, IInv, ChaseLast, Step
  PROVE  /\ ChaseLast'
         /\ Frames(todo) \ {Head(todo)} \subseteq Frames(todo')
         /\ Marked \ {Head(todo)} \subseteq Marked'
  <1>1. PICK calls \in Seq(Calls) : Return(calls) /\ Chaseless(calls)
    BY StepReturns
  <1>2. StackOK /\ todo # <<>>
    BY StepReturns
  <1>3. Frames(todo) \ {Head(todo)} \subseteq Frames(todo')
    BY <1>1, <1>2, ReturnFrames DEF StackOK
  <1>4. ChaseLast'
    BY <1>1, <1>2, ReturnChaseLast
  <1> QED BY <1>3, <1>4 DEF Marked

(* A client that was dropped owes a reevaluation. *)
LEMMA ReturnOwes ==
  ASSUME StackOK, todo # <<>>, NEW lost, lost # {}, Return(After(lost))
  PROVE  Owed'
  <1>1. After(lost) = <<Call("reevaluate_state")>>
    BY DEF After
  <1>2. Frames(After(lost)) \subseteq Frames(todo')
    BY AfterType, ReturnFrames DEF StackOK
  <1>3. Call("reevaluate_state") \in Frames(todo')
    BY <1>1, <1>2, FramesOfOne
  <1> QED BY <1>3 DEF Owed, Call

-----------------------------------------------------------------------------
(* OwedInv under the steps.  Dropping players owes a reevaluation. *)
LEMMA DropOwes ==
  ASSUME OwedInv, NEW said, NEW lost, Queue(said, lost), UNCHANGED match,
         lost # {} => Owed', lost = {} => (Owed => Owed'),
         Marked' \subseteq Marked,
         \A c \in Marked : c.fn = "maybe_admit_player.tail" => c \in Marked'
  PROVE  OwedInv'
  <1>1. NobodyFallen'
    BY DEF OwedInv, NobodyFallen, Queue, Admitted
  <1>2. CASE lost # {}
    BY <1>1, <1>2 DEF OwedInv, RivalsOrOwed, CountdownOrOwed
  <1>3. CASE lost = {}
    <2>1. Admitted' = Admitted /\ Alive' = Alive /\ connected' = connected
      BY <1>3 DEF Queue, Admitted, Alive
    <2> QED BY <1>1, <1>3, <2>1 DEF OwedInv, RivalsOrOwed, CountdownOrOwed, FewerThanTwo, match
  <1> QED BY <1>2, <1>3

(* Nothing changes but the stack, which loses neither what is owed nor an
   admission. *)
LEMMA RestOwes ==
  ASSUME OwedInv, UNCHANGED <<players, match>>, Owed => Owed', Marked' \subseteq Marked,
         \A c \in Marked : c.fn = "maybe_admit_player.tail" => c \in Marked'
  PROVE  OwedInv'
  <1>1. Admitted' = Admitted /\ Alive' = Alive /\ connected' = connected
    BY DEF players, Admitted, Alive
  <1> QED BY <1>1 DEF OwedInv, RivalsOrOwed, CountdownOrOwed, NobodyFallen, FewerThanTwo,
                      players, match

(* A match that is over owes nothing. *)
LEMMA EndGameOwes ==
  ASSUME StackOK, todo # <<>>, OwedInv, EndGame PROVE OwedInv'
  <1>1. Marked' \subseteq Marked
    BY EmptyReturn DEF EndGame
  <1>2. PICK lost : Queue([i \in Registered |-> Verdict(i)], lost)
    BY DEF EndGame
  <1>3. NobodyFallen'
    BY <1>1, <1>2 DEF OwedInv, NobodyFallen, Queue, Admitted
  <1> QED BY <1>3 DEF EndGame, OwedInv, RivalsOrOwed, CountdownOrOwed

(* A round that starts has all that are admitted alive, two at least. *)
LEMMA StartOwes ==
  ASSUME TypeOK, StackOK, todo # <<>>, OwedInv, StartActiveRound, ~FewerThanTwo(Admitted),
         Admitted \subseteq alive \cup waiting
  PROVE  OwedInv'
  <1> DEFINE calls == <<Broadcast("ROUND_START"), CallOn("broadcast_positions", 0)>>
  <1>1. calls \in Seq(Calls)
    BY CallTypes, MatchServerAssumption DEF Lines
  <1>2. \A c \in Frames(calls) : c.fn \notin TimerFns \cup AdmitFns
    BY FramesOfTwo, Unmarked DEF Broadcast, CallOn
  <1>3. Marked' \subseteq Marked
    BY <1>1, <1>2, PlainReturn DEF StartActiveRound
  <1>4. Admitted' = Admitted /\ Admitted \subseteq alive'
    BY DEF StartActiveRound, StartRound, Admitted
  <1>5. Alive' = Admitted
    BY <1>4 DEF Alive
  <1>6. NobodyFallen'
    BY <1>4 DEF NobodyFallen
  <1>7. ~FewerThanTwo(Alive')
    BY <1>5 DEF FewerThanTwo
  <1>8. phase' = "ROUND_ACTIVE"
    BY DEF StartActiveRound, StartRound
  <1>9. RivalsOrOwed'
    BY <1>7 DEF RivalsOrOwed, FewerThanTwo
  <1> QED BY <1>6, <1>8, <1>9 DEF OwedInv, CountdownOrOwed

LEMMA BroadcastOwes ==
  ASSUME TypeOK, IInv, OwedInv, ChaseLast, QueueBroadcast \/ BroadcastGameState \/ BroadcastPositions
  PROVE  OwedInv'
  <1>1. /\ StackOK /\ todo # <<>>
        /\ Frames(todo) \ {Head(todo)} \subseteq Frames(todo')
        /\ Marked \ {Head(todo)} \subseteq Marked'
    BY StepReturns, StepKeepsOthers DEF Step
  <1>2. Head(todo).fn \in {"queue_broadcast", "broadcast_game_state", "broadcast_positions"}
    BY DEF QueueBroadcast, BroadcastGameState, BroadcastPositions, Running
  <1>3. Owed => Owed'
    BY <1>1, <1>2 DEF Owed
  <1>4. \A c \in Marked : c.fn = "maybe_admit_player.tail" => c \in Marked'
    BY <1>1, <1>2
  <1>5. ASSUME NEW said, NEW lost, Queue(said, lost), Return(After(lost)), UNCHANGED match
        PROVE  OwedInv'
    <2>1. Marked' \subseteq Marked
      BY <1>1, <1>5, AfterType, AfterPlain, PlainReturn
    <2>2. lost # {} => Owed'
      BY <1>1, <1>5, ReturnOwes
    <2> QED BY <1>3, <1>4, <1>5, <2>1, <2>2, DropOwes
  <1>6. CASE QueueBroadcast \/ BroadcastGameState
    BY <1>5, <1>6 DEF QueueBroadcast, BroadcastGameState
  <1>7. CASE BroadcastPositions
    <2>1. UNCHANGED <<players, match>>
      BY <1>7 DEF BroadcastPositions
    <2>2. Marked' \subseteq Marked
      <3>1. ASSUME NEW i \in Admitted,
                   Return(<<Broadcast("PLAYER"), CallOn("broadcast_positions", i + 1)>>)
            PROVE  Marked' \subseteq Marked
        <4> DEFINE calls == <<Broadcast("PLAYER"), CallOn("broadcast_positions", i + 1)>>
        <4>1. i + 1 \in 0 .. MaxPlayers
          BY MatchServerAssumption DEF TypeOK, Admitted, Slots
        <4>2. calls \in Seq(Calls)
          BY <4>1, CallTypes DEF Lines
        <4>3. \A c \in Frames(calls) : c.fn \notin TimerFns \cup AdmitFns
          BY FramesOfTwo, Unmarked DEF Broadcast, CallOn
        <4> QED BY <1>1, <3>1, <4>2, <4>3, PlainReturn
      <3> QED BY <1>1, <1>7, <3>1, EmptyReturn DEF BroadcastPositions
    <2> QED BY <1>3, <1>4, <2>1, <2>2, RestOwes
  <1> QED BY <1>6, <1>7

LEMMA ReevaluateOwes ==
  ASSUME TypeOK, IInv, OwedInv, ChaseLast, Reevaluate
  PROVE  OwedInv'
  <1>1. /\ StackOK /\ todo # <<>>
        /\ Frames(todo) \ {Head(todo)} \subseteq Frames(todo')
        /\ Marked \ {Head(todo)} \subseteq Marked'
    BY StepReturns, StepKeepsOthers DEF Step
  <1>2. Head(todo).fn = "reevaluate_state"
    BY DEF Reevaluate, Running
  <1>3. \A c \in Marked : c.fn = "maybe_admit_player.tail" => c \in Marked'
    BY <1>1, <1>2
  <1>4. ASSUME Return(<<>>), UNCHANGED players PROVE NobodyFallen'
    <2>1. Marked' \subseteq Marked
      BY <1>1, <1>4, EmptyReturn
    <2>2. Admitted' = Admitted
      BY <1>4 DEF players, Admitted
    <2> QED BY <1>4, <2>1, <2>2 DEF OwedInv, NobodyFallen, players
  <1>5. CASE phase = "LOBBY_OPEN"
    <2>1. ReevaluateLobby
      BY <1>5 DEF Reevaluate
    <2>2. Admitted' = Admitted /\ phase' = phase
      BY <2>1 DEF ReevaluateLobby, players, Admitted
    <2>3. NobodyFallen' /\ (Admitted = {} => join_deadline' = "unset")
      BY <1>4, <2>1 DEF ReevaluateLobby
    <2> QED BY <1>5, <2>2, <2>3 DEF OwedInv, RivalsOrOwed, CountdownOrOwed
  <1>6. CASE phase = "SETUP"
    <2>1. Admitted \subseteq alive \cup waiting
      BY <1>6 DEF IInv, FlagsOK, FlagsFollowPhase
    <2>2. CASE EndGame
      BY <1>1, <2>2, EndGameOwes
    <2>3. CASE ~FewerThanTwo(Admitted) /\ StartActiveRound
      BY <1>1, <2>1, <2>3, StartOwes
    <2>4. CASE Return(<<>>) /\ UNCHANGED <<players, match>>
      BY <1>4, <1>6, <2>4 DEF OwedInv, RivalsOrOwed, CountdownOrOwed, match
    <2> QED BY <1>6, <2>2, <2>3, <2>4 DEF Reevaluate, SettleSetup
  <1>7. CASE phase = "ROUND_ACTIVE"
    <2>1. CASE EndGame
      BY <1>1, <2>1, EndGameOwes
    <2>2. CASE ~RoundDecided /\ Return(<<>>) /\ UNCHANGED <<players, match>>
      <3>1. Alive' = Alive /\ phase' = phase
        BY <2>2 DEF players, match, Alive, Admitted
      <3>2. ~FewerThanTwo(Alive)
        BY <2>2 DEF RoundDecided
      <3>3. RivalsOrOwed'
        BY <3>1, <3>2 DEF RivalsOrOwed, FewerThanTwo
      <3> QED BY <1>4, <1>7, <2>2, <3>1, <3>3 DEF OwedInv, CountdownOrOwed
    <2> QED BY <1>7, <2>1, <2>2 DEF Reevaluate, ReevaluateRound
  <1>8. CASE phase = "GAME_OVER"
    <2>1. Return(<<>>) /\ UNCHANGED <<players, match>>
      BY <1>8 DEF Reevaluate
    <2> QED BY <1>4, <1>8, <2>1 DEF OwedInv, RivalsOrOwed, CountdownOrOwed, match
  <1> QED BY <1>5, <1>6, <1>7, <1>8 DEF TypeOK, Phases

(* The admission that makes a lobby count down is on the stack from then on. *)
LEMMA MaybeAdmitOwes ==
  ASSUME TypeOK, IInv, OwedInv, ChaseLast, MaybeAdmit
  PROVE  OwedInv'
  <1> DEFINE i == Head(todo).slot
             tail == CallOn("maybe_admit_player.tail", i)
  <1>1. /\ StackOK /\ todo # <<>>
        /\ Frames(todo) \ {Head(todo)} \subseteq Frames(todo')
        /\ Marked \ {Head(todo)} \subseteq Marked'
    BY StepReturns, StepKeepsOthers DEF Step
  <1>2. Head(todo).fn = "maybe_admit_player" /\ i \in Slots
    BY <1>1, RunningSlot DEF MaybeAdmit, Running, SlotProcedures
  <1>3. Owed => Owed'
    BY <1>1, <1>2 DEF Owed
  <1>4. \A c \in Marked : c.fn = "maybe_admit_player.tail" => c \in Marked'
    BY <1>1, <1>2
  <1>5. CASE Return(<<>>) /\ UNCHANGED <<players, match>>
    BY <1>1, <1>3, <1>4, <1>5, EmptyReturn, RestOwes
  <1>6. ASSUME NEW lost, Queue(Silence, lost), Return(After(lost)), UNCHANGED match
        PROVE  OwedInv'
    <2>1. Marked' \subseteq Marked
      BY <1>1, <1>6, AfterType, AfterPlain, PlainReturn
    <2>2. lost # {} => Owed'
      BY <1>1, <1>6, ReturnOwes
    <2> QED BY <1>3, <1>4, <1>6, <2>1, <2>2, DropOwes
  <1>7. CASE /\ Complete(i) /\ phase = "LOBBY_OPEN" /\ UNCHANGED <<players, phase>>
             /\ \/ Return(<<Broadcast("LOBBY_OPEN")>> \o <<tail>>)
                \/ Return(<<>> \o <<tail>>)
    <2>1. /\ <<Broadcast("LOBBY_OPEN")>> \in Seq(Calls) /\ <<>> \in Seq(Calls)
          /\ <<tail>> \in Seq(Calls)
      BY <1>2, CallTypes DEF Lines, SlotProcedures
    <2>2. tail \in Frames(todo')
      <3>1. ASSUME NEW p \in Seq(Calls), Return(p \o <<tail>>) PROVE tail \in Frames(todo')
        <4>1. Frames(p \o <<tail>>) = Frames(p) \cup Frames(<<tail>>)
          BY <2>1, CallFrames
        <4>2. p \o <<tail>> \in Seq(Calls)
          BY <2>1
        <4>3. Frames(p \o <<tail>>) \subseteq Frames(todo')
          BY <1>1, <3>1, <4>2, ReturnFrames DEF StackOK
        <4> QED BY <4>1, <4>3, FramesOfOne
      <3> QED BY <1>7, <2>1, <3>1
    <2>3. tail \in Marked' /\ tail.fn = "maybe_admit_player.tail" /\ tail.slot = i
      BY <2>2 DEF Marked, CallOn, AdmitFns
    <2>4. i \in connected'
      BY <1>7 DEF Complete, Registered, players
    <2>5. CountdownOrOwed'
      BY <2>3, <2>4 DEF CountdownOrOwed
    <2>6. IInv'
      BY MaybeAdmitKeeps
    <2>7. NobodyFallen'
      BY <2>3, <2>6 DEF IInv, OneCause, NobodyFallen, TimerFns, AdmitFns
    <2> QED BY <1>7, <2>5, <2>7 DEF OwedInv, RivalsOrOwed
  <1>8. \/ Return(<<>>) /\ UNCHANGED <<players, match>>
        \/ /\ \E lost \in SUBSET ({i} \cap lagging) :
                Queue(Silence, lost) /\ Return(After(lost))
           /\ UNCHANGED match
        \/ /\ Complete(i) /\ phase = "LOBBY_OPEN" /\ UNCHANGED <<players, phase>>
           /\ \/ Return(<<Broadcast("LOBBY_OPEN")>> \o <<tail>>)
              \/ Return(<<>> \o <<tail>>)
    BY DEF MaybeAdmit, Refuses
  <1> QED BY <1>5, <1>6, <1>7, <1>8

(* The player that is admitted keeps the lobby from being empty; if it was
   dropped before, that is owed or seen already. *)
LEMMA AdmitTailOwes ==
  ASSUME TypeOK, IInv, OwedInv, ChaseLast, AdmitTail
  PROVE  OwedInv'
  <1> DEFINE i == Head(todo).slot
  <1>1. /\ StackOK /\ todo # <<>>
        /\ Frames(todo) \ {Head(todo)} \subseteq Frames(todo')
        /\ Marked \ {Head(todo)} \subseteq Marked'
    BY StepReturns, StepKeepsOthers DEF Step
  <1>2. Head(todo).fn = "maybe_admit_player.tail" /\ Head(todo) \in Marked
    BY <1>1, RunningMarked DEF AdmitTail, Running, AdmitFns
  <1>3. Owed => Owed'
    BY <1>1, <1>2 DEF Owed
  <1>4. phase = "LOBBY_OPEN" /\ (i \in connected => i \in registered)
    BY <1>2 DEF IInv, TailAdmitsReady
  <1>5. UNCHANGED match /\ phase' = "LOBBY_OPEN"
    BY <1>4 DEF AdmitTail, match
  <1>6. \A c \in Marked : c.fn # "close_lobby_if_needed.tail"
    BY <1>2 DEF IInv, OneCause, TimerFns, AdmitFns
  <1>7. CASE /\ admitted' = admitted \cup {i}
             /\ Return(<<Broadcast("JOINED"), Call("broadcast_game_state")>>)
             /\ UNCHANGED <<connected, registered>>
    <2> DEFINE calls == <<Broadcast("JOINED"), Call("broadcast_game_state")>>
    <2>1. calls \in Seq(Calls)
      BY CallTypes DEF Lines, Procedures
    <2>2. \A c \in Frames(calls) : c.fn \notin TimerFns \cup AdmitFns
      BY FramesOfTwo, Unmarked DEF Broadcast, Call
    <2>3. Marked' \subseteq Marked
      BY <1>1, <1>7, <2>1, <2>2, PlainReturn
    <2>4. NobodyFallen'
      BY <1>6, <2>3 DEF NobodyFallen
    <2>5. CASE i \in connected
      <3>1. i \in Admitted'
        BY <1>4, <1>7, <2>5 DEF Admitted
      <3> QED BY <1>5, <2>4, <3>1 DEF OwedInv, RivalsOrOwed, CountdownOrOwed
    <2>6. CASE i \notin connected
      <3>1. Admitted' = Admitted
        BY <1>7, <2>6 DEF Admitted
      <3>2. \A c \in Marked : c.slot \in connected => c \in Marked'
        BY <1>1, <2>6
      <3>3. CountdownOrOwed'
        BY <1>3, <1>5, <1>7, <3>1, <3>2 DEF OwedInv, CountdownOrOwed, match
      <3> QED BY <1>5, <2>4, <3>3 DEF OwedInv, RivalsOrOwed
    <2> QED BY <2>5, <2>6
  <1>8. CASE Return(<<Call("reevaluate_state")>>)
    <2>1. After({i}) = <<Call("reevaluate_state")>> /\ {i} # {}
      BY DEF After
    <2>2. Owed'
      BY <1>1, <1>8, <2>1, ReturnOwes
    <2>3. Marked' \subseteq Marked
      BY <1>1, <1>8, <2>1, AfterType, AfterPlain, PlainReturn
    <2>4. NobodyFallen'
      BY <1>6, <2>3 DEF NobodyFallen
    <2> QED BY <2>2, <2>4 DEF OwedInv, RivalsOrOwed, CountdownOrOwed
  <1> QED BY <1>7, <1>8 DEF AdmitTail

(* The lobby closes on players that all wait for the round. *)
LEMMA CloseLobbyOwes ==
  ASSUME TypeOK, IInv, OwedInv, ChaseLast, CloseLobby \/ CloseLobbyTail \/ Expire
  PROVE  OwedInv'
  <1>1. /\ StackOK /\ todo # <<>>
        /\ Frames(todo) \ {Head(todo)} \subseteq Frames(todo')
        /\ Marked \ {Head(todo)} \subseteq Marked'
    BY StepReturns, StepKeepsOthers DEF Step
  <1>2. /\ Head(todo).fn \in {"close_lobby_if_needed", "close_lobby_if_needed.tail",
                              "expire_unready_setup_players"}
        /\ Head(todo) \in Marked
    BY <1>1, RunningMarked DEF CloseLobby, CloseLobbyTail, Expire, Running, TimerFns
  <1>3. Owed => Owed'
    BY <1>1, <1>2 DEF Owed
  <1>4. \A c \in Marked : c.fn = "maybe_admit_player.tail" => c \in Marked'
    BY <1>1, <1>2
  <1>5. CASE Return(<<>>) /\ UNCHANGED <<players, match>>
    BY <1>1, <1>3, <1>4, <1>5, EmptyReturn, RestOwes
  <1>6. CASE phase = "LOBBY_OPEN" /\ phase' = "SETUP" /\ UNCHANGED players
    <2>1. Admitted' = Admitted
      BY <1>6 DEF players, Admitted
    <2>2. Admitted \subseteq waiting
      BY <1>6 DEF IInv, FlagsOK, FlagsFollowPhase
    <2> QED BY <1>6, <2>1, <2>2
            DEF OwedInv, RivalsOrOwed, CountdownOrOwed, NobodyFallen, players
  <1>7. CASE CloseLobby
    BY <1>5, <1>6, <1>7 DEF CloseLobby, LobbyExpired
  <1>8. CASE CloseLobbyTail
    <2>1. Head(todo).fn = "close_lobby_if_needed.tail"
      BY <1>8 DEF CloseLobbyTail, Running
    <2>2. Admitted \subseteq alive \cup waiting
      BY <1>2, <2>1 DEF OwedInv, NobodyFallen
    <2>3. CASE EndGame
      BY <1>1, <2>3, EndGameOwes
    <2>4. CASE ~FewerThanTwo(Admitted) /\ StartActiveRound
      BY <1>1, <2>2, <2>4, StartOwes
    <2>5. ~FewerThanTwo(Admitted) => AllAdmittedReady
      BY DEF IInv, AdmittedReady, AllAdmittedReady
    <2> QED BY <1>8, <2>3, <2>4, <2>5 DEF CloseLobbyTail
  <1>9. CASE Expire
    BY <1>5, <1>9 DEF Expire, IInv, NeverExpires, SetupExpired
  <1> QED BY <1>7, <1>8, <1>9

(* A tick that leaves fewer than two alive owes a reevaluation. *)
LEMMA ChaseOwes ==
  ASSUME TypeOK, IInv, OwedInv, ChaseLast, Chase
  PROVE  OwedInv'
  <1>1. /\ StackOK /\ todo # <<>>
        /\ Frames(todo) \ {Head(todo)} \subseteq Frames(todo')
        /\ Marked \ {Head(todo)} \subseteq Marked'
    BY StepReturns, StepKeepsOthers DEF Step
  <1>2. Head(todo).fn = "chase" /\ Frames(todo) = {Head(todo)}
    BY <1>1, ChaseAlone DEF Chase, Running
  <1>3. ~Owed /\ \A c \in Marked : c.fn = "chase"
    BY <1>2 DEF Owed, Marked
  <1>4. CASE Return(<<>>) /\ UNCHANGED <<players, match>>
    BY <1>1, <1>3, <1>4, EmptyReturn, RestOwes
  <1>5. ASSUME NEW S, phase = "ROUND_ACTIVE", alive' = alive \ S,
               UNCHANGED <<connected, registered, admitted, phase>>,
               Return(<<CallOn("broadcast_positions", 0)>> \o
                      (IF AtMostOneType(Alive \ S, choice)
                       THEN <<Call("reevaluate_state")>> ELSE <<>>))
        PROVE  OwedInv'
    <2> DEFINE first == <<CallOn("broadcast_positions", 0)>>
               last == IF AtMostOneType(Alive \ S, choice)
                       THEN <<Call("reevaluate_state")>> ELSE <<>>
    <2>1. Alive' = Alive \ S
      BY <1>5 DEF Alive, Admitted
    <2>2. first \in Seq(Calls) /\ last \in Seq(Calls)
      BY CallTypes, MatchServerAssumption DEF Procedures
    <2>3. Frames(first \o last) = Frames(first) \cup Frames(last)
      <3> HIDE DEF first, last
      <3> QED BY <2>2, CallFrames
    <2>4. first \o last \in Seq(Calls)
      BY <2>2
    <2>5. Frames(todo') = Frames(first \o last) \cup Frames(Tail(todo))
      BY <1>1, <1>5, <2>4, ReturnFrames DEF StackOK
    <2>6. AtMostOneType(Alive \ S, choice) => Owed'
      BY <2>3, <2>5, FramesOfOne DEF Owed, Call
    <2>7. FewerThanTwo(Alive \ S) => AtMostOneType(Alive \ S, choice)
      BY DEF FewerThanTwo, AtMostOneType
    <2>8. Marked' \subseteq Marked
      <3>1. \A c \in Frames(first) \cup Frames(last) : c.fn \notin TimerFns \cup AdmitFns
        BY FramesOfOne, FramesOfEmpty, Unmarked DEF CallOn, Call
      <3> QED BY <1>1, <1>5, <2>3, <2>4, <3>1, PlainReturn
    <2>9. NobodyFallen'
      BY <1>3, <2>8 DEF NobodyFallen
    <2>10. RivalsOrOwed'
      BY <2>1, <2>6, <2>7 DEF RivalsOrOwed, FewerThanTwo
    <2> QED BY <1>5, <2>9, <2>10 DEF OwedInv, CountdownOrOwed
  <1> QED BY <1>4, <1>5 DEF Chase, players, match

(* The idle server owes nothing and suspends nothing. *)
LEMMA IdleOwesNothing ==
  ASSUME OwedInv, Idle
  PROVE  /\ ~(phase = "ROUND_ACTIVE" /\ FewerThanTwo(Alive))
         /\ ~(phase = "LOBBY_OPEN" /\ Admitted = {} /\ join_deadline # "unset")
         /\ ~Owed /\ Marked = {}
  <1>1. Frames(todo) = {} /\ Marked = {}
    BY IdleMarked, FramesOfEmpty DEF Idle
  <1> QED BY <1>1 DEF OwedInv, RivalsOrOwed, CountdownOrOwed, Owed

(* What an idle server is asked to do keeps it owing what it should. *)
LEMMA CommandOwes ==
  ASSUME TypeOK, IInv, OwedInv, NEW i \in Slots,
         Accept(i) \/ Command(i) \/ Leave(i) \/ FallBehind(i) \/ CatchUp(i)
  PROVE  OwedInv' /\ ChaseLast'
  <1>0. Idle
    BY DEF Accept, Command, Hello, Choose, Spawn, GetState, Rematch, Leave,
           FallBehind, CatchUp
  <1>1. /\ ~(phase = "ROUND_ACTIVE" /\ FewerThanTwo(Alive))
        /\ ~(phase = "LOBBY_OPEN" /\ Admitted = {} /\ join_deadline # "unset")
        /\ ~Owed /\ Marked = {}
    BY <1>0, IdleOwesNothing
  <1>2. ASSUME \A c \in Frames(todo') : c.fn \notin {"chase", "close_lobby_if_needed.tail"}
        PROVE  NobodyFallen' /\ ChaseLast'
    BY <1>2 DEF NobodyFallen, ChaseLast, Marked, Frames
  <1>3. todo' = todo => Frames(todo') = {}
    BY <1>0, FramesOfEmpty DEF Idle
  <1>4. ASSUME Admitted' = Admitted, Alive' = Alive, UNCHANGED match,
               todo' = todo \/ todo' = <<CallOn("maybe_admit_player", i)>>
        PROVE  OwedInv' /\ ChaseLast'
    <2>1. RivalsOrOwed' /\ CountdownOrOwed'
      BY <1>1, <1>4 DEF RivalsOrOwed, CountdownOrOwed, FewerThanTwo, match
    <2>2. todo' # todo => Frames(todo') = {CallOn("maybe_admit_player", i)}
      BY <1>4, FramesOfOne
    <2>3. \A c \in Frames(todo') : c.fn \notin {"chase", "close_lobby_if_needed.tail"}
      BY <1>3, <2>2 DEF CallOn
    <2> QED BY <1>2, <2>1, <2>3 DEF OwedInv
  <1>5. CASE Accept(i)
    <2>1. Admitted' = Admitted /\ Alive' = Alive
      BY <1>5 DEF Accept, ResetProgress, Admitted, Alive
    <2> QED BY <1>4, <1>5, <2>1 DEF Accept
  <1>6. CASE Hello(i)
    <2>1. Admitted' = Admitted /\ Alive' = Alive
      BY <1>6 DEF Hello, ResetProgress, Admitted, Alive
    <2> QED BY <1>4, <1>6, <2>1 DEF Hello
  <1>7. CASE (\E c \in Picks : Choose(i, c)) \/ Spawn(i) \/ FallBehind(i) \/ CatchUp(i)
    <2>1. Admitted' = Admitted /\ Alive' = Alive
      BY <1>7 DEF Choose, Spawn, FallBehind, CatchUp, Admitted, Alive
    <2> QED BY <1>4, <1>7, <2>1 DEF Choose, Spawn, FallBehind, CatchUp
  <1>8. CASE GetState(i)
    <2>1. PICK lost \in SUBSET ({i} \cap lagging) :
             Queue([j \in {i} |-> StateLine(j)], lost) /\ todo' = After(lost)
      BY <1>8 DEF GetState
    <2>2. /\ lost = {} => Frames(todo') = {}
          /\ lost # {} => Frames(todo') = {Call("reevaluate_state")}
      BY <2>1, FramesOfEmpty, FramesOfOne DEF After
    <2>3. lost # {} => Owed'
      <3>1. Call("reevaluate_state").fn = "reevaluate_state"
        BY DEF Call
      <3> QED BY <2>2, <3>1 DEF Owed
    <2>4. Marked' = {}
      BY <2>1, AfterPlain DEF Marked
    <2>5. OwedInv'
      BY <1>1, <1>8, <2>1, <2>3, <2>4, DropOwes DEF GetState
    <2>6. ChaseLast'
      BY <1>2, <2>2 DEF Call
    <2> QED BY <2>5, <2>6
  <1>9. CASE Leave(i)
    <2> DEFINE last == <<Call("reevaluate_state")>>
    <2>1. todo' = Farewell(i) \o last /\ Queue(Silence, {i}) /\ UNCHANGED match
      BY <1>9 DEF Leave, DropLoudly
    <2>2. /\ Farewell(i) \in Seq(Calls) /\ Chaseless(Farewell(i))
          /\ last \in Seq(Calls) /\ Chaseless(last)
      BY ChaselessFarewell, ChaselessReevaluate
    <2>3. Frames(todo') = Frames(Farewell(i)) \cup Frames(last)
      <3> HIDE DEF last
      <3> QED BY <2>1, <2>2, CallFrames
    <2>4. Owed'
      BY <2>3, FramesOfOne DEF Owed, Call
    <2>5. \A c \in Frames(todo') : c.fn \notin TimerFns \cup AdmitFns
      BY <2>3, FarewellPlain, FramesOfOne, Unmarked DEF Call
    <2>6. OwedInv'
      BY <1>1, <2>1, <2>4, <2>5, DropOwes DEF Marked
    <2>7. ChaseLast'
      BY <1>2, <2>5 DEF TimerFns
    <2> QED BY <2>6, <2>7
  <1>10. CASE Rematch(i)
    <2>1. /\ phase' = "LOBBY_OPEN" /\ join_deadline' = "unset" /\ todo' = todo
      BY <1>10 DEF Rematch, FreshMatch
    <2>2. NobodyFallen' /\ ChaseLast'
      BY <1>2, <1>3, <2>1
    <2> QED BY <2>1, <2>2 DEF OwedInv, RivalsOrOwed, CountdownOrOwed
  <1> QED BY <1>5, <1>6, <1>7, <1>8, <1>9, <1>10 DEF Command

LEMMA TimerOwes ==
  ASSUME TypeOK, IInv, OwedInv, Timers \/ JoinWindowEnds \/ SetupWindowEnds
  PROVE  OwedInv' /\ ChaseLast'
  <1>1. Idle
    BY DEF Timers, JoinWindowEnds, SetupWindowEnds
  <1>2. /\ ~(phase = "ROUND_ACTIVE" /\ FewerThanTwo(Alive))
        /\ ~(phase = "LOBBY_OPEN" /\ Admitted = {} /\ join_deadline # "unset")
    BY <1>1, IdleOwesNothing
  <1>3. /\ UNCHANGED <<players, phase>>
        /\ join_deadline' # "unset" => join_deadline # "unset"
    BY DEF Timers, JoinWindowEnds, SetupWindowEnds, match
  <1>4. Admitted' = Admitted /\ Alive' = Alive
    BY <1>3 DEF players, Admitted, Alive
  <1>5. RivalsOrOwed' /\ CountdownOrOwed'
    BY <1>2, <1>3, <1>4 DEF RivalsOrOwed, CountdownOrOwed, FewerThanTwo
  <1>6. CASE Timers
    <2> DEFINE calls == <<Call("close_lobby_if_needed"),
                          Call("expire_unready_setup_players"), Call("chase")>>
    <2>1. todo' = calls
      BY <1>6 DEF Timers
    <2>2. Frames(calls) = {Call("close_lobby_if_needed"),
                           Call("expire_unready_setup_players"), Call("chase")}
      BY FramesOfThree
    <2>3. NobodyFallen'
      BY <2>1, <2>2 DEF NobodyFallen, Marked, Call
    <2>4. ChaseLast'
      BY <2>1 DEF ChaseLast, Call
    <2> QED BY <1>5, <2>3, <2>4 DEF OwedInv
  <1>7. CASE JoinWindowEnds \/ SetupWindowEnds
    <2>1. todo' = <<>>
      BY <1>1, <1>7 DEF JoinWindowEnds, SetupWindowEnds, Idle
    <2> QED BY <1>5, <2>1, FramesOfEmpty DEF OwedInv, NobodyFallen, ChaseLast, Marked
  <1> QED BY <1>6, <1>7

LEMMA OwedInit == Init => OwedInv /\ ChaseLast
  <1> SUFFICES ASSUME Init PROVE OwedInv /\ ChaseLast
    OBVIOUS
  <1>1. Marked = {}
    BY IdleMarked DEF Init, Idle
  <1> QED BY <1>1 DEF Init, OwedInv, RivalsOrOwed, CountdownOrOwed, NobodyFallen, ChaseLast

LEMMA OwedStep == TypeOK /\ IInv /\ OwedInv /\ ChaseLast /\ [Next]_vars
                    => OwedInv' /\ ChaseLast'
  <1> SUFFICES ASSUME TypeOK, IInv, OwedInv, ChaseLast, [Next]_vars
               PROVE  OwedInv' /\ ChaseLast'
    OBVIOUS
  <1>1. CASE Step
    <2>1. ~ExpireSlot /\ ~ExpireTail
      <3>1. StackOK
        BY TypeParts
      <3> QED BY <3>1, RunningMarked DEF ExpireSlot, ExpireTail, TimerFns, IInv, NeverExpires
    <2> QED BY <1>1, <2>1, StepKeepsOthers, BroadcastOwes, ReevaluateOwes, MaybeAdmitOwes,
               AdmitTailOwes, CloseLobbyOwes, ChaseOwes DEF Step
  <1>2. CASE Timers \/ JoinWindowEnds \/ SetupWindowEnds
    BY <1>2, TimerOwes
  <1>3. ASSUME NEW i \in Slots,
               Accept(i) \/ Command(i) \/ Leave(i) \/ FallBehind(i) \/ CatchUp(i)
        PROVE  OwedInv' /\ ChaseLast'
    BY <1>3, CommandOwes
  <1>4. CASE UNCHANGED vars
    <2>1. UNCHANGED <<players, match, todo>>
      BY <1>4 DEF vars
    <2>2. Marked' = Marked /\ (Owed => Owed') /\ ChaseLast'
      BY <2>1 DEF Marked, Owed, Frames, ChaseLast
    <2> QED BY <2>1, <2>2, RestOwes
  <1> QED BY <1>1, <1>2, <1>3, <1>4 DEF Next

LEMMA OwedInvariant == Spec => [](OwedInv /\ ChaseLast)
  <1> QED BY OwedInit, OwedStep, TypeCorrect, Invariant, PTL DEF Spec

-----------------------------------------------------------------------------
(* A round at rest has two players alive: whoever is dropped or caught, in
   whichever nested call, the reevaluation owed for it is made before the
   server waits again. *)
THEOREM RoundHasRivalsAlways == Spec => []RoundHasRivals
  <1>1. OwedInv => RoundHasRivals
    BY IdleOwesNothing DEF RoundHasRivals
  <1> QED BY <1>1, OwedInvariant, PTL

(* An empty lobby at rest does not count down, also when the player whose
   admission started the countdown has been dropped by its announcement. *)
THEOREM EmptyLobbyWaitsAlways == Spec => []EmptyLobbyWaits
  <1>1. OwedInv => EmptyLobbyWaits
    BY IdleOwesNothing DEF EmptyLobbyWaits
  <1> QED BY <1>1, OwedInvariant, PTL

-----------------------------------------------------------------------------
(* close_lobby_if_needed and its tail: the tail can start the round, whatever
   the broadcasts before it have done to the match. *)
CloseFns == {"close_lobby_if_needed", "close_lobby_if_needed.tail"}

(* There is one of them on the stack at most. *)
CloseOnce ==
    \A j, k \in 1 .. Len(todo) :
        todo[j].fn \in CloseFns /\ todo[k].fn \in CloseFns => j = k

(* Setting up starts the round for the first time, by whichever nested call;
   the tail starts it for the second time, and is not called again. *)
Starts ==
    /\ phase \in {"LOBBY_OPEN", "SETUP"} => round_no = 0
    /\ (\E c \in Frames(todo) : c.fn = "close_lobby_if_needed.tail") => round_no <= 1
    /\ round_no <= 2

StartInv == CloseOnce /\ Starts

-----------------------------------------------------------------------------
(* The stack under one step. *)

(* Calls that close no lobby. *)
Open(q) == \A c \in Frames(q) : c.fn \notin CloseFns

LEMMA OpenConcat ==
  ASSUME NEW p \in Seq(Calls), NEW q \in Seq(Calls), Open(p), Open(q)
  PROVE  p \o q \in Seq(Calls) /\ Open(p \o q)
  <1>1. Frames(p \o q) = Frames(p) \cup Frames(q)
    BY CallFrames
  <1> QED BY <1>1 DEF Open

(* A step calls close_lobby_if_needed.tail from close_lobby_if_needed only. *)
LEMMA StepOpens ==
  ASSUME TypeOK, IInv, Step, ~CloseLobby
  PROVE  \E calls \in Seq(Calls) : Return(calls) /\ Open(calls)
  <1> DEFINE Returns == \E calls \in Seq(Calls) : Return(calls) /\ Open(calls)
  <1>1. StackOK
    BY TypeParts
  <1> SUFFICES Returns
    OBVIOUS
  <1>2. Return(<<>>) => Returns
    <2>1. <<>> \in Seq(Calls) /\ Open(<<>>)
      BY FramesOfEmpty DEF Open
    <2> QED BY <2>1
  <1>3. ASSUME NEW c \in Calls, c.fn \notin CloseFns, Return(<<c>>) PROVE Returns
    <2>1. <<c>> \in Seq(Calls) /\ Open(<<c>>)
      BY <1>3, FramesOfOne DEF Open
    <2> QED BY <1>3, <2>1
  <1>4. ASSUME NEW c \in Calls, NEW d \in Calls, c.fn \notin CloseFns,
               d.fn \notin CloseFns, Return(<<c, d>>)
        PROVE  Returns
    <2>1. <<c, d>> \in Seq(Calls) /\ Open(<<c, d>>)
      BY <1>4, FramesOfTwo DEF Open
    <2> QED BY <1>4, <2>1
  <1>5. /\ \A line \in Lines : Broadcast(line) \in Calls /\ Broadcast(line).fn \notin CloseFns
        /\ Call("reevaluate_state") \in Calls
        /\ Call("reevaluate_state").fn \notin CloseFns
        /\ Call("broadcast_game_state") \in Calls
        /\ Call("broadcast_game_state").fn \notin CloseFns
        /\ \A i \in 0 .. MaxPlayers :
              /\ CallOn("broadcast_positions", i) \in Calls
              /\ CallOn("broadcast_positions", i).fn \notin CloseFns
        /\ \A i \in Slots :
              /\ CallOn("maybe_admit_player.tail", i) \in Calls
              /\ CallOn("maybe_admit_player.tail", i).fn \notin CloseFns
    <2>1. \A line \in Lines : Broadcast(line) \in Calls /\ Broadcast(line).fn \notin CloseFns
      BY CallTypes DEF Broadcast, CloseFns
    <2>2. /\ Call("reevaluate_state") \in Calls /\ Call("broadcast_game_state") \in Calls
          /\ Call("reevaluate_state").fn \notin CloseFns
          /\ Call("broadcast_game_state").fn \notin CloseFns
      BY CallTypes DEF Call, Procedures, CloseFns
    <2>3. \A i \in 0 .. MaxPlayers :
              /\ CallOn("broadcast_positions", i) \in Calls
              /\ CallOn("broadcast_positions", i).fn \notin CloseFns
      BY CallTypes DEF CallOn, CloseFns
    <2>4. \A i \in Slots :
              /\ CallOn("maybe_admit_player.tail", i) \in Calls
              /\ CallOn("maybe_admit_player.tail", i).fn \notin CloseFns
      BY CallTypes DEF CallOn, CloseFns, SlotProcedures
    <2> QED BY <2>1, <2>2, <2>3, <2>4
  <1>6. 0 \in 0 .. MaxPlayers
    BY MatchServerAssumption
  <1>7. ASSUME NEW lost, Return(After(lost)) PROVE Returns
    BY <1>2, <1>3, <1>5, <1>7 DEF After
  <1>8. StartActiveRound => Returns
    <2>1. "ROUND_START" \in Lines
      BY DEF Lines
    <2> QED BY <1>4, <1>5, <1>6, <2>1 DEF StartActiveRound
  <1>9. SettleSetup \/ EndGame \/ ReevaluateLobby \/ ReevaluateRound => Returns
    BY <1>2, <1>8 DEF SettleSetup, EndGame, ReevaluateLobby, ReevaluateRound
  <1>10. CASE QueueBroadcast \/ BroadcastGameState
    BY <1>7, <1>10 DEF QueueBroadcast, BroadcastGameState
  <1>11. CASE BroadcastPositions
    <2>1. ASSUME NEW i \in Admitted,
                 Return(<<Broadcast("PLAYER"), CallOn("broadcast_positions", i + 1)>>)
          PROVE  Returns
      <3>1. i + 1 \in 0 .. MaxPlayers
        BY MatchServerAssumption DEF TypeOK, Admitted, Slots
      <3>2. "PLAYER" \in Lines
        BY DEF Lines
      <3> QED BY <1>4, <1>5, <2>1, <3>1, <3>2
    <2> QED BY <1>2, <1>11, <2>1 DEF BroadcastPositions
  <1>12. CASE Reevaluate
    <2>1. phase \in Phases
      BY DEF TypeOK
    <2> QED BY <1>2, <1>9, <1>12, <2>1 DEF Reevaluate, Phases
  <1>13. CASE MaybeAdmit
    <2> DEFINE tail == <<CallOn("maybe_admit_player.tail", Head(todo).slot)>>
               open == <<Broadcast("LOBBY_OPEN")>>
    <2>1. Head(todo).slot \in Slots
      BY <1>1, <1>13, RunningSlot DEF MaybeAdmit, SlotProcedures
    <2>2. tail \in Seq(Calls) /\ Open(tail)
      BY <1>5, <2>1, FramesOfOne DEF Open
    <2>3. open \in Seq(Calls) /\ Open(open) /\ <<>> \in Seq(Calls) /\ Open(<<>>)
      BY <1>5, FramesOfOne, FramesOfEmpty DEF Open, Lines
    <2>4. /\ open \o tail \in Seq(Calls) /\ Open(open \o tail)
          /\ <<>> \o tail \in Seq(Calls) /\ Open(<<>> \o tail)
      BY <2>2, <2>3, OpenConcat
    <2>5. \/ Return(<<>>) \/ \E lost : Return(After(lost))
          \/ Return(open \o tail) \/ Return(<<>> \o tail)
      BY <1>13 DEF MaybeAdmit
    <2> QED BY <1>2, <1>7, <2>4, <2>5
  <1>14. CASE AdmitTail
    <2>1. "JOINED" \in Lines
      BY DEF Lines
    <2> QED BY <1>3, <1>4, <1>5, <1>14, <2>1 DEF AdmitTail
  <1>15. CASE CloseLobbyTail
    <2>1. "WAITING_FOR_OTHERS" \in Lines
      BY DEF Lines
    <2> QED BY <1>3, <1>5, <1>8, <1>9, <1>15, <2>1 DEF CloseLobbyTail
  <1>16. CASE Expire
    BY <1>2, <1>16 DEF Expire, IInv, NeverExpires, SetupExpired
  <1>17. ~ExpireSlot /\ ~ExpireTail
    BY <1>1, RunningMarked DEF ExpireSlot, ExpireTail, TimerFns, IInv, NeverExpires
  <1>18. CASE Chase
    <2> DEFINE first == <<CallOn("broadcast_positions", 0)>>
               last == <<Call("reevaluate_state")>>
    <2>1. first \in Seq(Calls) /\ Open(first) /\ last \in Seq(Calls) /\ Open(last)
      BY <1>5, <1>6, FramesOfOne DEF Open
    <2>2. <<>> \in Seq(Calls) /\ Open(<<>>)
      BY FramesOfEmpty DEF Open
    <2>3. /\ first \o <<>> \in Seq(Calls) /\ Open(first \o <<>>)
          /\ first \o last \in Seq(Calls) /\ Open(first \o last)
      BY <2>1, <2>2, OpenConcat
    <2>4. \/ Return(<<>>) \/ Return(first \o <<>>) \/ Return(first \o last)
      BY <1>18 DEF Chase
    <2> QED BY <1>2, <2>3, <2>4
  <1> QED BY <1>10, <1>11, <1>12, <1>13, <1>14, <1>15, <1>16, <1>17, <1>18 DEF Step

(* One CloseFns call on the stack makes way for one. *)
LEMMA ReturnCloseOnce ==
  ASSUME StackOK, todo # <<>>, NEW calls \in Seq(Calls), Return(calls), CloseOnce,
         \/ Open(calls)
         \/ /\ Head(todo).fn \in CloseFns
            /\ \A j, k \in 1 .. Len(calls) :
                  calls[j].fn \in CloseFns /\ calls[k].fn \in CloseFns => j = k
  PROVE  CloseOnce'
  <1>1. /\ Tail(todo) \in Seq(Calls) /\ Len(Tail(todo)) = Len(todo) - 1
        /\ \A k \in 1 .. Len(todo) - 1 : Tail(todo)[k] = todo[k + 1]
        /\ Len(todo) \in Nat \ {0} /\ Len(calls) \in Nat /\ Head(todo) = todo[1]
    BY DEF StackOK
  <1>2. /\ Len(todo') = Len(calls) + Len(todo) - 1
        /\ \A k \in 1 .. Len(calls) + Len(todo) - 1 :
              todo'[k] = IF k <= Len(calls) THEN calls[k] ELSE Tail(todo)[k - Len(calls)]
    <2>1. todo' = calls \o Tail(todo)
      BY DEF Return
    <2> QED BY <1>1, <2>1
  <1> DEFINE Below(k) == k - Len(calls) + 1
  <1>3. ASSUME NEW k \in 1 .. Len(todo'), k > Len(calls)
        PROVE  Below(k) \in 2 .. Len(todo) /\ todo'[k] = todo[Below(k)]
    <2>1. k - Len(calls) \in 1 .. Len(todo) - 1
      BY <1>1, <1>2, <1>3
    <2>2. todo'[k] = todo[k - Len(calls) + 1]
      BY <1>1, <1>2, <1>3, <2>1
    <2> QED BY <1>1, <2>1, <2>2
  <1>4. ASSUME NEW k \in 1 .. Len(todo'), ~(k > Len(calls))
        PROVE  k \in 1 .. Len(calls) /\ todo'[k] = calls[k] /\ calls[k] \in Frames(calls)
    BY <1>1, <1>2, <1>4 DEF Frames
  <1>5. SUFFICES ASSUME NEW j \in 1 .. Len(todo'), NEW k \in 1 .. Len(todo'), j <= k,
                        todo'[j].fn \in CloseFns, todo'[k].fn \in CloseFns
                 PROVE  j = k
    BY <1>1, <1>2 DEF CloseOnce
  <1>6. CASE j > Len(calls)
    <2>1. k > Len(calls)
      BY <1>1, <1>2, <1>5, <1>6
    <2>2. /\ Below(j) \in 2 .. Len(todo) /\ todo[Below(j)].fn \in CloseFns
          /\ Below(k) \in 2 .. Len(todo) /\ todo[Below(k)].fn \in CloseFns
      BY <1>3, <1>5, <1>6, <2>1
    <2> HIDE DEF Below
    <2>3. Below(j) = Below(k)
      BY <1>1, <2>2 DEF CloseOnce
    <2> QED BY <1>1, <1>2, <2>3 DEF Below
  <1>7. CASE ~(j > Len(calls))
    <2>1. ~Open(calls)
      BY <1>4, <1>5, <1>7 DEF Open
    <2>2. CASE k > Len(calls)
      <3>1. 1 = Below(k)
        BY <1>1, <1>3, <1>5, <2>1, <2>2 DEF CloseOnce
      <3> QED BY <1>3, <2>2, <3>1
    <2>3. CASE ~(k > Len(calls))
      BY <1>4, <1>5, <1>7, <2>1, <2>3
    <2> QED BY <2>2, <2>3
  <1> QED BY <1>6, <1>7

(* The tail, when it runs, is the last of its kind. *)
LEMMA TailOnce ==
  ASSUME StackOK, todo # <<>>, CloseOnce, Head(todo).fn \in CloseFns
  PROVE  \A c \in Frames(Tail(todo)) : c.fn \notin CloseFns
  <1>1. /\ Len(Tail(todo)) = Len(todo) - 1 /\ Len(todo) \in Nat \ {0}
        /\ \A k \in 1 .. Len(todo) - 1 : Tail(todo)[k] = todo[k + 1]
        /\ Head(todo) = todo[1]
    BY DEF StackOK
  <1>2. SUFFICES ASSUME NEW k \in 1 .. Len(todo) - 1, Tail(todo)[k].fn \in CloseFns
                 PROVE  FALSE
    BY <1>1 DEF Frames
  <1>3. k + 1 \in 1 .. Len(todo) /\ 1 \in 1 .. Len(todo) /\ todo[k + 1].fn \in CloseFns
    BY <1>1, <1>2
  <1>4. k + 1 = 1
    BY <1>1, <1>3 DEF CloseOnce
  <1> QED BY <1>2, <1>4

-----------------------------------------------------------------------------
(* StartInv under the steps. *)

LEMMA CloseLobbyStarts ==
  ASSUME TypeOK, StartInv, CloseLobby
  PROVE  StartInv'
  <1>1. StackOK /\ todo # <<>> /\ Head(todo).fn = "close_lobby_if_needed"
    BY TypeParts DEF CloseLobby, Running
  <1>2. Head(todo).fn \in CloseFns
    BY <1>1 DEF CloseFns
  <1>3. CASE Return(<<>>) /\ UNCHANGED <<players, match>>
    <2>1. <<>> \in Seq(Calls) /\ Open(<<>>)
      BY FramesOfEmpty DEF Open
    <2>2. CloseOnce'
      BY <1>1, <1>3, <2>1, ReturnCloseOnce DEF StartInv
    <2>3. Frames(todo') \subseteq Frames(todo)
      BY <1>1, <1>3, <2>1, ReturnFrames, FramesOfEmpty DEF StackOK
    <2> QED BY <1>3, <2>2, <2>3 DEF StartInv, Starts, match
  <1>4. CASE LobbyExpired /\ phase' = "SETUP" /\ UNCHANGED round_no
             /\ Return(<<Broadcast("LOBBY_CLOSED"), Broadcast("SETUP_OPEN"),
                         Call("close_lobby_if_needed.tail")>>)
    <2> DEFINE calls == <<Broadcast("LOBBY_CLOSED"), Broadcast("SETUP_OPEN"),
                          Call("close_lobby_if_needed.tail")>>
    <2>1. calls \in Seq(Calls)
      BY CallTypes DEF Lines, Procedures
    <2>2. \A j, k \in 1 .. Len(calls) :
             calls[j].fn \in CloseFns /\ calls[k].fn \in CloseFns => j = k
      <3>1. Len(calls) = 3 /\ calls[1].fn \notin CloseFns /\ calls[2].fn \notin CloseFns
        BY DEF Broadcast, CloseFns
      <3> HIDE DEF calls
      <3>2. \A j \in 1 .. Len(calls) : calls[j].fn \in CloseFns => j = 3
        <4>1. \A j \in 1 .. 3 : j = 1 \/ j = 2 \/ j = 3
          OBVIOUS
        <4> QED BY <3>1, <4>1
      <3> QED BY <3>2
    <2>3. CloseOnce'
      BY <1>1, <1>2, <1>4, <2>1, <2>2, ReturnCloseOnce DEF StartInv
    <2>4. round_no' = 0
      BY <1>4 DEF LobbyExpired, StartInv, Starts
    <2> QED BY <2>3, <2>4 DEF StartInv, Starts
  <1> QED BY <1>3, <1>4 DEF CloseLobby

LEMMA StepStarts ==
  ASSUME TypeOK, IInv, StartInv, Step
  PROVE  StartInv'
  <1>1. CASE CloseLobby
    BY <1>1, CloseLobbyStarts
  <1>2. CASE ~CloseLobby
    <2>1. PICK calls \in Seq(Calls) : Return(calls) /\ Open(calls)
      BY <1>2, StepOpens
    <2>2. StackOK /\ todo # <<>>
      BY StepReturns
    <2>3. CloseOnce'
      BY <2>1, <2>2, ReturnCloseOnce DEF StartInv
    <2>4. /\ Frames(todo') = Frames(calls) \cup Frames(Tail(todo))
          /\ Frames(todo) = {Head(todo)} \cup Frames(Tail(todo))
      BY <2>1, <2>2, ReturnFrames DEF StackOK
    <2>5. \A c \in Frames(todo') : c.fn \in CloseFns => c \in Frames(Tail(todo))
      BY <2>1, <2>4 DEF Open
    <2>6. \A c \in Frames(todo') :
             c.fn = "close_lobby_if_needed.tail" => c \in Frames(Tail(todo))
      BY <2>5 DEF CloseFns
    <2>7. ASSUME UNCHANGED round_no, phase' \in {"LOBBY_OPEN", "SETUP"} => phase' = phase
          PROVE  StartInv'
      BY <2>3, <2>4, <2>6, <2>7 DEF StartInv, Starts
    <2>8. CASE EndGame
      BY <2>7, <2>8 DEF EndGame
    <2>9. CASE StartActiveRound /\ phase = "SETUP"
      <3>1. phase' = "ROUND_ACTIVE" /\ round_no' = 1
        BY <2>9 DEF StartActiveRound, StartRound, StartInv, Starts
      <3> QED BY <2>3, <3>1 DEF StartInv, Starts
    <2>10. CASE StartActiveRound /\ Running("close_lobby_if_needed.tail")
      <3>1. Head(todo).fn = "close_lobby_if_needed.tail" /\ Head(todo) \in Frames(todo)
        BY <2>4, <2>10 DEF Running
      <3>2. round_no \in Nat /\ round_no <= 1
        BY <3>1 DEF TypeOK, StartInv, Starts
      <3>3. phase' = "ROUND_ACTIVE" /\ round_no' = round_no + 1
        BY <2>10 DEF StartActiveRound, StartRound
      <3>4. \A c \in Frames(todo') : c.fn # "close_lobby_if_needed.tail"
        BY <2>2, <2>6, <3>1, TailOnce DEF StartInv, CloseFns
      <3> QED BY <2>3, <3>2, <3>3, <3>4 DEF StartInv, Starts
    <2>11. CASE UNCHANGED match
      BY <2>7, <2>11 DEF match
    <2>12. CASE Reevaluate
      <3>1. phase \in Phases
        BY DEF TypeOK
      <3>2. ReevaluateLobby => UNCHANGED <<phase, round_no>>
        BY DEF ReevaluateLobby
      <3> QED BY <2>7, <2>8, <2>9, <2>11, <2>12, <3>1, <3>2
              DEF Reevaluate, SettleSetup, ReevaluateRound, Phases
    <2>13. CASE CloseLobbyTail
      BY <2>8, <2>10, <2>11, <2>13 DEF CloseLobbyTail
    <2>14. CASE MaybeAdmit
      BY <2>7, <2>14 DEF MaybeAdmit, match
    <2>15. ~ExpireSlot /\ ~ExpireTail
      BY <2>2, RunningMarked DEF ExpireSlot, ExpireTail, TimerFns, IInv, NeverExpires
    <2>16. QueueBroadcast \/ BroadcastGameState \/ BroadcastPositions \/ AdmitTail
           \/ Expire \/ Chase => UNCHANGED match
      BY DEF QueueBroadcast, BroadcastGameState, BroadcastPositions, AdmitTail, Expire, Chase
    <2> QED BY <1>2, <2>11, <2>12, <2>13, <2>14, <2>15, <2>16 DEF Step
  <1> QED BY <1>1, <1>2

(* What an idle server is asked to do. *)
LEMMA IdleStarts ==
  ASSUME StartInv, todo' \in Seq(Calls),
         \/ UNCHANGED <<phase, round_no>>
         \/ phase' = "LOBBY_OPEN" /\ round_no' = 0,
         \/ \A c \in Frames(todo') : c.fn \notin CloseFns
         \/ Timers
  PROVE  StartInv'
  <1>1. CASE \A c \in Frames(todo') : c.fn \notin CloseFns
    <2>1. CloseOnce'
      BY <1>1 DEF CloseOnce, Frames
    <2>2. \A c \in Frames(todo') : c.fn # "close_lobby_if_needed.tail"
      BY <1>1 DEF CloseFns
    <2> QED BY <2>1, <2>2 DEF StartInv, Starts
  <1>2. CASE Timers
    <2> DEFINE calls == <<Call("close_lobby_if_needed"),
                          Call("expire_unready_setup_players"), Call("chase")>>
    <2>1. todo' = calls
      BY <1>2 DEF Timers
    <2>2. Len(calls) = 3 /\ calls[2].fn \notin CloseFns /\ calls[3].fn \notin CloseFns
      BY DEF Call, CloseFns
    <2>3. Frames(calls) = {Call("close_lobby_if_needed"),
                           Call("expire_unready_setup_players"), Call("chase")}
      BY FramesOfThree
    <2>4. \A c \in Frames(todo') : c.fn # "close_lobby_if_needed.tail"
      BY <2>1, <2>3 DEF Call
    <2> HIDE DEF calls
    <2>5. \A j \in 1 .. Len(calls) : calls[j].fn \in CloseFns => j = 1
      <3>1. \A j \in 1 .. 3 : j = 1 \/ j = 2 \/ j = 3
        OBVIOUS
      <3> QED BY <2>2, <3>1
    <2>6. CloseOnce'
      BY <2>1, <2>5 DEF CloseOnce
    <2> QED BY <2>4, <2>6 DEF StartInv, Starts
  <1> QED BY <1>1, <1>2

LEMMA CommandStarts ==
  ASSUME TypeOK, StartInv, NEW i \in Slots,
         Accept(i) \/ Command(i) \/ Leave(i) \/ FallBehind(i) \/ CatchUp(i)
  PROVE  StartInv'
  <1>1. Idle /\ todo' \in Seq(Calls)
    <2>1. StackOK'
      BY TypeParts, CommandType
    <2> QED BY <2>1 DEF StackOK, Accept, Command, Hello, Choose, Spawn, GetState, Rematch,
               Leave, FallBehind, CatchUp
  <1>2. todo' = todo => \A c \in Frames(todo') : c.fn \notin CloseFns
    BY <1>1, FramesOfEmpty DEF Idle
  <1>3. CASE Accept(i) \/ Hello(i) \/ FallBehind(i) \/ CatchUp(i) \/ Rematch(i)
    BY <1>1, <1>2, <1>3, IdleStarts
       DEF Accept, Hello, FallBehind, CatchUp, Rematch, FreshMatch, match
  <1>4. CASE (\E c \in Picks : Choose(i, c)) \/ Spawn(i)
    <2>1. todo' = <<CallOn("maybe_admit_player", i)>> /\ UNCHANGED match
      BY <1>4 DEF Choose, Spawn
    <2>2. \A c \in Frames(todo') : c.fn \notin CloseFns
      BY <2>1, FramesOfOne DEF CallOn, CloseFns
    <2> QED BY <1>1, <2>1, <2>2, IdleStarts DEF match
  <1>5. ASSUME \A c \in Frames(todo') : c.fn \notin TimerFns \cup AdmitFns, UNCHANGED match
        PROVE  StartInv'
    BY <1>1, <1>5, IdleStarts DEF match, TimerFns, CloseFns
  <1>6. CASE GetState(i)
    BY <1>5, <1>6, AfterPlain DEF GetState
  <1>7. CASE Leave(i)
    <2> DEFINE last == <<Call("reevaluate_state")>>
    <2>1. todo' = Farewell(i) \o last /\ UNCHANGED match
      BY <1>7 DEF Leave
    <2>2. Frames(todo') = Frames(Farewell(i)) \cup Frames(last)
      <3>1. Farewell(i) \in Seq(Calls) /\ last \in Seq(Calls)
        BY ChaselessFarewell, ChaselessReevaluate
      <3> QED BY <2>1, <3>1, CallFrames
    <2>3. \A c \in Frames(todo') : c.fn \notin TimerFns \cup AdmitFns
      BY <2>2, FarewellPlain, FramesOfOne, Unmarked DEF Call
    <2> QED BY <1>5, <2>1, <2>3
  <1> QED BY <1>3, <1>4, <1>6, <1>7 DEF Command

LEMMA StartStep == TypeOK /\ IInv /\ StartInv /\ [Next]_vars => StartInv'
  <1> SUFFICES ASSUME TypeOK, IInv, StartInv, [Next]_vars PROVE StartInv'
    OBVIOUS
  <1>1. todo' \in Seq(Calls)
    BY TypeStep DEF TypeOK
  <1>2. Idle => \A c \in Frames(todo) : c.fn \notin CloseFns
    BY FramesOfEmpty DEF Idle
  <1>3. CASE Step
    BY <1>3, StepStarts
  <1>4. CASE Timers
    BY <1>1, <1>4, IdleStarts DEF Timers, match
  <1>5. CASE JoinWindowEnds \/ SetupWindowEnds
    BY <1>1, <1>2, <1>5, IdleStarts DEF JoinWindowEnds, SetupWindowEnds
  <1>6. ASSUME NEW i \in Slots,
               Accept(i) \/ Command(i) \/ Leave(i) \/ FallBehind(i) \/ CatchUp(i)
        PROVE  StartInv'
    BY <1>6, CommandStarts
  <1>7. CASE UNCHANGED vars
    BY <1>7 DEF vars, match, StartInv, CloseOnce, Starts, Frames
  <1> QED BY <1>3, <1>4, <1>5, <1>6, <1>7 DEF Next

LEMMA StartInit == Init => StartInv
  <1> SUFFICES ASSUME Init PROVE StartInv
    OBVIOUS
  <1>1. todo = <<>> /\ round_no = 0 /\ Frames(todo) = {}
    BY FramesOfEmpty DEF Init
  <1> QED BY <1>1 DEF StartInv, CloseOnce, Starts, Frames

-----------------------------------------------------------------------------
(* One match starts its round twice at most, however the clients that its
   broadcasts drop nest the starts: once when the reevaluation of a drop finds
   everybody ready, and once when close_lobby_if_needed goes on. *)
THEOREM AtMostTwoStartsAlways == Spec => []AtMostTwoStarts
  <1>1. StartInv => AtMostTwoStarts
    BY DEF StartInv, Starts, AtMostTwoStarts
  <1> QED BY <1>1, StartInit, StartStep, TypeCorrect, Invariant, PTL DEF Spec

-----------------------------------------------------------------------------
(* Who has been told what the match is at.  A line about a part of the match
   that is over by the time it is queued is followed by another one: below it on
   the stack is the tail that queues that. *)

EarlyLines == {"LOBBY_OPEN", "LOBBY_CLOSED", "SETUP_OPEN"}
Early(c) == \E line \in EarlyLines : c = Broadcast(line)
TailFns == {"maybe_admit_player.tail", "close_lobby_if_needed.tail"}

Starting == todo # <<>> /\ Head(todo) = Broadcast("ROUND_START")
Closing == \E c \in Frames(todo) : c.fn = "close_lobby_if_needed.tail"

(* A stack that announces a round at once, and nothing early but above a tail. *)
Tame(q) ==
    \A k \in 1 .. Len(q) :
        /\ q[k] = Broadcast("ROUND_START") => k = 1
        /\ Early(q[k]) => \E j \in k + 1 .. Len(q) : q[j].fn \in TailFns

Told == phase \in {"ROUND_ACTIVE", "GAME_OVER"} => \A i \in Admitted : told[i] = StateLine(i)

(* All have been told, or are going to be by the running call or by the tail. *)
InformInv ==
    /\ Tame(todo)
    /\ Starting => phase = "ROUND_ACTIVE"
    /\ Closing \/ Starting \/ Told

Tidy(c) == c # Broadcast("ROUND_START") /\ ~Early(c)

LEMMA TidyCalls ==
  /\ \A line : line \notin EarlyLines \cup {"ROUND_START"} => Tidy(Broadcast(line))
  /\ \A c : c.fn # "queue_broadcast" => Tidy(c)
  <1>1. ASSUME NEW line, line \notin EarlyLines \cup {"ROUND_START"} PROVE Tidy(Broadcast(line))
    <2>1. \A other : Broadcast(line) = Broadcast(other) => line = other
      <3>1. \A other : Broadcast(other).line = other
        BY DEF Broadcast
      <3> QED BY <3>1
    <2> QED BY <1>1, <2>1 DEF Tidy, Early
  <1>2. \A line : Broadcast(line).fn = "queue_broadcast"
    BY DEF Broadcast
  <1> QED BY <1>1, <1>2 DEF Tidy, Early

LEMMA TidyTame ==
  ASSUME NEW q, \A c \in Frames(q) : Tidy(c)
  PROVE  Tame(q) /\ \A k \in 1 .. Len(q) : q[k] # Broadcast("ROUND_START")
  BY DEF Tame, Tidy, Frames

LEMMA TidyConcat ==
  ASSUME NEW p \in Seq(Calls), NEW q \in Seq(Calls),
         \A c \in Frames(p) : Tidy(c), \A c \in Frames(q) : Tidy(c)
  PROVE  p \o q \in Seq(Calls) /\ \A c \in Frames(p \o q) : Tidy(c)
  <1>1. Frames(p \o q) = Frames(p) \cup Frames(q)
    BY CallFrames
  <1> QED BY <1>1

LEMMA ConcatOfOnes ==
  ASSUME NEW c \in Calls, NEW d \in Calls
  PROVE  <<c>> \o <<d>> = <<c, d>> /\ <<>> \o <<d>> = <<d>> /\ <<c>> \o <<>> = <<c>>
  <1>1. <<c>> \in Seq(Calls) /\ <<d>> \in Seq(Calls)
    OBVIOUS
  <1>2. <<c, d>> \in Seq(Calls) /\ Len(<<c, d>>) = 2 /\ <<c, d>>[1] = c /\ <<c, d>>[2] = d
    OBVIOUS
  <1>3. /\ <<c>> \o <<d>> \in Seq(Calls) /\ Len(<<c>> \o <<d>>) = 2
        /\ (<<c>> \o <<d>>)[1] = c /\ (<<c>> \o <<d>>)[2] = d
    OBVIOUS
  <1>4. \A k \in 1 .. 2 : k = 1 \/ k = 2
    OBVIOUS
  <1>5. <<c>> \o <<d>> = <<c, d>>
    BY <1>2, <1>3, <1>4, SeqEqual
  <1>6. <<>> \o <<d>> = <<d>> /\ <<c>> \o <<>> = <<c>>
    BY <1>1, ConcatEmptySeq
  <1> QED BY <1>5, <1>6

(* Where the calls of the stack are after a return. *)
LEMMA ReturnPlaces ==
  ASSUME StackOK, todo # <<>>, NEW calls \in Seq(Calls), Return(calls)
  PROVE  /\ Len(calls) \in Nat /\ Len(todo) \in Nat \ {0}
         /\ Len(todo') = Len(calls) + Len(todo) - 1
         /\ \A k \in 1 .. Len(calls) : todo'[k] = calls[k]
         /\ \A k \in 2 .. Len(todo) : todo'[k + Len(calls) - 1] = todo[k]
  <1>1. /\ Tail(todo) \in Seq(Calls) /\ Len(Tail(todo)) = Len(todo) - 1
        /\ \A k \in 1 .. Len(todo) - 1 : Tail(todo)[k] = todo[k + 1]
        /\ Len(todo) \in Nat \ {0} /\ Len(calls) \in Nat
    BY DEF StackOK
  <1>2. /\ Len(todo') = Len(calls) + Len(todo) - 1
        /\ \A k \in 1 .. Len(calls) + Len(todo) - 1 :
              todo'[k] = IF k <= Len(calls) THEN calls[k] ELSE Tail(todo)[k - Len(calls)]
    <2>1. todo' = calls \o Tail(todo)
      BY DEF Return
    <2> QED BY <1>1, <2>1
  <1>3. \A k \in 1 .. Len(calls) : todo'[k] = calls[k]
    BY <1>1, <1>2
  <1>4. ASSUME NEW k \in 2 .. Len(todo) PROVE todo'[k + Len(calls) - 1] = todo[k]
    <2>1. /\ k + Len(calls) - 1 \in 1 .. Len(calls) + Len(todo) - 1
          /\ ~(k + Len(calls) - 1 <= Len(calls))
          /\ k + Len(calls) - 1 - Len(calls) = k - 1
          /\ k - 1 \in 1 .. Len(todo) - 1 /\ k - 1 + 1 = k
      BY <1>1
    <2> QED BY <1>1, <1>2, <2>1
  <1> QED BY <1>1, <1>2, <1>3, <1>4

(* A tame list of calls leaves the stack tame. *)
LEMMA ReturnTame ==
  ASSUME StackOK, todo # <<>>, Tame(todo), NEW calls \in Seq(Calls), Return(calls), Tame(calls)
  PROVE  /\ Tame(todo')
         /\ (\A k \in 1 .. Len(calls) : calls[k] # Broadcast("ROUND_START")) => ~Starting'
  <1> DEFINE up == Len(calls) - 1
  <1>1. /\ Len(calls) \in Nat /\ Len(todo) \in Nat \ {0} /\ Len(todo') = up + Len(todo) /\ up \in Int
        /\ \A k \in 1 .. Len(calls) : todo'[k] = calls[k]
        /\ \A k \in 2 .. Len(todo) : todo'[k + up] = todo[k]
    <2>1. \A k \in 2 .. Len(todo) : k + Len(calls) - 1 = k + up
      BY ReturnPlaces
    <2> QED BY <2>1, ReturnPlaces
  <1>2. ASSUME NEW k \in 1 .. Len(todo'), ~(k \in 1 .. Len(calls))
        PROVE  k - up \in 2 .. Len(todo) /\ todo'[k] = todo[k - up]
    <2>1. k - up \in 2 .. Len(todo) /\ k - up + up = k
      BY <1>1, <1>2
    <2> QED BY <1>1, <2>1
  <1>3. \A k \in 1 .. Len(calls) : k \in 1 .. Len(todo')
    BY <1>1
  <1>4. ASSUME NEW k \in 1 .. Len(todo'), todo'[k] = Broadcast("ROUND_START")
        PROVE  k \in 1 .. Len(calls) /\ calls[k] = Broadcast("ROUND_START") /\ k = 1
    <2>1. k \in 1 .. Len(calls)
      <3> SUFFICES ASSUME ~(k \in 1 .. Len(calls)) PROVE FALSE
        OBVIOUS
      <3>1. k - up \in 2 .. Len(todo) /\ todo[k - up] = Broadcast("ROUND_START")
        BY <1>2, <1>4
      <3>2. k - up \in 1 .. Len(todo) /\ k - up # 1
        BY <1>1, <3>1
      <3> QED BY <3>1, <3>2 DEF Tame
    <2> QED BY <1>1, <1>4, <2>1 DEF Tame
  <1>5. ASSUME NEW k \in 1 .. Len(todo'), Early(todo'[k])
        PROVE  \E j \in k + 1 .. Len(todo') : todo'[j].fn \in TailFns
    <2>1. CASE k \in 1 .. Len(calls)
      <3>1. PICK j \in k + 1 .. Len(calls) : calls[j].fn \in TailFns
        BY <1>1, <1>5, <2>1 DEF Tame
      <3>2. j \in 1 .. Len(calls)
        BY <1>1, <2>1
      <3>3. j \in k + 1 .. Len(todo')
        BY <1>1, <2>1
      <3> QED BY <1>1, <3>1, <3>2, <3>3
    <2>2. CASE ~(k \in 1 .. Len(calls))
      <3>1. k - up \in 2 .. Len(todo) /\ Early(todo[k - up])
        BY <1>2, <1>5, <2>2
      <3>2. k - up \in 1 .. Len(todo)
        BY <1>1, <3>1
      <3>3. PICK j \in k - up + 1 .. Len(todo) : todo[j].fn \in TailFns
        BY <3>1, <3>2 DEF Tame
      <3>4. j \in 2 .. Len(todo) /\ j + up \in k + 1 .. Len(todo')
        BY <1>1, <3>1, <3>3
      <3> QED BY <1>1, <3>3, <3>4
    <2> QED BY <2>1, <2>2
  <1>6. ASSUME \A k \in 1 .. Len(calls) : calls[k] # Broadcast("ROUND_START"), Starting'
        PROVE  FALSE
    <2>1. todo' \in Seq(Calls) /\ todo' # <<>>
      BY <1>6, ReturnFrames DEF StackOK, Starting
    <2>2. 1 \in 1 .. Len(todo') /\ Head(todo') = todo'[1]
      BY <2>1
    <2> QED BY <1>4, <1>6, <2>2 DEF Starting
  <1> HIDE DEF up
  <1> QED BY <1>4, <1>5, <1>6 DEF Tame

(* Every step leaves the stack tame, and a round about to be announced is one
   that it started. *)
LEMMA StepTame ==
  ASSUME TypeOK, IInv, Tame(todo), Step
  PROVE  Tame(todo') /\ (StartActiveRound => Starting') /\ (~StartActiveRound => ~Starting')
  <1> DEFINE Goal == Tame(todo') /\ ~Starting'
  <1>0. StackOK /\ todo # <<>>
    BY StepReturns
  <1>1. ASSUME NEW calls \in Seq(Calls), Return(calls), \A c \in Frames(calls) : Tidy(c)
        PROVE  Goal
    BY <1>0, <1>1, TidyTame, ReturnTame
  <1>2. StartActiveRound => Tame(todo') /\ Starting'
    <2> SUFFICES ASSUME StartActiveRound PROVE Tame(todo') /\ Starting'
      OBVIOUS
    <2> DEFINE calls == <<Broadcast("ROUND_START"), CallOn("broadcast_positions", 0)>>
    <2>1. calls \in Seq(Calls) /\ Return(calls)
      BY CallTypes, MatchServerAssumption DEF Lines, StartActiveRound
    <2>2. Len(calls) = 2 /\ calls[1] = Broadcast("ROUND_START")
          /\ calls[2] = CallOn("broadcast_positions", 0)
      OBVIOUS
    <2>3. Tidy(calls[2])
      BY <2>2, TidyCalls DEF CallOn
    <2>4. ~Early(Broadcast("ROUND_START"))
      <3>1. \A line : Broadcast(line).line = line
        BY DEF Broadcast
      <3> QED BY <3>1 DEF Early, EarlyLines
    <2> HIDE DEF calls
    <2>5. Tame(calls)
      <3>1. \A k \in 1 .. Len(calls) : k = 1 \/ k = 2
        BY <2>2
      <3> QED BY <2>2, <2>3, <2>4, <3>1 DEF Tame, Tidy
    <2>6. Tame(todo')
      BY <1>0, <2>1, <2>5, ReturnTame
    <2>7. Starting'
      <3>1. todo' \in Seq(Calls)
        BY <1>0, <2>1, ReturnFrames DEF StackOK
      <3>2. 1 \in 1 .. Len(todo') /\ todo'[1] = Broadcast("ROUND_START")
        <4>1. /\ Len(todo') = 2 + Len(todo) - 1 /\ Len(todo) \in Nat \ {0}
              /\ \A k \in 1 .. 2 : todo'[k] = calls[k]
          BY <1>0, <2>1, <2>2, ReturnPlaces
        <4> QED BY ONLY <2>2, <4>1
      <3> QED BY <3>1, <3>2 DEF Starting
    <2> QED BY <2>6, <2>7
  <1>3. Return(<<>>) => Goal
    <2>1. <<>> \in Seq(Calls) /\ \A c \in Frames(<<>>) : Tidy(c)
      BY FramesOfEmpty
    <2> QED BY <1>1, <2>1
  <1>4. ASSUME NEW c \in Calls, Tidy(c), Return(<<c>>) PROVE Goal
    <2>1. <<c>> \in Seq(Calls) /\ \A d \in Frames(<<c>>) : Tidy(d)
      BY <1>4, FramesOfOne
    <2> QED BY <1>1, <1>4, <2>1
  <1>5. ASSUME NEW c \in Calls, NEW d \in Calls, Tidy(c), Tidy(d), Return(<<c, d>>) PROVE Goal
    <2>1. <<c, d>> \in Seq(Calls) /\ \A e \in Frames(<<c, d>>) : Tidy(e)
      BY <1>5, FramesOfTwo
    <2> QED BY <1>1, <1>5, <2>1
  <1>6. /\ \A line \in {"PLAYER", "JOINED", "WAITING_FOR_OTHERS"} :
              Broadcast(line) \in Calls /\ Tidy(Broadcast(line))
        /\ Call("reevaluate_state") \in Calls /\ Tidy(Call("reevaluate_state"))
        /\ Call("broadcast_game_state") \in Calls /\ Tidy(Call("broadcast_game_state"))
        /\ \A i \in 0 .. MaxPlayers : /\ CallOn("broadcast_positions", i) \in Calls
                                      /\ Tidy(CallOn("broadcast_positions", i))
    <2>1. \A line \in {"PLAYER", "JOINED", "WAITING_FOR_OTHERS"} :
             Broadcast(line) \in Calls /\ Tidy(Broadcast(line))
      BY CallTypes, TidyCalls DEF Lines, EarlyLines
    <2>2. /\ Call("reevaluate_state") \in Calls /\ Tidy(Call("reevaluate_state"))
          /\ Call("broadcast_game_state") \in Calls /\ Tidy(Call("broadcast_game_state"))
      BY CallTypes, TidyCalls DEF Call, Procedures
    <2>3. \A i \in 0 .. MaxPlayers : /\ CallOn("broadcast_positions", i) \in Calls
                                     /\ Tidy(CallOn("broadcast_positions", i))
      BY CallTypes, TidyCalls DEF CallOn
    <2> QED BY <2>1, <2>2, <2>3
  <1>7. 0 \in 0 .. MaxPlayers
    BY MatchServerAssumption
  <1>8. ASSUME NEW lost, Return(After(lost)) PROVE Goal
    BY <1>3, <1>4, <1>6, <1>8 DEF After
  <1> SUFFICES Goal \/ StartActiveRound
    BY <1>2
  <1> HIDE DEF Goal
  <1>9. SettleSetup \/ EndGame \/ ReevaluateLobby \/ ReevaluateRound => Goal \/ StartActiveRound
    BY <1>3 DEF SettleSetup, EndGame, ReevaluateLobby, ReevaluateRound
  <1>10. CASE QueueBroadcast \/ BroadcastGameState
    BY <1>8, <1>10 DEF QueueBroadcast, BroadcastGameState
  <1>11. CASE BroadcastPositions
    <2>1. ASSUME NEW i \in Admitted,
                 Return(<<Broadcast("PLAYER"), CallOn("broadcast_positions", i + 1)>>)
          PROVE  Goal
      <3>1. i + 1 \in 0 .. MaxPlayers
        BY MatchServerAssumption DEF TypeOK, Admitted, Slots
      <3> QED BY <1>5, <1>6, <2>1, <3>1
    <2> QED BY <1>3, <1>11, <2>1 DEF BroadcastPositions
  <1>12. CASE Reevaluate
    <2>1. phase \in Phases
      BY DEF TypeOK
    <2> QED BY <1>3, <1>9, <1>12, <2>1 DEF Reevaluate, Phases
  <1>13. CASE MaybeAdmit
    <2> DEFINE tail == CallOn("maybe_admit_player.tail", Head(todo).slot)
               open == Broadcast("LOBBY_OPEN")
    <2>1. tail \in Calls /\ Tidy(tail) /\ tail.fn \in TailFns /\ open \in Calls
      <3>1. Head(todo).slot \in Slots
        BY <1>0, <1>13, RunningSlot DEF MaybeAdmit, SlotProcedures
      <3>2. tail \in Calls /\ open \in Calls
        BY <3>1, CallTypes DEF SlotProcedures, Lines
      <3> QED BY <3>2, TidyCalls DEF CallOn, TailFns
    <2>2. open # Broadcast("ROUND_START")
      <3>1. \A line : Broadcast(line).line = line
        BY DEF Broadcast
      <3> QED BY <3>1
    <2> HIDE DEF tail, open
    <2>3. <<open>> \o <<tail>> = <<open, tail>> /\ <<>> \o <<tail>> = <<tail>>
      BY <2>1, ConcatOfOnes
    <2>4. ASSUME Return(<<open, tail>>) PROVE Goal
      <3> DEFINE calls == <<open, tail>>
      <3>1. calls \in Seq(Calls) /\ Len(calls) = 2 /\ calls[1] = open /\ calls[2] = tail
        BY <2>1
      <3> HIDE DEF calls
      <3>2. Tame(calls) /\ \A k \in 1 .. Len(calls) : calls[k] # Broadcast("ROUND_START")
        <4>1. \A k \in 1 .. Len(calls) : k = 1 \/ k = 2
          BY <3>1
        <4>2. 2 \in 1 + 1 .. Len(calls)
          BY <3>1
        <4> QED BY <2>1, <2>2, <3>1, <4>1, <4>2 DEF Tame, Tidy
      <3> QED BY <1>0, <2>4, <3>1, <3>2, ReturnTame DEF Goal, calls
    <2>5. \/ Return(<<>>) \/ \E lost : Return(After(lost))
          \/ Return(<<open>> \o <<tail>>) \/ Return(<<>> \o <<tail>>)
      BY <1>13 DEF MaybeAdmit, tail, open
    <2> QED BY <1>3, <1>4, <1>8, <2>1, <2>3, <2>4, <2>5
  <1>14. CASE AdmitTail
    BY <1>4, <1>5, <1>6, <1>14 DEF AdmitTail
  <1>15. CASE CloseLobby
    <2> DEFINE calls == <<Broadcast("LOBBY_CLOSED"), Broadcast("SETUP_OPEN"),
                          Call("close_lobby_if_needed.tail")>>
    <2>1. calls \in Seq(Calls)
      BY CallTypes DEF Lines, Procedures
    <2>2. /\ Len(calls) = 3 /\ calls[1] # Broadcast("ROUND_START")
          /\ calls[2] # Broadcast("ROUND_START")
          /\ Tidy(calls[3]) /\ calls[3].fn \in TailFns
      <3>1. \A line : Broadcast(line).line = line
        BY DEF Broadcast
      <3>2. calls[1].line # "ROUND_START" /\ calls[2].line # "ROUND_START"
        BY <3>1
      <3>3. calls[3].fn = "close_lobby_if_needed.tail"
        BY DEF Call
      <3> QED BY <3>1, <3>2, <3>3, TidyCalls DEF TailFns
    <2>3. ASSUME Return(calls) PROVE Goal
      <3> HIDE DEF calls
      <3>1. Tame(calls) /\ \A k \in 1 .. Len(calls) : calls[k] # Broadcast("ROUND_START")
        <4>1. \A k \in 1 .. Len(calls) : k = 1 \/ k = 2 \/ k = 3
          BY <2>2
        <4>2. 3 \in 1 + 1 .. Len(calls) /\ 3 \in 2 + 1 .. Len(calls)
          BY <2>2
        <4> QED BY <2>2, <4>1, <4>2 DEF Tame, Tidy
      <3> QED BY <1>0, <2>1, <2>3, <3>1, ReturnTame DEF Goal
    <2> QED BY <1>3, <1>15, <2>3 DEF CloseLobby
  <1>16. CASE CloseLobbyTail
    BY <1>4, <1>6, <1>9, <1>16 DEF CloseLobbyTail
  <1>17. CASE Expire
    BY <1>3, <1>17 DEF Expire, IInv, NeverExpires, SetupExpired
  <1>18. ~ExpireSlot /\ ~ExpireTail
    BY <1>0, RunningMarked DEF ExpireSlot, ExpireTail, TimerFns, IInv, NeverExpires
  <1>19. CASE Chase
    <2> DEFINE first == CallOn("broadcast_positions", 0)
               last == Call("reevaluate_state")
    <2>1. first \in Calls /\ Tidy(first) /\ last \in Calls /\ Tidy(last)
      BY <1>6, <1>7
    <2> HIDE DEF first, last
    <2>2. <<first>> \o <<last>> = <<first, last>> /\ <<first>> \o <<>> = <<first>>
      BY <2>1, ConcatOfOnes
    <2>3. \/ Return(<<>>) \/ Return(<<first>> \o <<>>) \/ Return(<<first>> \o <<last>>)
      BY <1>19 DEF Chase, first, last
    <2> QED BY <1>3, <1>4, <1>5, <2>1, <2>2, <2>3
  <1> QED BY <1>10, <1>11, <1>12, <1>13, <1>14, <1>15, <1>16, <1>17, <1>18, <1>19 DEF Step

(* While a match has not begun there is nothing to be told. *)
LEMMA ToldBefore == ASSUME phase' \in {"LOBBY_OPEN", "SETUP"} PROVE Told'
  BY DEF Told

(* Nobody is told anything, and nobody's fate changes. *)
LEMMA ToldStill ==
  ASSUME Told, UNCHANGED <<phase, told>>, Admitted' \subseteq Admitted,
         \A i \in Admitted' : i \in Registered' /\ (WonMatch(i)' <=> WonMatch(i))
  PROVE  Told'
  <1>1. ASSUME NEW i \in Admitted', phase \in {"ROUND_ACTIVE", "GAME_OVER"}
        PROVE  StateLine(i)' = StateLine(i)
    <2>1. i \in Registered /\ i \in Admitted /\ i \in Registered'
      BY DEF Admitted, Registered
    <2> QED BY <1>1, <2>1 DEF StateLine, Verdict
  <1> QED BY <1>1 DEF Told

LEMMA ToldUnchanged == ASSUME Told, UNCHANGED <<players, match>> PROVE Told'
  BY DEF Told, players, match, Admitted, StateLine, Verdict, Registered, WonMatch, LobbyLine

(* Lines are queued, and those dropped that they do not reach: the others stay
   informed when their line, if it is about the match, is a snapshot's. *)
LEMMA ToldQueue ==
  ASSUME TypeOK, NEW said, NEW lost, Queue(said, lost), UNCHANGED phase,
         \A i \in Admitted \ lost :
            phase \in {"ROUND_ACTIVE", "GAME_OVER"} =>
                IF i \in DOMAIN said THEN said[i] = StateLine(i) ELSE told[i] = StateLine(i)
  PROVE  Told'
  <1> SUFFICES ASSUME phase \in {"ROUND_ACTIVE", "GAME_OVER"}, NEW i \in Admitted'
               PROVE  told'[i] = StateLine(i)'
    BY DEF Told
  <1>1. i \in Admitted \ lost /\ i \in Slots /\ i \in Registered /\ i \in Registered'
        /\ (WonMatch(i)' <=> WonMatch(i))
    BY DEF Queue, Admitted, Registered, WonMatch, TypeOK
  <1>2. told'[i] = StateLine(i)
    BY <1>1 DEF Queue
  <1>3. StateLine(i)' = StateLine(i)
    BY <1>1 DEF StateLine, Verdict
  <1> QED BY <1>2, <1>3

(* end_game tells everybody the verdict. *)
LEMMA ToldEndGame ==
  ASSUME TypeOK, EndGame PROVE Told'
  <1>1. PICK lost \in SUBSET (Registered \cap lagging) :
           Queue([i \in Registered |-> Verdict(i)], lost)
    BY DEF EndGame
  <1>2. SUFFICES ASSUME NEW i \in Admitted' PROVE told'[i] = Verdict(i)'
    BY DEF Told, StateLine, EndGame
  <1>3. i \in Admitted \ lost /\ i \in Slots /\ i \in Registered /\ i \in Registered'
        /\ (WonMatch(i)' <=> WonMatch(i))
    BY <1>1 DEF Queue, Admitted, Registered, WonMatch, TypeOK
  <1> QED BY <1>1, <1>3 DEF Queue, Verdict

(* The running broadcast is an early line: a tail waits below it. *)
LEMMA EarlyRunning ==
  ASSUME StackOK, todo # <<>>, Tame(todo), Early(Head(todo))
  PROVE  \E c \in Frames(todo) : c.fn \in TailFns
  <1>1. Len(todo) \in Nat \ {0} /\ Head(todo) = todo[1]
    BY DEF StackOK
  <1>2. PICK j \in 2 .. Len(todo) : todo[j].fn \in TailFns
    BY <1>1 DEF Tame
  <1>3. j \in 1 .. Len(todo)
    BY <1>1
  <1> QED BY <1>2, <1>3 DEF Frames

LEMMA BroadcastInforms ==
  ASSUME TypeOK, IInv, InformInv, ~Closing, QueueBroadcast \/ BroadcastGameState \/ BroadcastPositions
  PROVE  Told'
  <1>1. StackOK /\ todo # <<>>
    BY StepReturns DEF Step
  <1>2. Starting => phase = "ROUND_ACTIVE" /\ QueueBroadcast
    BY DEF InformInv, Starting, BroadcastGameState, BroadcastPositions, Running, Broadcast
  <1>3. Starting \/ Told
    BY DEF InformInv
  <1>4. CASE QueueBroadcast
    <2> DEFINE line == Head(todo).line
    <2>1. PICK lost : Queue([i \in connected |-> Heard(i, line)], lost)
      BY <1>4 DEF QueueBroadcast
    <2>2. UNCHANGED phase
      BY <1>4 DEF QueueBroadcast, match
    <2>3. Head(todo) \in Calls /\ Head(todo).fn = "queue_broadcast"
      BY <1>1, <1>4, FramesOfStack DEF StackOK, QueueBroadcast, Running
    <2>4. line \in Lines /\ Head(todo) = Broadcast(line)
      BY <2>3 DEF Calls, Broadcast, Procedures, SlotProcedures
    <2>5. CASE line = "ROUND_START"
      <3>1. phase = "ROUND_ACTIVE"
        BY <1>1, <1>2, <2>4, <2>5 DEF Starting
      <3>2. \A i : Heard(i, line) = "ROUND_START" /\ StateLine(i) = "ROUND_START"
        BY <2>5, <3>1 DEF Heard, ProgressLines, StateLine
      <3>3. \A i \in Admitted : i \in connected
        BY DEF Admitted
      <3> HIDE DEF line
      <3> QED BY <2>1, <2>2, <3>2, <3>3, ToldQueue
    <2>6. CASE line \in EarlyLines
      <3>1. PICK c \in Frames(todo) : c.fn \in TailFns
        BY <1>1, <2>4, <2>6, EarlyRunning DEF InformInv, Early
      <3>2. c.fn = "maybe_admit_player.tail" /\ c \in Marked
        BY <3>1 DEF Closing, TailFns, Marked, AdmitFns
      <3>3. phase = "LOBBY_OPEN"
        BY <3>2 DEF IInv, TailAdmitsReady
      <3> QED BY <2>2, <3>3, ToldBefore
    <2>7. CASE line # "ROUND_START" /\ line \notin EarlyLines
      <3>1. \A i : Heard(i, line) = told[i]
        BY <2>4, <2>7 DEF Heard, ProgressLines, EarlyLines, Lines
      <3>2. ~Starting
        <4>1. Broadcast("ROUND_START").line = "ROUND_START"
          BY DEF Broadcast
        <4> QED BY <2>7, <4>1 DEF Starting
      <3>3. \A i \in Admitted : phase \in {"ROUND_ACTIVE", "GAME_OVER"} => told[i] = StateLine(i)
        BY <1>3, <3>2 DEF Told
      <3> HIDE DEF line
      <3> QED BY <2>1, <2>2, <3>1, <3>3, ToldQueue
    <2> QED BY <2>5, <2>6, <2>7
  <1>5. CASE BroadcastGameState
    <2>1. PICK lost : Queue([i \in Registered |-> StateLine(i)], lost)
      BY <1>5 DEF BroadcastGameState
    <2>2. UNCHANGED phase /\ \A i \in Admitted : i \in Registered
      BY <1>5 DEF BroadcastGameState, match, Admitted, Registered
    <2> QED BY <2>1, <2>2, ToldQueue
  <1>6. CASE BroadcastPositions
    <2>1. ~Starting
      BY <1>6 DEF Starting, BroadcastPositions, Running, Broadcast
    <2> QED BY <1>3, <1>6, <2>1, ToldUnchanged DEF BroadcastPositions
  <1> QED BY <1>4, <1>5, <1>6

LEMMA StepInforms ==
  ASSUME TypeOK, IInv, InformInv, Step
  PROVE  InformInv'
  <1>1. StackOK /\ todo # <<>>
    BY StepReturns
  <1>2. Tame(todo') /\ (StartActiveRound => Starting') /\ (~StartActiveRound => ~Starting')
    BY StepTame DEF InformInv
  <1>3. StartActiveRound => phase' = "ROUND_ACTIVE"
    BY DEF StartActiveRound, StartRound
  <1> SUFFICES ASSUME ~StartActiveRound PROVE Closing' \/ Told'
    BY <1>2, <1>3 DEF InformInv
  <1>4. EndGame => Told'
    BY ToldEndGame
  <1>5. ~Running("close_lobby_if_needed.tail") \/ EndGame
    <2>1. ~FewerThanTwo(Admitted) => AllAdmittedReady
      BY DEF IInv, AdmittedReady, AllAdmittedReady
    <2>2. CloseLobbyTail => EndGame
      BY <2>1 DEF CloseLobbyTail
    <2>3. Running("close_lobby_if_needed.tail") => CloseLobbyTail
      BY DEF Step, QueueBroadcast, BroadcastGameState, BroadcastPositions, Reevaluate, MaybeAdmit,
             AdmitTail, CloseLobby, Expire, ExpireSlot, ExpireTail, Chase, Running
    <2> QED BY <2>2, <2>3
  <1> SUFFICES ASSUME ~Running("close_lobby_if_needed.tail") PROVE Closing' \/ Told'
    BY <1>4, <1>5
  <1>6. Closing => Closing'
    <2>1. PICK calls \in Seq(Calls) : Return(calls)
      BY StepReturns
    <2>2. Frames(todo) \ {Head(todo)} \subseteq Frames(todo')
      BY <1>1, <2>1, ReturnFrames DEF StackOK
    <2> QED BY <1>1, <2>2 DEF Closing, Running
  <1> SUFFICES ASSUME ~Closing PROVE Told'
    BY <1>6
  <1>7. CASE QueueBroadcast \/ BroadcastGameState \/ BroadcastPositions
    BY <1>7, BroadcastInforms
  <1>8. ASSUME Head(todo).fn # "queue_broadcast" PROVE Told
    BY <1>8 DEF InformInv, Starting, Broadcast
  <1>9. CASE Reevaluate
    <2>1. Told
      BY <1>8, <1>9 DEF Reevaluate, Running
    <2>2. phase \in Phases
      BY DEF TypeOK
    <2>3. ReevaluateLobby /\ phase = "LOBBY_OPEN" => phase' = "LOBBY_OPEN"
      BY DEF ReevaluateLobby
    <2>4. (ReevaluateLobby /\ phase = "LOBBY_OPEN") \/ EndGame \/ UNCHANGED <<players, match>>
      BY <1>9, <2>2 DEF Reevaluate, SettleSetup, ReevaluateRound, Phases
    <2> QED BY <1>4, <2>1, <2>3, <2>4, ToldBefore, ToldUnchanged
  <1>10. CASE MaybeAdmit
    <2>1. Told
      BY <1>8, <1>10 DEF MaybeAdmit, Running
    <2>2. \/ UNCHANGED <<players, match>>
          \/ \E lost : Queue(Silence, lost) /\ UNCHANGED match
          \/ phase = "LOBBY_OPEN" /\ UNCHANGED phase
      BY <1>10 DEF MaybeAdmit, Refuses
    <2>3. ASSUME NEW lost, Queue(Silence, lost), UNCHANGED match PROVE Told'
      <3>1. DOMAIN Silence = {} /\ UNCHANGED phase
        BY <2>3 DEF Silence, match
      <3>2. \A i \in Admitted : phase \in {"ROUND_ACTIVE", "GAME_OVER"} => told[i] = StateLine(i)
        BY <2>1 DEF Told
      <3> QED BY <2>3, <3>1, <3>2, ToldQueue
    <2> QED BY <2>1, <2>2, <2>3, ToldUnchanged, ToldBefore
  <1>11. CASE AdmitTail
    <2>1. Head(todo) \in Marked /\ Head(todo).fn = "maybe_admit_player.tail"
      BY <1>1, <1>11, RunningMarked DEF AdmitTail, AdmitFns
    <2>2. phase = "LOBBY_OPEN" /\ UNCHANGED phase
      BY <1>11, <2>1 DEF AdmitTail, match, IInv, TailAdmitsReady
    <2> QED BY <2>2, ToldBefore
  <1>12. CASE CloseLobby \/ Expire
    <2>1. Told
      BY <1>8, <1>12 DEF CloseLobby, Expire, Running
    <2> QED BY <1>12, <2>1, ToldBefore, ToldUnchanged DEF CloseLobby, Expire
  <1>13. ~CloseLobbyTail /\ ~ExpireSlot /\ ~ExpireTail
    BY <1>1, RunningMarked DEF CloseLobbyTail, ExpireSlot, ExpireTail, TimerFns, IInv, NeverExpires
  <1>14. CASE Chase
    <2>1. Told
      BY <1>8, <1>14 DEF Chase, Running
    <2>2. UNCHANGED <<phase, told, connected, registered, admitted, waiting>> /\ Admitted' = Admitted
      BY <1>14 DEF Chase, match, Admitted
    <2>3. CASE phase = "ROUND_ACTIVE"
      <3>1. \A i : StateLine(i) = "ROUND_START" /\ StateLine(i)' = "ROUND_START"
        BY <2>2, <2>3 DEF StateLine
      <3> QED BY <2>1, <2>2, <2>3, <3>1 DEF Told
    <2>4. CASE phase # "ROUND_ACTIVE"
      <3>1. alive' = alive
        BY <1>14, <2>4 DEF Chase
      <3> QED BY <2>1, <2>2, <3>1, ToldStill DEF WonMatch, Admitted, Registered
    <2> QED BY <2>3, <2>4
  <1> QED BY <1>7, <1>9, <1>10, <1>11, <1>12, <1>13, <1>14 DEF Step

(* What an idle server is asked to do: everybody is informed already, and the
   calls it makes announce no round. *)
LEMMA IdleInforms ==
  ASSUME \A c \in Frames(todo') : Tidy(c), todo' \in Seq(Calls), Told'
  PROVE  InformInv'
  <1>1. Tame(todo') /\ \A k \in 1 .. Len(todo') : todo'[k] # Broadcast("ROUND_START")
    BY TidyTame
  <1>2. ~Starting'
    <2> SUFFICES ASSUME Starting' PROVE FALSE
      OBVIOUS
    <2>1. 1 \in 1 .. Len(todo') /\ Head(todo') = todo'[1]
      BY DEF Starting
    <2> QED BY <1>1, <2>1 DEF Starting
  <1> QED BY <1>1, <1>2 DEF InformInv

LEMMA IdleTold ==
  ASSUME InformInv, Idle
  PROVE  Told /\ \A c \in Frames(todo) : Tidy(c)
  BY FramesOfEmpty DEF Idle, InformInv, Starting, Closing

LEMMA CommandInforms ==
  ASSUME TypeOK, InformInv, NEW i \in Slots,
         Accept(i) \/ Command(i) \/ Leave(i) \/ FallBehind(i) \/ CatchUp(i)
  PROVE  InformInv'
  <1>1. Idle /\ todo' \in Seq(Calls)
    <2>1. StackOK'
      BY TypeParts, CommandType
    <2> QED BY <2>1 DEF StackOK, Accept, Command, Hello, Choose, Spawn, GetState, Rematch,
               Leave, FallBehind, CatchUp
  <1>2. Told /\ (todo' = todo => \A c \in Frames(todo') : Tidy(c))
    BY <1>1, IdleTold
  <1>3. CASE Accept(i) \/ Hello(i) \/ FallBehind(i) \/ CatchUp(i)
    <2>1. UNCHANGED <<phase, todo>>
      BY <1>3 DEF Accept, Hello, FallBehind, CatchUp, match
    <2>2. Told'
      <3>1. ASSUME NEW j \in Admitted', phase \in {"ROUND_ACTIVE", "GAME_OVER"}
            PROVE  j \in Admitted /\ told'[j] = told[j] /\ StateLine(j)' = StateLine(j)
        <4>1. CASE Accept(i) \/ Hello(i)
          <5>1. j \in Admitted /\ j # i /\ j \in Slots
            BY <4>1 DEF Accept, Hello, ResetProgress, Admitted, TypeOK
          <5>2. told'[j] = told[j] /\ UNCHANGED phase
            BY <4>1, <5>1 DEF Accept, Hello, TypeOK, match
          <5>3. j \in Registered /\ j \in Registered' /\ (WonMatch(j)' <=> WonMatch(j))
            BY <4>1, <5>1 DEF Accept, Hello, ResetProgress, WonMatch, Admitted, Registered
          <5> QED BY <3>1, <5>1, <5>2, <5>3 DEF StateLine, Verdict
        <4>2. CASE FallBehind(i) \/ CatchUp(i)
          BY <3>1, <4>2 DEF FallBehind, CatchUp, match, Admitted, StateLine, Verdict, Registered,
                            WonMatch
        <4> QED BY <1>3, <4>1, <4>2
      <3>2. UNCHANGED phase
        BY <2>1
      <3> QED BY <1>2, <3>1, <3>2 DEF Told
    <2> QED BY <1>1, <1>2, <2>1, <2>2, IdleInforms
  <1>4. CASE (\E c \in Picks : Choose(i, c)) \/ Spawn(i)
    <2>1. todo' = <<CallOn("maybe_admit_player", i)>>
          /\ UNCHANGED <<phase, told, connected, registered, admitted, alive, waiting>>
      BY <1>4 DEF Choose, Spawn, match
    <2>2. Told'
      BY <1>2, <2>1, ToldStill DEF Admitted, Registered, WonMatch
    <2>3. \A c \in Frames(todo') : Tidy(c)
      BY <2>1, FramesOfOne, TidyCalls DEF CallOn
    <2> QED BY <1>1, <2>2, <2>3, IdleInforms
  <1>5. CASE GetState(i)
    <2>1. PICK lost \in SUBSET ({i} \cap lagging) :
             Queue([j \in {i} |-> StateLine(j)], lost) /\ todo' = After(lost)
      BY <1>5 DEF GetState
    <2>2. Told'
      <3>1. UNCHANGED phase
        BY <1>5 DEF GetState, match
      <3>2. \A j \in Admitted : phase \in {"ROUND_ACTIVE", "GAME_OVER"} => told[j] = StateLine(j)
        BY <1>2 DEF Told
      <3> QED BY <2>1, <3>1, <3>2, ToldQueue
    <2>3. \A c \in Frames(todo') : Tidy(c)
      BY <2>1, FramesOfEmpty, FramesOfOne, TidyCalls DEF After, Call
    <2> QED BY <1>1, <2>2, <2>3, IdleInforms
  <1>6. CASE Leave(i)
    <2> DEFINE last == <<Call("reevaluate_state")>>
    <2>1. todo' = Farewell(i) \o last /\ Queue(Silence, {i}) /\ UNCHANGED phase
      BY <1>6 DEF Leave, DropLoudly, match
    <2>2. Told'
      <3>1. \A j \in Admitted : phase \in {"ROUND_ACTIVE", "GAME_OVER"} => told[j] = StateLine(j)
        BY <1>2 DEF Told
      <3>2. DOMAIN Silence = {}
        BY DEF Silence
      <3> QED BY <2>1, <3>1, <3>2, ToldQueue
    <2>3. \A c \in Frames(Farewell(i)) : Tidy(c)
      <3>1. Tidy(Broadcast("LEFT")) /\ Tidy(Call("broadcast_game_state"))
        BY TidyCalls DEF EarlyLines, Call
      <3> QED BY <3>1, FramesOfEmpty, FramesOfTwo DEF Farewell
    <2>4. \A c \in Frames(last) : Tidy(c)
      BY FramesOfOne, TidyCalls DEF Call
    <2>5. \A c \in Frames(todo') : Tidy(c)
      <3>1. Farewell(i) \in Seq(Calls) /\ last \in Seq(Calls)
        BY ChaselessFarewell, ChaselessReevaluate
      <3> QED BY <2>1, <2>3, <2>4, <3>1, TidyConcat
    <2> QED BY <1>1, <2>2, <2>5, IdleInforms
  <1>7. CASE Rematch(i)
    <2>1. todo' = todo /\ Told'
      BY <1>7, ToldBefore DEF Rematch, FreshMatch
    <2> QED BY <1>1, <1>2, <2>1, IdleInforms
  <1> QED BY <1>3, <1>4, <1>5, <1>6, <1>7 DEF Command

LEMMA InformStep == TypeOK /\ IInv /\ InformInv /\ [Next]_vars => InformInv'
  <1> SUFFICES ASSUME TypeOK, IInv, InformInv, [Next]_vars PROVE InformInv'
    OBVIOUS
  <1>1. todo' \in Seq(Calls)
    BY TypeStep DEF TypeOK
  <1>2. CASE Step
    BY <1>2, StepInforms
  <1>3. CASE Timers
    <2>1. Told'
      BY <1>3, IdleTold, ToldUnchanged DEF Timers
    <2>2. todo' = <<Call("close_lobby_if_needed"), Call("expire_unready_setup_players"),
                    Call("chase")>>
      BY <1>3 DEF Timers
    <2>3. \A c \in Frames(todo') : Tidy(c)
      BY <2>2, FramesOfThree, TidyCalls DEF Call
    <2> QED BY <1>1, <2>1, <2>3, IdleInforms
  <1>4. CASE JoinWindowEnds \/ SetupWindowEnds
    <2>1. Idle /\ UNCHANGED <<players, phase, todo>>
      BY <1>4 DEF JoinWindowEnds, SetupWindowEnds
    <2>2. Told'
      BY <2>1, IdleTold, ToldStill DEF players, Admitted, Registered, WonMatch
    <2> QED BY <1>1, <2>1, <2>2, IdleTold, IdleInforms
  <1>5. ASSUME NEW i \in Slots,
               Accept(i) \/ Command(i) \/ Leave(i) \/ FallBehind(i) \/ CatchUp(i)
        PROVE  InformInv'
    BY <1>5, CommandInforms
  <1>6. CASE UNCHANGED vars
    <2>1. UNCHANGED <<players, match, todo>>
      BY <1>6 DEF vars
    <2>2. Told => Told'
      BY <2>1, ToldUnchanged
    <2> QED BY <2>1, <2>2 DEF InformInv, Starting, Closing, match
  <1> QED BY <1>2, <1>3, <1>4, <1>5, <1>6 DEF Next

LEMMA InformInit == Init => InformInv
  <1> SUFFICES ASSUME Init PROVE InformInv
    OBVIOUS
  <1>1. todo = <<>> /\ Frames(todo) = {} /\ Len(todo) = 0
    BY FramesOfEmpty DEF Init
  <1>2. Told
    BY DEF Told, Init
  <1> QED BY <1>1, <1>2 DEF InformInv, Starting, Tame

(* At rest every admitted player has been told that the round runs, or whether
   it has won or lost, as the last thing about the match: however the
   broadcasts nested in one another reached it, a line that was out of date when
   it was queued was followed by the right one. *)
THEOREM InformedAlways == Spec => []Informed
  <1>1. InformInv => Informed
    <2> SUFFICES ASSUME InformInv, Idle PROVE Informed
      BY DEF Informed
    <2>1. Told
      BY IdleTold
    <2> QED BY <2>1 DEF Told, Informed, StateLine
  <1> QED BY <1>1, InformInit, InformStep, TypeCorrect, Invariant, PTL DEF Spec
=============================================================================
