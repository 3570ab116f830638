---------------------------- MODULE RoundsProofs ----------------------------
(***************************************************************************)
(* Theorems of Rounds.  Its phase of repicks and its calls are not in the    *)
(* types of MatchServer, so the invariants are its own: TypeOK and IInv of   *)
(* MatchServerProofs are not invariants of RSpec.                          *)
(***************************************************************************)
EXTENDS Rounds, MatchServerProofs

ResolveFns == {"resolve_round.pair", "resolve_round.eliminated", "resolve_round.settle",
               "resolve_round.end"}
RoundFns == ResolveFns \cup {"finish_repicks.tail"}
EndFns == {"resolve_round.settle", "resolve_round.end"}

(* The calls on the stack: those of MatchServer and those of Rounds. *)
RFns == {"queue_broadcast", "broadcast_positions"} \cup Procedures \cup SlotProcedures
          \cup (RoundFns \ {"resolve_round.pair"})
RLines == Lines \cup {"BYE", "PAIR", "REPICK_START", "REPICK_DONE"}
AnyCall == [fn : RFns, line : RLines] \cup [fn : RFns] \cup [fn : RFns, slot : Int]
             \cup [fn : {"resolve_round.pair"}, pair : Int \X Int]

RStackOK == todo \in Seq(AnyCall)

RDataOK ==
    /\ connected \subseteq Slots /\ lagging \subseteq Slots
    /\ choice \in [Slots -> Choice \cup {NoChoice}]

(* Nobody is admitted in the middle of a game of rounds. *)
NoAdmission == \A c \in Frames(todo) : c.fn \notin AdmitFns

(* The end of resolve_round comes after all it has called. *)
EndsLast == \A k \in 1 .. Len(todo) : todo[k].fn \in EndFns => k = Len(todo)

(* While everybody picks again, no round is being resolved and no timer runs. *)
RepickCalm == phase = "REPICK" => \A c \in Frames(todo) : c.fn \notin ResolveFns \cup TimerFns

(* The game is on, or a call that was made while it was is still to be made. *)
Playing ==
    \/ phase \in {"ROUND_ACTIVE", "REPICK"}
    \/ \E c \in Frames(todo) : c.fn \in RoundFns

PlayersReady ==
    Playing => /\ Admitted \cap waiting = {}
               /\ \A i \in Admitted : Ready(i)

(* What RepickWaitsForSomebody says of a state at rest, or a call that will see
   to it. *)
RepickOwed ==
    phase = "REPICK" =>
        \/ ~FewerThanTwo(Alive) /\ \E i \in Alive : repick[i] = NoChoice
        \/ \E c \in Frames(todo) : c.fn \in {"reevaluate_state", "finish_repicks.tail"}

StackInv == RStackOK /\ NoAdmission /\ EndsLast /\ RepickCalm

RInv == RTypeOK /\ RDataOK /\ StackInv /\ PlayersReady /\ OneTypeWins /\ RepickOwed

-----------------------------------------------------------------------------
(* Calls and the stack. *)

LEMMA AnyCallTypes ==
  /\ \A line \in RLines : Broadcast(line) \in AnyCall /\ Broadcast(line).fn = "queue_broadcast"
  /\ \A f \in RFns : Call(f) \in AnyCall /\ Call(f).fn = f
  /\ \A f \in RFns, i \in Int : /\ CallOn(f, i) \in AnyCall
                                /\ CallOn(f, i).fn = f /\ CallOn(f, i).slot = i
  /\ \A p \in Int \X Int : /\ Resolve(p) \in AnyCall /\ Resolve(p).fn = "resolve_round.pair"
                           /\ Resolve(p).pair = p
  <1>0. "queue_broadcast" \in RFns
    BY DEF RFns
  <1>1. ASSUME NEW line \in RLines
        PROVE  Broadcast(line) \in AnyCall /\ Broadcast(line).fn = "queue_broadcast"
    BY <1>0 DEF Broadcast, AnyCall
  <1>2. \A f \in RFns : Call(f) \in AnyCall /\ Call(f).fn = f
    BY DEF Call, AnyCall
  <1>3. \A f \in RFns, i \in Int : /\ CallOn(f, i) \in AnyCall
                                   /\ CallOn(f, i).fn = f /\ CallOn(f, i).slot = i
    BY DEF CallOn, AnyCall
  <1>4. ASSUME NEW p \in Int \X Int
        PROVE  /\ Resolve(p) \in AnyCall /\ Resolve(p).fn = "resolve_round.pair"
               /\ Resolve(p).pair = p
    BY <1>0 DEF Resolve, AnyCall
  <1> QED BY <1>1, <1>2, <1>3, <1>4

(* The running call and the others, before and after its return. *)
LEMMA Returning ==
  ASSUME RStackOK, todo # <<>>, NEW calls \in Seq(AnyCall), Return(calls)
  PROVE  /\ RStackOK'
         /\ Head(todo) \in AnyCall /\ Head(todo) = todo[1]
         /\ Frames(todo) = {Head(todo)} \cup Frames(Tail(todo))
         /\ Frames(todo') = Frames(calls) \cup Frames(Tail(todo))
         /\ Len(calls) \in Nat /\ Len(todo) \in Nat \ {0}
         /\ Len(todo') = Len(calls) + Len(todo) - 1
         /\ \A k \in 1 .. Len(calls) : todo'[k] = calls[k]
         /\ \A k \in 2 .. Len(todo) : todo'[k + Len(calls) - 1] = todo[k]
  <1>1. /\ Tail(todo) \in Seq(AnyCall) /\ Len(Tail(todo)) = Len(todo) - 1
        /\ \A k \in 1 .. Len(todo) - 1 : Tail(todo)[k] = todo[k + 1]
        /\ Len(todo) \in Nat \ {0} /\ Len(calls) \in Nat
        /\ Head(todo) \in AnyCall /\ Head(todo) = todo[1]
    BY DEF RStackOK
  <1>2. todo' = calls \o Tail(todo)
    BY DEF Return
  <1>3. /\ Len(todo') = Len(calls) + Len(todo) - 1
        /\ \A k \in 1 .. Len(calls) + Len(todo) - 1 :
              todo'[k] = IF k <= Len(calls) THEN calls[k] ELSE Tail(todo)[k - Len(calls)]
    BY <1>1, <1>2
  <1>4. \A k \in 1 .. Len(calls) : todo'[k] = calls[k]
    BY <1>1, <1>3
  <1>5. ASSUME NEW k \in 2 .. Len(todo) PROVE todo'[k + Len(calls) - 1] = todo[k]
    <2>1. /\ k + Len(calls) - 1 \in 1 .. Len(calls) + Len(todo) - 1
          /\ ~(k + Len(calls) - 1 <= Len(calls))
          /\ k + Len(calls) - 1 - Len(calls) = k - 1
          /\ k - 1 \in 1 .. Len(todo) - 1 /\ k - 1 + 1 = k
      BY <1>1
    <2> QED BY <1>1, <1>3, <2>1
  <1>6. Frames(todo) = {Head(todo)} \cup Frames(Tail(todo))
    BY FramesOfStack DEF RStackOK
  <1>7. Frames(todo') = Frames(calls) \cup Frames(Tail(todo))
    <2>1. \A p, q \in Seq(AnyCall) : Frames(p \o q) = Frames(p) \cup Frames(q)
      BY FramesOfConcat
    <2> QED BY <1>1, <1>2, <2>1
  <1>8. RStackOK'
    BY <1>1, <1>2 DEF RStackOK
  <1> QED BY <1>1, <1>3, <1>4, <1>5, <1>6, <1>7, <1>8

LEMMA PairTyped ==
  ASSUME NEW c \in AnyCall, c.fn = "resolve_round.pair" PROVE c.pair \in Int \X Int
  <1>1. "resolve_round.pair" \notin RFns
    BY DEF RFns, Procedures, SlotProcedures
  <1> QED BY <1>1 DEF AnyCall

LEMMA EmptyCalls == <<>> \in Seq(AnyCall) /\ Frames(<<>>) = {}
  BY FramesOfEmpty

(* Calls that do not end a round leave the one that does where it is, last. *)
LEMMA ReturnEndsLast ==
  ASSUME RStackOK, todo # <<>>, EndsLast, NEW calls \in Seq(AnyCall), Return(calls),
         \A c \in Frames(calls) : c.fn \notin EndFns
  PROVE  EndsLast'
  <1>1. /\ Len(calls) \in Nat /\ Len(todo) \in Nat \ {0}
        /\ Len(todo') = Len(calls) + Len(todo) - 1
        /\ \A k \in 1 .. Len(calls) : todo'[k] = calls[k]
        /\ \A k \in 2 .. Len(todo) : todo'[k + Len(calls) - 1] = todo[k]
    BY Returning
  <1>2. SUFFICES ASSUME NEW k \in 1 .. Len(todo'), todo'[k].fn \in EndFns
                 PROVE  k = Len(todo')
    BY DEF EndsLast
  <1>3. k > Len(calls)
    <2>1. CASE k \in 1 .. Len(calls)
      BY <1>1, <1>2, <2>1 DEF Frames
    <2> QED BY <1>1, <2>1
  <1> DEFINE j == k - Len(calls) + 1
  <1>4. j \in 2 .. Len(todo) /\ j + Len(calls) - 1 = k
    BY <1>1, <1>3
  <1>5. todo'[k] = todo[j]
    BY <1>1, <1>4
  <1>6. j = Len(todo)
    BY <1>2, <1>4, <1>5 DEF EndsLast
  <1> QED BY <1>1, <1>6

(* When the end of resolve_round runs, nothing is left below it. *)
LEMMA EndAlone ==
  ASSUME RStackOK, todo # <<>>, EndsLast, Head(todo).fn \in EndFns
  PROVE  Tail(todo) = <<>>
  <1>1. Len(todo) \in Nat \ {0} /\ Head(todo) = todo[1] /\ 1 \in 1 .. Len(todo)
    BY DEF RStackOK
  <1>2. Len(todo) = 1
    BY <1>1 DEF EndsLast
  <1>3. Tail(todo) \in Seq(AnyCall) /\ Len(Tail(todo)) = 0
    BY <1>2 DEF RStackOK
  <1> QED BY <1>3, EmptySeq

(* The stack under a return: nothing is called that must not be. *)
LEMMA ReturnStack ==
  ASSUME StackInv, todo # <<>>, NEW calls \in Seq(AnyCall), Return(calls),
         \A c \in Frames(calls) : c.fn \notin AdmitFns \cup EndFns,
         phase' = "REPICK" =>
            phase = "REPICK" /\ \A c \in Frames(calls) : c.fn \notin ResolveFns \cup TimerFns
  PROVE  StackInv' /\ Frames(todo) \ {Head(todo)} \subseteq Frames(todo')
  <1>1. /\ RStackOK' /\ Frames(todo) = {Head(todo)} \cup Frames(Tail(todo))
        /\ Frames(todo') = Frames(calls) \cup Frames(Tail(todo))
    BY Returning DEF StackInv
  <1>2. NoAdmission'
    BY <1>1 DEF StackInv, NoAdmission
  <1>3. EndsLast'
    BY ReturnEndsLast DEF StackInv
  <1>4. RepickCalm'
    BY <1>1 DEF StackInv, RepickCalm
  <1> QED BY <1>1, <1>2, <1>3, <1>4 DEF StackInv

(* The functions of MatchServer call neither those of an admission nor those of
   Rounds, and the timers' only the timers' own. *)
ServerOnly(calls) ==
    \A c \in Frames(calls) :
        /\ c.fn \notin AdmitFns \cup RoundFns
        /\ c.fn \in TimerFns => Head(todo).fn \in TimerFns

Plain == {"queue_broadcast", "reevaluate_state", "broadcast_game_state", "broadcast_positions"}

LEMMA PlainNames ==
  /\ Plain \subseteq RFns /\ Plain \cap (AdmitFns \cup RoundFns \cup TimerFns) = {}
  /\ TimerFns \subseteq RFns /\ TimerFns \cap (AdmitFns \cup RoundFns) = {}
  /\ "close_lobby_if_needed.tail" \in TimerFns /\ "expire_unready.slot" \in TimerFns
  /\ "expire_unready.tail" \in TimerFns
  BY DEF Plain, RFns, AdmitFns, RoundFns, ResolveFns, TimerFns, Procedures, SlotProcedures

LEMMA PlainCalls ==
  ASSUME NEW c \in AnyCall, NEW d \in AnyCall, c.fn \in Plain, d.fn \in Plain
  PROVE  /\ <<c>> \in Seq(AnyCall) /\ ServerOnly(<<c>>) /\ Frames(<<c>>) = {c}
         /\ <<c, d>> \in Seq(AnyCall) /\ ServerOnly(<<c, d>>) /\ Frames(<<c, d>>) = {c, d}
  BY FramesOfOne, FramesOfTwo, PlainNames DEF ServerOnly

LEMMA ServerOnlyConcat ==
  ASSUME NEW p \in Seq(AnyCall), NEW q \in Seq(AnyCall), ServerOnly(p), ServerOnly(q)
  PROVE  p \o q \in Seq(AnyCall) /\ ServerOnly(p \o q) /\ Frames(p \o q) = Frames(p) \cup Frames(q)
  <1>1. Frames(p \o q) = Frames(p) \cup Frames(q)
    BY FramesOfConcat
  <1> QED BY <1>1 DEF ServerOnly

LEMMA ServerCall ==
  /\ \A line \in Lines : Broadcast(line) \in AnyCall /\ Broadcast(line).fn \in Plain
  /\ Call("reevaluate_state") \in AnyCall /\ Call("reevaluate_state").fn \in Plain
  /\ Call("broadcast_game_state") \in AnyCall /\ Call("broadcast_game_state").fn \in Plain
  /\ \A i \in Int : /\ CallOn("broadcast_positions", i) \in AnyCall
                    /\ CallOn("broadcast_positions", i).fn \in Plain
  <1>1. Lines \subseteq RLines
    BY DEF RLines
  <1> QED BY <1>1, AnyCallTypes, PlainNames DEF Plain

LEMMA AfterCalls ==
  ASSUME NEW lost
  PROVE  /\ After(lost) \in Seq(AnyCall) /\ ServerOnly(After(lost))
         /\ \A c \in Frames(After(lost)) : c.fn \in Plain
         /\ lost # {} => Call("reevaluate_state") \in Frames(After(lost))
  <1>1. CASE lost = {}
    <2>1. After(lost) = <<>> /\ Frames(<<>>) = {}
      BY <1>1, EmptyCalls DEF After
    <2> QED BY <1>1, <2>1, EmptyCalls DEF ServerOnly
  <1>2. CASE lost # {}
    <2>1. PICK c : c = Call("reevaluate_state")
      OBVIOUS
    <2>2. After(lost) = <<c>> /\ Frames(<<c>>) = {c}
      BY <1>2, <2>1, FramesOfOne DEF After
    <2>3. c \in AnyCall /\ c.fn \in Plain
      BY <2>1, ServerCall
    <2>4. After(lost) \in Seq(AnyCall) /\ ServerOnly(After(lost))
      BY <2>2, <2>3, PlainCalls
    <2> QED BY <2>1, <2>2, <2>3, <2>4
  <1> QED BY <1>1, <1>2

LEMMA FarewellCalls ==
  ASSUME NEW i
  PROVE  /\ Farewell(i) \in Seq(AnyCall) /\ ServerOnly(Farewell(i))
         /\ \A c \in Frames(Farewell(i)) : c.fn \in Plain
  <1>1. "LEFT" \in Lines
    BY DEF Lines
  <1>2. /\ Broadcast("LEFT") \in AnyCall /\ Broadcast("LEFT").fn \in Plain
        /\ Call("broadcast_game_state") \in AnyCall
        /\ Call("broadcast_game_state").fn \in Plain
    BY <1>1, ServerCall
  <1>3. CASE i \in registered
    <2> DEFINE calls == <<Broadcast("LEFT"), Call("broadcast_game_state")>>
    <2>1. Farewell(i) = calls
      BY <1>3 DEF Farewell
    <2>2. /\ calls \in Seq(AnyCall) /\ ServerOnly(calls)
          /\ Frames(calls) = {Broadcast("LEFT"), Call("broadcast_game_state")}
      BY <1>2, PlainCalls
    <2> HIDE DEF calls
    <2> QED BY <1>2, <2>1, <2>2
  <1>4. CASE i \notin registered
    <2>1. Farewell(i) = <<>>
      BY <1>4 DEF Farewell
    <2> QED BY <2>1, EmptyCalls DEF ServerOnly
  <1> QED BY <1>3, <1>4

LEMMA ServerCalls ==
  ASSUME StackInv, connected \subseteq Slots, Reevaluate => phase \in Phases, Step
  PROVE  /\ todo # <<>>
         /\ \E calls \in Seq(AnyCall) : Return(calls) /\ ServerOnly(calls)
  <1> DEFINE Returns == \E calls \in Seq(AnyCall) : Return(calls) /\ ServerOnly(calls)
  <1>1. todo # <<>>
    BY DEF Step, QueueBroadcast, BroadcastGameState, BroadcastPositions, Reevaluate,
           MaybeAdmit, AdmitTail, CloseLobby, CloseLobbyTail, Expire, ExpireSlot,
           ExpireTail, Chase, Running
  <1> SUFFICES Returns
    BY <1>1
  <1>2. Return(<<>>) => Returns
    BY EmptyCalls DEF ServerOnly
  <1>3. ASSUME NEW c \in AnyCall, c.fn \in Plain, Return(<<c>>) PROVE Returns
    BY <1>3, PlainCalls
  <1>4. ASSUME NEW c \in AnyCall, NEW d \in AnyCall, c.fn \in Plain, d.fn \in Plain,
               Return(<<c, d>>)
        PROVE  Returns
    BY <1>4, PlainCalls
  <1>5. ASSUME NEW lost, Return(After(lost)) PROVE Returns
    BY <1>5, AfterCalls
  <1>6. StartActiveRound => Returns
    <2>1. "ROUND_START" \in Lines
      BY DEF Lines
    <2> QED BY <1>4, <2>1, ServerCall DEF StartActiveRound
  <1>7. SettleSetup \/ EndGame \/ ReevaluateLobby \/ ReevaluateRound => Returns
    BY <1>2, <1>6 DEF SettleSetup, EndGame, ReevaluateLobby, ReevaluateRound
  <1>8. CASE QueueBroadcast \/ BroadcastGameState
    BY <1>5, <1>8 DEF QueueBroadcast, BroadcastGameState
  <1>9. CASE BroadcastPositions
    <2>1. ASSUME NEW i \in Admitted,
                 Return(<<Broadcast("PLAYER"), CallOn("broadcast_positions", i + 1)>>)
          PROVE  Returns
      <3>1. i + 1 \in Int
        BY MatchServerAssumption DEF Admitted, Slots
      <3>2. "PLAYER" \in Lines
        BY DEF Lines
      <3> QED BY <1>4, <2>1, <3>1, <3>2, ServerCall
    <2> QED BY <1>2, <1>9, <2>1 DEF BroadcastPositions
  <1>10. CASE Reevaluate
    BY <1>2, <1>7, <1>10 DEF Reevaluate, Phases
  <1>11. ~MaybeAdmit /\ ~AdmitTail
    <2>1. Head(todo) \in Frames(todo)
      BY <1>1, FramesOfStack DEF StackInv, RStackOK
    <2> QED BY <2>1 DEF MaybeAdmit, AdmitTail, Running, StackInv, NoAdmission, AdmitFns
  <1>12. CASE CloseLobby
    <2> DEFINE c1 == Broadcast("LOBBY_CLOSED")
               c2 == Broadcast("SETUP_OPEN")
               c3 == Call("close_lobby_if_needed.tail")
    <2>1. /\ c1 \in AnyCall /\ c1.fn \in Plain /\ c2 \in AnyCall /\ c2.fn \in Plain
          /\ c3 \in AnyCall /\ c3.fn \in TimerFns /\ Head(todo).fn \in TimerFns
      <3>1. "LOBBY_CLOSED" \in Lines /\ "SETUP_OPEN" \in Lines
        BY DEF Lines
      <3>2. Head(todo).fn \in TimerFns
        BY <1>12 DEF CloseLobby, Running, TimerFns
      <3> QED BY <3>1, <3>2, ServerCall, AnyCallTypes, PlainNames
    <2>2. Return(<<>>) \/ Return(<<c1, c2, c3>>)
      BY <1>12 DEF CloseLobby
    <2> HIDE DEF c1, c2, c3
    <2>3. <<c1, c2, c3>> \in Seq(AnyCall) /\ ServerOnly(<<c1, c2, c3>>)
      BY <2>1, FramesOfThree, PlainNames DEF ServerOnly
    <2> QED BY <1>2, <2>2, <2>3
  <1>13. CASE CloseLobbyTail
    <2>1. "WAITING_FOR_OTHERS" \in Lines
      BY DEF Lines
    <2> QED BY <1>3, <1>6, <1>7, <1>13, <2>1, ServerCall DEF CloseLobbyTail
  <1>14. CASE Expire
    <2> DEFINE slots == [k \in 1 .. MaxPlayers |-> CallOn("expire_unready.slot", k - 1)]
               last == <<Call("expire_unready.tail")>>
    <2>1. Head(todo).fn \in TimerFns
      BY <1>14 DEF Expire, Running, TimerFns
    <2>2. \A k \in 1 .. MaxPlayers : /\ CallOn("expire_unready.slot", k - 1) \in AnyCall
                                     /\ CallOn("expire_unready.slot", k - 1).fn \in TimerFns
      BY AnyCallTypes, PlainNames
    <2>3. /\ slots \in Seq(AnyCall) /\ Len(slots) = MaxPlayers
          /\ \A k \in 1 .. MaxPlayers : slots[k].fn \in TimerFns
      BY <2>2, MatchServerAssumption
    <2>4. last \in Seq(AnyCall) /\ \A c \in Frames(last) : c.fn \in TimerFns
      BY AnyCallTypes, PlainNames, FramesOfOne
    <2>5. Return(<<>>) \/ Return(slots \o last)
      BY <1>14 DEF Expire
    <2> HIDE DEF slots, last
    <2>6. ServerOnly(slots) /\ ServerOnly(last)
      BY <2>1, <2>3, <2>4, PlainNames DEF ServerOnly, Frames
    <2>7. slots \o last \in Seq(AnyCall) /\ ServerOnly(slots \o last)
      BY <2>3, <2>4, <2>6, ServerOnlyConcat
    <2> QED BY <1>2, <2>5, <2>7
  <1>15. CASE ExpireSlot
    BY <1>2, <1>15, FarewellCalls DEF ExpireSlot
  <1>16. CASE ExpireTail
    BY <1>7, <1>16 DEF ExpireTail
  <1>17. CASE Chase
    <2> DEFINE first == <<CallOn("broadcast_positions", 0)>>
               last == <<Call("reevaluate_state")>>
    <2>1. first \in Seq(AnyCall) /\ ServerOnly(first) /\ last \in Seq(AnyCall) /\ ServerOnly(last)
      <3>1. /\ CallOn("broadcast_positions", 0) \in AnyCall
            /\ CallOn("broadcast_positions", 0).fn \in Plain
            /\ Call("reevaluate_state") \in AnyCall /\ Call("reevaluate_state").fn \in Plain
        BY ServerCall
      <3> QED BY <3>1, PlainCalls
    <2>2. /\ first \o <<>> \in Seq(AnyCall) /\ ServerOnly(first \o <<>>)
          /\ first \o last \in Seq(AnyCall) /\ ServerOnly(first \o last)
      BY <2>1, EmptyCalls, ServerOnlyConcat DEF ServerOnly
    <2>3. Return(<<>>) \/ Return(first \o <<>>) \/ Return(first \o last)
      BY <1>17 DEF Chase
    <2> QED BY <1>2, <2>2, <2>3
  <1> QED BY <1>8, <1>9, <1>10, <1>11, <1>12, <1>13, <1>14, <1>15, <1>16, <1>17 DEF Step

-----------------------------------------------------------------------------
(* StackInv under the steps. *)

LEMMA RunningFrame ==
  ASSUME StackInv, NEW f, Running(f)
  PROVE  todo # <<>> /\ Head(todo) \in AnyCall /\ Head(todo) \in Frames(todo) /\ Head(todo).fn = f
  BY FramesOfStack DEF StackInv, RStackOK, Running

LEMMA StepPhase ==
  ASSUME Step, Reevaluate => phase \in Phases
  PROVE  phase' \in {phase, "SETUP", "ROUND_ACTIVE", "GAME_OVER"}
  <1>1. SettleSetup \/ EndGame \/ StartActiveRound \/ ReevaluateRound \/ ReevaluateLobby
        => phase' \in {phase, "SETUP", "ROUND_ACTIVE", "GAME_OVER"}
    BY DEF SettleSetup, EndGame, StartActiveRound, StartRound, ReevaluateRound,
           ReevaluateLobby, match
  <1>2. CASE Reevaluate
    BY <1>1, <1>2 DEF Reevaluate, Phases, match
  <1>3. CASE QueueBroadcast \/ BroadcastGameState \/ BroadcastPositions \/ AdmitTail
             \/ Expire \/ ExpireSlot \/ Chase \/ MaybeAdmit
    BY <1>3 DEF QueueBroadcast, BroadcastGameState, BroadcastPositions, AdmitTail, Expire,
                ExpireSlot, Chase, MaybeAdmit, match
  <1>4. CASE CloseLobby \/ CloseLobbyTail \/ ExpireTail
    BY <1>1, <1>4 DEF CloseLobby, CloseLobbyTail, ExpireTail, match
  <1> QED BY <1>2, <1>3, <1>4 DEF Step

LEMMA ServerStack ==
  ASSUME StackInv, RDataOK, RTypeOK, ServerStep
  PROVE  /\ StackInv' /\ todo # <<>>
         /\ Frames(todo) \ {Head(todo)} \subseteq Frames(todo')
         /\ \A c \in Frames(todo') : c.fn \in RoundFns => c \in Frames(todo)
  <1>1. Reevaluate => phase \in Phases
    BY DEF ServerStep, Reevaluate, RTypeOK
  <1>2. /\ todo # <<>>
        /\ \E calls \in Seq(AnyCall) : Return(calls) /\ ServerOnly(calls)
    BY <1>1, ServerCalls DEF ServerStep, RDataOK
  <1>3. PICK calls \in Seq(AnyCall) : Return(calls) /\ ServerOnly(calls)
    BY <1>2
  <1>4. /\ Head(todo) \in Frames(todo)
        /\ Frames(todo) = {Head(todo)} \cup Frames(Tail(todo))
        /\ Frames(todo') = Frames(calls) \cup Frames(Tail(todo))
    BY <1>2, <1>3, Returning DEF StackInv
  <1>5. phase' = "REPICK" => phase = "REPICK"
    BY <1>1, StepPhase DEF ServerStep
  <1>6. phase' = "REPICK" => Head(todo).fn \notin TimerFns
    BY <1>4, <1>5 DEF StackInv, RepickCalm
  <1>7. /\ \A c \in Frames(calls) : c.fn \notin AdmitFns \cup EndFns
        /\ phase' = "REPICK" => \A c \in Frames(calls) : c.fn \notin ResolveFns \cup TimerFns
    BY <1>3, <1>6 DEF ServerOnly, RoundFns, ResolveFns, EndFns
  <1>8. StackInv' /\ Frames(todo) \ {Head(todo)} \subseteq Frames(todo')
    BY <1>2, <1>3, <1>5, <1>7, ReturnStack
  <1> QED BY <1>2, <1>3, <1>4, <1>8 DEF ServerOnly

LEMMA StartStack ==
  ASSUME StackInv, todo # <<>>, StartActiveRound \/ EndGame
  PROVE  /\ StackInv'
         /\ \A c \in Frames(todo') : c.fn \in RoundFns => c \in Frames(todo)
  <1>1. PICK calls \in Seq(AnyCall) : Return(calls) /\ \A c \in Frames(calls) : c.fn \in Plain
    <2>1. CASE EndGame
      BY <2>1, EmptyCalls DEF EndGame
    <2>2. CASE StartActiveRound
      <3> DEFINE c == Broadcast("ROUND_START")
                 d == CallOn("broadcast_positions", 0)
      <3>1. "ROUND_START" \in Lines
        BY DEF Lines
      <3>2. c \in AnyCall /\ c.fn \in Plain /\ d \in AnyCall /\ d.fn \in Plain
        BY <3>1, ServerCall
      <3>3. Return(<<c, d>>)
        BY <2>2 DEF StartActiveRound
      <3> HIDE DEF c, d
      <3> QED BY <3>2, <3>3, PlainCalls
    <2> QED BY <2>1, <2>2
  <1>2. /\ Frames(todo) = {Head(todo)} \cup Frames(Tail(todo))
        /\ Frames(todo') = Frames(calls) \cup Frames(Tail(todo))
    BY <1>1, Returning DEF StackInv
  <1>3. phase' # "REPICK"
    BY DEF StartActiveRound, StartRound, EndGame
  <1>4. \A c \in Frames(calls) : c.fn \notin AdmitFns \cup EndFns \cup RoundFns
    BY <1>1, PlainNames DEF RoundFns, ResolveFns, EndFns
  <1>5. StackInv'
    BY <1>1, <1>3, <1>4, ReturnStack
  <1> QED BY <1>2, <1>4, <1>5

LEMMA FinishStack ==
  ASSUME StackInv, phase = "REPICK", NEW picks, NEW rest,
         FinishRepicks(picks, rest),
         \/ todo # <<>> /\ rest = Tail(todo)
         \/ todo = <<>> /\ rest = <<>>
  PROVE  /\ StackInv'
         /\ Call("finish_repicks.tail") \in Frames(todo')
  <1> DEFINE c1 == Broadcast("REPICK_DONE")
             c2 == CallOn("broadcast_positions", 0)
             c3 == Call("finish_repicks.tail")
             calls == <<c1, c2, c3>>
  <1>1. /\ c1 \in AnyCall /\ c1.fn \in Plain /\ c2 \in AnyCall /\ c2.fn \in Plain
        /\ c3 \in AnyCall /\ c3.fn = "finish_repicks.tail"
    <2>1. "REPICK_DONE" \in RLines
      BY DEF RLines
    <2>2. "finish_repicks.tail" \in RFns
      BY DEF RFns, RoundFns
    <2> QED BY <2>1, <2>2, AnyCallTypes, ServerCall, PlainNames DEF Plain
  <1>2. todo' = calls \o rest
    BY DEF FinishRepicks
  <1>3. phase' = "REPICK"
    BY DEF FinishRepicks, match
  <1> HIDE DEF c1, c2
  <1>4. calls \in Seq(AnyCall) /\ Frames(calls) = {c1, c2, c3}
    BY <1>1, FramesOfThree
  <1>5. \A c \in Frames(calls) : c.fn \notin AdmitFns \cup EndFns \cup ResolveFns \cup TimerFns
    <2>1. "finish_repicks.tail" \notin AdmitFns \cup EndFns \cup ResolveFns \cup TimerFns
      BY DEF AdmitFns, EndFns, ResolveFns, TimerFns
    <2>2. Plain \cap (AdmitFns \cup EndFns \cup ResolveFns \cup TimerFns) = {}
      BY PlainNames DEF RoundFns, ResolveFns, EndFns
    <2> QED BY <1>1, <1>4, <2>1, <2>2
  <1> HIDE DEF calls
  <1>6. CASE todo # <<>> /\ rest = Tail(todo)
    <2>1. Return(calls)
      BY <1>2, <1>6 DEF Return
    <2>2. StackInv'
      BY <1>3, <1>4, <1>5, <1>6, <2>1, ReturnStack
    <2>3. Frames(todo') = Frames(calls) \cup Frames(Tail(todo))
      BY <1>4, <1>6, <2>1, Returning DEF StackInv
    <2> QED BY <1>4, <2>2, <2>3
  <1>7. CASE todo = <<>> /\ rest = <<>>
    <2>1. todo' = calls
      BY <1>2, <1>4, <1>7, ConcatEmptySeq
    <2> QED BY <1>3, <1>4, <1>5, <2>1
            DEF StackInv, RStackOK, NoAdmission, EndsLast, RepickCalm, Frames
  <1> QED BY <1>6, <1>7

(* While one of the calls of resolve_round runs, nobody is picking again. *)
LEMMA ResolvingPhase ==
  ASSUME StackInv, NEW f \in ResolveFns, Running(f)
  PROVE  phase # "REPICK" /\ todo # <<>> /\ Playing /\ Head(todo) \in AnyCall /\ Head(todo).fn = f
  BY RunningFrame DEF StackInv, RepickCalm, Playing, RoundFns

LEMMA PairStack ==
  ASSUME StackInv, ResolvePair \/ Eliminated
  PROVE  StackInv' /\ Playing /\ phase # "REPICK" /\ phase' = phase
  <1>1. phase # "REPICK" /\ todo # <<>> /\ Playing
    BY ResolvingPhase DEF ResolvePair, Eliminated, ResolveFns
  <1>2. phase' = phase
    BY DEF ResolvePair, Eliminated, match
  <1>3. ASSUME NEW calls \in Seq(AnyCall), Return(calls),
               \A c \in Frames(calls) : c.fn \in {"queue_broadcast", "resolve_round.eliminated"}
        PROVE  StackInv'
    <2>1. \A c \in Frames(calls) : c.fn \notin AdmitFns \cup EndFns
      BY <1>3 DEF AdmitFns, EndFns
    <2> QED BY <1>1, <1>2, <1>3, <2>1, ReturnStack
  <1>4. CASE Eliminated
    <2>1. Return(<<>>)
      BY <1>4 DEF Eliminated
    <2>2. <<>> \in Seq(AnyCall) /\ \A c \in Frames(<<>>) : FALSE
      BY EmptyCalls
    <2> QED BY <1>1, <1>2, <1>3, <2>1, <2>2
  <1>5. CASE ResolvePair
    <2> DEFINE i == Head(todo).pair[1]
               j == Head(todo).pair[2]
               c == Broadcast("PAIR")
               d == CallOn("resolve_round.eliminated", Loser(i, j))
    <2>1. Head(todo).pair \in Int \X Int
      BY <1>5, ResolvingPhase, PairTyped DEF ResolvePair, ResolveFns
    <2>2. Loser(i, j) \in Int
      BY <2>1 DEF Loser
    <2>3. /\ c \in AnyCall /\ c.fn = "queue_broadcast"
          /\ d \in AnyCall /\ d.fn = "resolve_round.eliminated"
      <3>1. "PAIR" \in RLines /\ "resolve_round.eliminated" \in RFns
        BY DEF RLines, RFns, RoundFns, ResolveFns
      <3> QED BY <2>2, <3>1, AnyCallTypes
    <2>4. Return(<<c>>) \/ Return(<<c, d>>)
      BY <1>5 DEF ResolvePair
    <2> HIDE DEF c, d
    <2>5. /\ <<c>> \in Seq(AnyCall) /\ Frames(<<c>>) = {c}
          /\ <<c, d>> \in Seq(AnyCall) /\ Frames(<<c, d>>) = {c, d}
      BY <2>3, FramesOfOne, FramesOfTwo
    <2>6. CASE Return(<<c>>)
      BY <1>1, <1>2, <1>3, <2>3, <2>5, <2>6
    <2>7. CASE Return(<<c, d>>)
      <3>1. \A e \in Frames(<<c, d>>) : e.fn \in {"queue_broadcast", "resolve_round.eliminated"}
        BY <2>3, <2>5
      <3> QED BY <1>1, <1>2, <1>3, <2>5, <2>7, <3>1
    <2> QED BY <2>4, <2>6, <2>7
  <1> QED BY <1>1, <1>2, <1>4, <1>5

LEMMA SettleStack ==
  ASSUME StackInv, Settle
  PROVE  StackInv' /\ Playing /\ phase # "REPICK"
  <1>1. phase # "REPICK" /\ todo # <<>> /\ Playing /\ Head(todo).fn \in EndFns
    BY ResolvingPhase DEF Settle, ResolveFns, EndFns
  <1>2. phase' = phase
    BY DEF Settle, match
  <1> DEFINE c == CallOn("broadcast_positions", 0)
             d == Call("resolve_round.end")
  <1>3. c \in AnyCall /\ c.fn \in Plain /\ d \in AnyCall /\ d.fn = "resolve_round.end"
    <2>1. "resolve_round.end" \in RFns
      BY DEF RFns, RoundFns, ResolveFns
    <2> QED BY <2>1, AnyCallTypes, ServerCall
  <1>4. Tail(todo) = <<>> /\ todo' = <<c, d>> \o Tail(todo)
    BY <1>1, EndAlone DEF Settle, Return, StackInv
  <1> HIDE DEF c, d
  <1>5. todo' = <<c, d>>
    <2>1. <<c, d>> \in Seq(AnyCall)
      BY <1>3
    <2> QED BY <1>4, <2>1, ConcatEmptySeq
  <1>6. RStackOK' /\ Frames(todo') = {c, d}
    BY <1>3, <1>5, FramesOfTwo DEF RStackOK
  <1>7. NoAdmission'
    <2>1. "resolve_round.end" \notin AdmitFns
      BY DEF AdmitFns
    <2> QED BY <1>3, <1>6, <2>1, PlainNames DEF NoAdmission
  <1>8. EndsLast'
    <2>1. c.fn \notin EndFns
      BY <1>3, PlainNames DEF RoundFns, ResolveFns, EndFns
    <2>2. Len(<<c, d>>) = 2 /\ <<c, d>>[1] = c
      OBVIOUS
    <2>3. \A k \in 1 .. 2 : k = 1 \/ k = 2
      OBVIOUS
    <2> QED BY <1>5, <2>1, <2>2, <2>3 DEF EndsLast
  <1> QED BY <1>1, <1>2, <1>6, <1>7, <1>8 DEF StackInv, RepickCalm

(* Repicks begin with nothing on the stack but their two broadcasts. *)
LEMMA BeginStack ==
  ASSUME StackInv, Running("resolve_round.end"), BeginRepicks
  PROVE  StackInv' /\ Playing
  <1>1. todo # <<>> /\ Playing /\ Head(todo).fn \in EndFns
    BY ResolvingPhase DEF ResolveFns, EndFns
  <1> DEFINE c == Broadcast("REPICK_START")
             d == CallOn("broadcast_positions", 0)
  <1>2. c \in AnyCall /\ c.fn \in Plain /\ d \in AnyCall /\ d.fn \in Plain
    <2>1. "REPICK_START" \in RLines
      BY DEF RLines
    <2> QED BY <2>1, AnyCallTypes, ServerCall DEF Plain
  <1>3. Tail(todo) = <<>> /\ todo' = <<c, d>> \o Tail(todo)
    BY <1>1, EndAlone DEF BeginRepicks, Return, StackInv
  <1> HIDE DEF c, d
  <1>4. todo' = <<c, d>>
    <2>1. <<c, d>> \in Seq(AnyCall)
      BY <1>2
    <2> QED BY <1>3, <2>1, ConcatEmptySeq
  <1>5. RStackOK' /\ Frames(todo') = {c, d}
    BY <1>2, <1>4, FramesOfTwo DEF RStackOK
  <1>6. \A e \in Frames(todo') : e.fn \notin AdmitFns \cup EndFns \cup ResolveFns \cup TimerFns
    BY <1>2, <1>5, PlainNames DEF RoundFns, ResolveFns, EndFns
  <1> QED BY <1>1, <1>5, <1>6 DEF StackInv, NoAdmission, EndsLast, RepickCalm, Frames

(* What an idle server is asked to do. *)
LEMMA IdleStack ==
  ASSUME StackInv, todo' \in Seq(AnyCall),
         \A c \in Frames(todo') : c.fn \notin AdmitFns \cup EndFns,
         phase' = "REPICK" => \A c \in Frames(todo') : c.fn \notin ResolveFns \cup TimerFns
  PROVE  StackInv'
  BY DEF StackInv, RStackOK, NoAdmission, EndsLast, RepickCalm, Frames

LEMMA ResolveRoundStack ==
  ASSUME StackInv, RDataOK, ResolveRound
  PROVE  StackInv'
  <1> DEFINE eligible == Alive \cap in_round
             last == Call("resolve_round.settle")
             bye == Broadcast("BYE")
  <1>1. PICK pairing \in Pairings(eligible) :
           todo' = [k \in DOMAIN pairing |-> Resolve(pairing[k])]
                     \o (IF Paired(pairing) = eligible THEN <<>> ELSE <<Broadcast("BYE")>>)
                     \o <<Call("resolve_round.settle")>>
    BY DEF ResolveRound
  <1> DEFINE fight == [k \in DOMAIN pairing |-> Resolve(pairing[k])]
             left == IF Paired(pairing) = eligible THEN <<>> ELSE <<bye>>
  <1>2. phase' = "ROUND_ACTIVE"
    BY DEF ResolveRound, match
  <1>3. PICK n \in Nat : pairing \in [1 .. n -> Int \X Int]
    <2>1. eligible \subseteq Int
      <3>1. eligible \subseteq connected
        BY DEF Alive, Admitted
      <3>2. Slots \subseteq Int
        BY MatchServerAssumption DEF Slots
      <3> QED BY <3>1, <3>2 DEF RDataOK
    <2> DEFINE pairs == {p \in eligible \X eligible : p[1] < p[2]}
    <2>2. pairs \subseteq Int \X Int
      BY <2>1
    <2>3. PICK m \in 0 .. MaxPlayers \div 2 : pairing \in [1 .. m -> pairs]
      BY <1>1 DEF Pairings
    <2>4. m \in Nat
      BY <2>3, MatchServerAssumption
    <2> HIDE DEF pairs
    <2> QED BY <2>2, <2>3, <2>4
  <1>4. /\ \A p \in Int \X Int : Resolve(p) \in AnyCall /\ Resolve(p).fn = "resolve_round.pair"
        /\ bye \in AnyCall /\ bye.fn = "queue_broadcast"
        /\ last \in AnyCall /\ last.fn = "resolve_round.settle"
    <2>1. "BYE" \in RLines /\ "resolve_round.settle" \in RFns
      BY DEF RLines, RFns, RoundFns, ResolveFns
    <2> QED BY <2>1, AnyCallTypes
  <1> HIDE DEF last, bye, eligible
  <1>5. /\ fight \in Seq(AnyCall) /\ Len(fight) = n
        /\ \A k \in 1 .. n : fight[k].fn = "resolve_round.pair"
    <2>1. DOMAIN pairing = 1 .. n /\ \A k \in 1 .. n : pairing[k] \in Int \X Int
      BY <1>3
    <2>2. fight = [k \in 1 .. n |-> Resolve(pairing[k])]
      BY <2>1
    <2>3. \A k \in 1 .. n : fight[k] = Resolve(pairing[k]) /\ fight[k] \in AnyCall
      BY <1>4, <2>1, <2>2
    <2>4. fight \in [1 .. n -> AnyCall]
      BY <1>4, <2>1, <2>2
    <2> HIDE DEF fight
    <2> QED BY <1>3, <1>4, <2>1, <2>3, <2>4
  <1>6. \A c \in Frames(fight) : c.fn = "resolve_round.pair"
    <2> HIDE DEF fight
    <2> QED BY <1>5 DEF Frames
  <1>7. left \in Seq(AnyCall) /\ \A c \in Frames(left) : c.fn = "queue_broadcast"
    <2>1. <<bye>> \in Seq(AnyCall) /\ Frames(<<bye>>) = {bye}
      BY <1>4, FramesOfOne
    <2> QED BY <1>4, <2>1, EmptyCalls
  <1> DEFINE front == fight \o left
  <1>8. todo' = front \o <<last>>
    BY <1>1 DEF last, bye, eligible
  <1> HIDE DEF fight, left
  <1>9. /\ front \in Seq(AnyCall) /\ Frames(front) = Frames(fight) \cup Frames(left)
    BY <1>5, <1>7, FramesOfConcat
  <1>10. \A c \in Frames(front) : c.fn \notin AdmitFns \cup EndFns
    BY <1>6, <1>7, <1>9 DEF AdmitFns, EndFns
  <1> HIDE DEF front
  <1>11. <<last>> \in Seq(AnyCall) /\ Frames(<<last>>) = {last}
    BY <1>4, FramesOfOne
  <1>12. RStackOK' /\ Frames(todo') = Frames(front) \cup {last}
    <2>1. front \o <<last>> \in Seq(AnyCall)
      BY <1>9, <1>11
    <2>2. \A p, q \in Seq(AnyCall) : Frames(p \o q) = Frames(p) \cup Frames(q)
      BY FramesOfConcat
    <2>3. Frames(front \o <<last>>) = Frames(front) \cup Frames(<<last>>)
      BY <1>9, <1>11, <2>2
    <2> QED BY <1>8, <1>11, <2>1, <2>3 DEF RStackOK
  <1>13. NoAdmission'
    BY <1>4, <1>10, <1>12 DEF NoAdmission, AdmitFns
  <1>14. EndsLast'
    <2>1. /\ Len(front) \in Nat /\ Len(todo') = Len(front) + 1
          /\ \A k \in 1 .. Len(front) : todo'[k] = front[k]
      BY <1>8, <1>9, <1>11
    <2>2. \A k \in 1 .. Len(front) : todo'[k].fn \notin EndFns
      BY <1>10, <2>1 DEF Frames
    <2> QED BY <2>1, <2>2 DEF EndsLast
  <1> QED BY <1>2, <1>12, <1>13, <1>14 DEF StackInv, RepickCalm

LEMMA TimersStack ==
  ASSUME StackInv, phase = "SETUP", Timers
  PROVE  StackInv' /\ phase' = phase /\ \A c \in Frames(todo') : c.fn \notin RoundFns
  <1> DEFINE c1 == Call("close_lobby_if_needed")
             c2 == Call("expire_unready_setup_players")
             c3 == Call("chase")
  <1>1. /\ c1 \in AnyCall /\ c2 \in AnyCall /\ c3 \in AnyCall
        /\ c1.fn \in TimerFns /\ c2.fn \in TimerFns /\ c3.fn \in TimerFns
    <2>1. {"close_lobby_if_needed", "expire_unready_setup_players", "chase"}
             \subseteq RFns \cap TimerFns
      BY DEF RFns, Procedures, TimerFns
    <2> QED BY <2>1, AnyCallTypes
  <1>2. todo' = <<c1, c2, c3>> /\ phase' # "REPICK" /\ phase' = phase
    BY DEF Timers, match
  <1> HIDE DEF c1, c2, c3
  <1>3. todo' \in Seq(AnyCall) /\ Frames(todo') = {c1, c2, c3}
    BY <1>1, <1>2, FramesOfThree
  <1>4. \A c \in Frames(todo') : c.fn \notin AdmitFns \cup EndFns \cup RoundFns
    BY <1>1, <1>3, PlainNames DEF RoundFns, ResolveFns, EndFns
  <1> QED BY <1>2, <1>3, <1>4, IdleStack

LEMMA PlainStack ==
  ASSUME StackInv, todo' \in Seq(AnyCall), \A c \in Frames(todo') : c.fn \in Plain
  PROVE  StackInv' /\ \A c \in Frames(todo') : c.fn \notin RoundFns
  <1>1. \A c \in Frames(todo') : c.fn \notin AdmitFns \cup EndFns \cup RoundFns
                                   \cup ResolveFns \cup TimerFns
    BY PlainNames DEF RoundFns, ResolveFns, EndFns
  <1> QED BY <1>1, IdleStack

LEMMA StillStack ==
  ASSUME StackInv, todo' = <<>>
  PROVE  StackInv' /\ \A c \in Frames(todo') : c.fn \notin RoundFns
  BY EmptyCalls, PlainStack

(* A client that asks for the state and is too slow for it. *)
LEMMA GetStateStack ==
  ASSUME StackInv, NEW i, GetState(i)
  PROVE  /\ StackInv' /\ \A c \in Frames(todo') : c.fn \notin RoundFns
         /\ connected \subseteq connected' \/ Call("reevaluate_state") \in Frames(todo')
  <1>1. PICK lost \in SUBSET ({i} \cap lagging) :
           Queue([j \in {i} |-> StateLine(j)], lost) /\ todo' = After(lost)
    BY DEF GetState
  <1>2. StackInv' /\ \A c \in Frames(todo') : c.fn \notin RoundFns
    BY <1>1, AfterCalls, PlainStack
  <1>3. lost = {} => connected' = connected
    BY <1>1 DEF Queue
  <1> QED BY <1>1, <1>2, <1>3, AfterCalls

LEMMA LeaveStack ==
  ASSUME StackInv, NEW i, Leave(i)
  PROVE  /\ StackInv' /\ \A c \in Frames(todo') : c.fn \notin RoundFns
         /\ Call("reevaluate_state") \in Frames(todo')
  <1> DEFINE c == Call("reevaluate_state")
             p == Farewell(i)
  <1>1. c \in AnyCall /\ c.fn \in Plain
    BY ServerCall
  <1>2. p \in Seq(AnyCall) /\ \A e \in Frames(p) : e.fn \in Plain
    BY FarewellCalls
  <1>3. todo' = p \o <<c>>
    BY DEF Leave
  <1> HIDE DEF c, p
  <1>4. <<c>> \in Seq(AnyCall) /\ Frames(<<c>>) = {c}
    BY <1>1, FramesOfOne
  <1>5. Frames(p \o <<c>>) = Frames(p) \cup Frames(<<c>>)
    <2>1. \A u, v \in Seq(AnyCall) : Frames(u \o v) = Frames(u) \cup Frames(v)
      BY FramesOfConcat
    <2> QED BY <1>2, <1>4, <2>1
  <1>6. todo' \in Seq(AnyCall) /\ \A e \in Frames(todo') : e.fn \in Plain
    BY <1>1, <1>2, <1>3, <1>4, <1>5
  <1>7. c \in Frames(todo')
    BY <1>3, <1>4, <1>5
  <1> QED BY <1>6, <1>7, PlainStack DEF c

(* What an idle server does besides does not prolong the game. *)
LEMMA OthersStack ==
  ASSUME StackInv, Others
  PROVE  /\ StackInv'
         /\ Playing' => Playing
         /\ phase' = phase \/ (phase = "GAME_OVER" /\ phase' = "LOBBY_OPEN")
         /\ phase = "REPICK" =>
              \/ Call("reevaluate_state") \in Frames(todo')
              \/ connected \subseteq connected'
  <1>1. ASSUME phase' = phase \/ phase' = "LOBBY_OPEN",
               \A c \in Frames(todo') : c.fn \notin RoundFns
        PROVE  Playing' => Playing
    BY <1>1 DEF Playing
  <1>2. CASE phase = "SETUP" /\ Timers
    BY <1>1, <1>2, TimersStack
  <1>3. CASE phase = "SETUP" /\ SetupWindowEnds
    <2>1. todo' = <<>> /\ phase' = phase
      BY <1>3 DEF SetupWindowEnds, Idle
    <2> QED BY <1>1, <1>3, <2>1, StillStack
  <1>4. CASE \E i \in Slots : Leave(i)
    <2>1. phase' = phase
      BY <1>4 DEF Leave, match
    <2> QED BY <1>1, <1>4, <2>1, LeaveStack
  <1>5. CASE \E i \in Slots : GetState(i)
    <2>1. phase' = phase
      BY <1>5 DEF GetState, match
    <2> QED BY <1>1, <1>5, <2>1, GetStateStack
  <1>6. CASE \E i \in Slots : Accept(i) \/ FallBehind(i) \/ CatchUp(i)
    <2>1. todo' = <<>> /\ phase' = phase /\ connected \subseteq connected'
      BY <1>6 DEF Accept, FallBehind, CatchUp, Idle, match
    <2> QED BY <1>1, <2>1, StillStack
  <1>7. CASE \E i \in Slots : Rematch(i)
    <2>1. todo' = <<>> /\ phase = "GAME_OVER" /\ phase' = "LOBBY_OPEN"
      BY <1>7 DEF Rematch, FreshMatch, Idle
    <2> QED BY <1>1, <2>1, StillStack
  <1> QED BY <1>2, <1>3, <1>4, <1>5, <1>6, <1>7 DEF Others

LEMMA RepickStack ==
  ASSUME StackInv, NEW i, NEW c, Repick(i, c)
  PROVE  StackInv' /\ Playing /\ phase' = "REPICK"
  <1>1. todo = <<>> /\ phase = "REPICK" /\ Playing
    BY DEF Repick, Idle, Playing
  <1> DEFINE picks == [repick EXCEPT ![i] = c]
  <1>2. CASE FinishRepicks(picks, <<>>)
    <2>1. phase' = "REPICK"
      BY <1>1, <1>2 DEF FinishRepicks, match
    <2> HIDE DEF picks
    <2> QED BY <1>1, <1>2, <2>1, FinishStack
  <1>3. CASE UNCHANGED <<vars, in_round>>
    <2>1. todo' = <<>> /\ phase' = "REPICK"
      BY <1>1, <1>3 DEF vars, match
    <2> QED BY <1>1, <2>1, StillStack
  <1> QED BY <1>2, <1>3 DEF Repick

-----------------------------------------------------------------------------
(* What a step leaves of the players.  All but the last pick of a tie leave the
   choices of those who are admitted, and none takes up a player. *)
Kept ==
    /\ connected' \subseteq Slots /\ lagging' \subseteq Slots
    /\ choice' \in [Slots -> Choice \cup {NoChoice}]
    /\ Admitted' \subseteq Admitted /\ Winners' \subseteq Winners
    /\ Admitted' \cap waiting' \subseteq waiting
    /\ \A i \in Admitted' : /\ choice'[i] = choice[i]
                            /\ i \in spawn_chosen => i \in spawn_chosen'
    /\ \/ Admitted \cap connected' \subseteq Admitted'
       \/ phase # "LOBBY_OPEN" /\ phase' = "LOBBY_OPEN"

LEMMA UnchangedKept ==
  ASSUME RDataOK, UNCHANGED <<connected, registered, admitted, waiting, spawn_chosen, choice,
                              lagging>>,
         alive' \subseteq alive
  PROVE  Kept
  BY DEF RDataOK, Kept, Admitted, Winners, WonMatch

LEMMA PlayersKept ==
  ASSUME RDataOK, UNCHANGED players PROVE Kept
  BY UnchangedKept DEF players

LEMMA QueueKept ==
  ASSUME RDataOK, NEW said, NEW lost, Queue(said, lost)
  PROVE  Kept
  <1>1. connected' \subseteq Slots /\ lagging' \subseteq Slots
    BY DEF RDataOK, Queue
  <1>2. choice' \in [Slots -> Choice \cup {NoChoice}]
    BY DEF RDataOK, Queue
  <1>3. /\ Admitted' = Admitted \ lost /\ Winners' \subseteq Winners
        /\ Admitted' \cap waiting' \subseteq waiting
        /\ Admitted \cap connected' \subseteq Admitted'
    BY DEF Queue, Admitted, Winners, WonMatch
  <1>4. \A i \in Admitted' : /\ choice'[i] = choice[i]
                             /\ i \in spawn_chosen => i \in spawn_chosen'
    <2>1. \A i \in Admitted' : i \in Slots /\ i \notin lost
      BY <1>3 DEF RDataOK, Admitted
    <2> QED BY <2>1 DEF Queue
  <1> QED BY <1>1, <1>2, <1>3, <1>4 DEF Kept

LEMMA StartKept ==
  ASSUME RDataOK, StartActiveRound
  PROVE  /\ Kept /\ phase' = "ROUND_ACTIVE"
         /\ Admitted' = Admitted /\ Admitted' \cap waiting' = {}
         /\ choice' = choice /\ spawn_chosen' = spawn_chosen
  BY DEF RDataOK, Kept, StartActiveRound, StartRound, Admitted, Winners, WonMatch

(* The game goes on without taking anybody up, or does not go on. *)
LEMMA KeptInv ==
  ASSUME RInv, Kept, Playing' => Playing, phase' = "GAME_OVER" => phase = "GAME_OVER"
  PROVE  RDataOK' /\ PlayersReady' /\ OneTypeWins'
  <1>1. RDataOK'
    BY DEF Kept, RDataOK
  <1>2. PlayersReady'
    BY DEF RInv, Kept, PlayersReady, Ready
  <1>3. \A i \in Winners' : choice'[i] = choice[i] /\ i \in Winners
    BY DEF Kept, Winners, WonMatch
  <1>4. OneTypeWins'
    BY <1>3 DEF RInv, OneTypeWins, AtMostOneType
  <1> QED BY <1>1, <1>2, <1>4

LEMMA StartInv ==
  ASSUME RInv, StartActiveRound, Playing \/ AllAdmittedReady
  PROVE  RDataOK' /\ PlayersReady' /\ OneTypeWins'
  <1>1. /\ Kept /\ phase' = "ROUND_ACTIVE"
        /\ Admitted' = Admitted /\ Admitted' \cap waiting' = {}
        /\ choice' = choice /\ spawn_chosen' = spawn_chosen
    BY StartKept DEF RInv
  <1>2. \A i \in Admitted : Ready(i)
    BY DEF RInv, PlayersReady, AllAdmittedReady
  <1> QED BY <1>1, <1>2 DEF Kept, RDataOK, PlayersReady, OneTypeWins, Ready

(* Whoever wins was decided before: there was one player, or those alive held
   one choice and nobody was waiting. *)
LEMMA EndInv ==
  ASSUME RInv, EndGame, FewerThanTwo(Admitted) \/ (Playing /\ RoundDecided),
         Playing' => Playing
  PROVE  Kept /\ RDataOK' /\ PlayersReady' /\ OneTypeWins'
  <1>1. Kept
    BY QueueKept DEF RInv, EndGame
  <1>2. RDataOK'
    BY <1>1 DEF Kept, RDataOK
  <1>3. PlayersReady'
    BY <1>1 DEF RInv, Kept, PlayersReady, Ready
  <1>4. \A i \in Winners' : choice'[i] = choice[i] /\ i \in Winners
    BY <1>1 DEF Kept, Winners, WonMatch
  <1>5. \A i, j \in Winners : choice[i] = choice[j]
    <2>1. CASE FewerThanTwo(Admitted)
      BY <2>1 DEF FewerThanTwo, Winners, WonMatch
    <2>2. CASE Playing /\ RoundDecided
      <3>1. Winners \subseteq Alive
        BY <2>2 DEF RInv, PlayersReady, Winners, WonMatch, Alive
      <3> QED BY <2>2, <3>1 DEF RoundDecided, FewerThanTwo, AtMostOneType
    <2> QED BY <2>1, <2>2
  <1>6. OneTypeWins'
    BY <1>4, <1>5 DEF OneTypeWins, AtMostOneType
  <1> QED BY <1>1, <1>2, <1>3, <1>6

LEMMA FollowTypes ==
  ASSUME RTypeOK, Kept, Follow, phase' \in Phases \cup {"REPICK"}
  PROVE  RTypeOK'
  <1>1. CASE round_no' > round_no
    BY <1>1 DEF RTypeOK, Follow, NoRepicks, Admitted
  <1>2. CASE ~(round_no' > round_no)
    <2> DEFINE kept == IF phase # "LOBBY_OPEN" /\ phase' = "LOBBY_OPEN" THEN {} ELSE connected'
    <2>1. /\ in_round' = in_round \cap kept
          /\ repick' = [i \in Slots |-> IF i \in kept THEN repick[i] ELSE NoChoice]
      BY <1>2 DEF Follow
    <2>2. Admitted \cap kept \subseteq Admitted'
      BY DEF Kept
    <2> HIDE DEF kept
    <2> QED BY <2>1, <2>2 DEF RTypeOK
  <1> QED BY <1>1, <1>2

-----------------------------------------------------------------------------
(* The invariant under the steps. *)

(* The functions of MatchServer leave the players and the phase, or settle the
   match, and look before they do. *)
LEMMA ServerSettles ==
  ASSUME RInv, ServerStep
  PROVE  \/ Kept /\ phase' \in {phase, "SETUP"}
         \/ EndGame /\ (FewerThanTwo(Admitted) \/ (phase = "ROUND_ACTIVE" /\ RoundDecided))
         \/ StartActiveRound /\ AllAdmittedReady
  <1>1. /\ RDataOK /\ Step
        /\ phase \in Phases \cup {"REPICK"}
        /\ Running("reevaluate_state") => phase \in Phases
    BY DEF RInv, RTypeOK, ServerStep
  <1> DEFINE Done ==
        \/ Kept /\ phase' \in {phase, "SETUP"}
        \/ EndGame /\ (FewerThanTwo(Admitted) \/ (phase = "ROUND_ACTIVE" /\ RoundDecided))
        \/ StartActiveRound /\ AllAdmittedReady
  <1> SUFFICES Done
    OBVIOUS
  <1>2. ASSUME UNCHANGED <<players, match>> PROVE Done
    BY <1>1, <1>2, PlayersKept DEF match
  <1>3. ASSUME NEW said, NEW lost, Queue(said, lost), UNCHANGED match PROVE Done
    BY <1>1, <1>3, QueueKept DEF match
  <1>4. SettleSetup => Done
    BY <1>2 DEF SettleSetup
  <1>5. CASE QueueBroadcast \/ BroadcastGameState
    BY <1>3, <1>5 DEF QueueBroadcast, BroadcastGameState
  <1>6. CASE BroadcastPositions \/ Expire
    BY <1>2, <1>6 DEF BroadcastPositions, Expire
  <1>7. CASE Reevaluate
    <2>1. CASE phase = "LOBBY_OPEN"
      BY <1>1, <1>7, <2>1, PlayersKept DEF Reevaluate, ReevaluateLobby
    <2>2. CASE phase = "SETUP"
      BY <1>4, <1>7, <2>2 DEF Reevaluate
    <2>3. CASE phase = "ROUND_ACTIVE"
      BY <1>2, <1>7, <2>3 DEF Reevaluate, ReevaluateRound
    <2>4. CASE phase = "GAME_OVER"
      BY <1>2, <1>7, <2>4 DEF Reevaluate
    <2> QED BY <1>1, <1>7, <2>1, <2>2, <2>3, <2>4 DEF Reevaluate, Phases
  <1>8. ~MaybeAdmit /\ ~AdmitTail
    BY RunningFrame DEF RInv, MaybeAdmit, AdmitTail, StackInv, NoAdmission, AdmitFns
  <1>9. CASE CloseLobby
    BY <1>1, <1>2, <1>9, PlayersKept DEF CloseLobby
  <1>10. CASE CloseLobbyTail
    BY <1>2, <1>10 DEF CloseLobbyTail
  <1>11. CASE ExpireSlot
    <2>1. UNCHANGED match
      BY <1>11 DEF ExpireSlot
    <2> QED BY <1>2, <1>3, <1>11, <2>1 DEF ExpireSlot, DropLoudly
  <1>12. CASE ExpireTail
    BY <1>4, <1>12 DEF ExpireTail
  <1>13. CASE Chase
    <2>1. /\ alive' \subseteq alive /\ UNCHANGED match
          /\ UNCHANGED <<connected, registered, admitted, waiting, spawn_chosen, choice, lagging>>
      BY <1>13 DEF Chase
    <2> QED BY <1>1, <2>1, UnchangedKept DEF match
  <1> QED BY <1>1, <1>5, <1>6, <1>7, <1>8, <1>9, <1>10, <1>11, <1>12, <1>13 DEF Step

(* While everybody picks again the server only broadcasts, and whoever it drops
   is seen to by a reevaluation. *)
LEMMA ServerOwes ==
  ASSUME RInv, ServerStep, phase' = "REPICK"
  PROVE  RepickOwed'
  <1>1. /\ RDataOK /\ Step /\ Follow /\ StackInv /\ RTypeOK
        /\ Reevaluate => phase \in Phases
    BY DEF RInv, RTypeOK, ServerStep, Reevaluate
  <1>2. phase = "REPICK"
    BY <1>1, StepPhase
  <1>3. ~Running("reevaluate_state")
    BY <1>2 DEF ServerStep
  <1>4. QueueBroadcast \/ BroadcastGameState \/ BroadcastPositions
    <2>1. \A f \in AdmitFns \cup TimerFns : ~Running(f)
      BY <1>1, <1>2, RunningFrame DEF StackInv, NoAdmission, RepickCalm
    <2> QED BY <1>1, <1>3, <2>1
        DEF Step, Reevaluate, MaybeAdmit, AdmitTail, CloseLobby, CloseLobbyTail, Expire,
            ExpireSlot, ExpireTail, Chase, AdmitFns, TimerFns
  <1>5. /\ Head(todo).fn \notin {"reevaluate_state", "finish_repicks.tail"}
        /\ Frames(todo) \ {Head(todo)} \subseteq Frames(todo')
    BY <1>1, <1>4, ServerStack DEF QueueBroadcast, BroadcastGameState, BroadcastPositions, Running
  <1>6. ASSUME NEW c \in Frames(todo), c.fn \in {"reevaluate_state", "finish_repicks.tail"}
        PROVE  RepickOwed'
    BY <1>5, <1>6 DEF RepickOwed
  <1>7. ASSUME ~FewerThanTwo(Alive), NEW i \in Alive, repick[i] = NoChoice,
               Alive' = Alive, connected' = connected
        PROVE  RepickOwed'
    <2>1. i \in Slots /\ i \in connected
      BY <1>1 DEF RDataOK, Alive, Admitted
    <2>2. repick'[i] = NoChoice
      BY <1>1, <1>2, <1>7, <2>1 DEF Follow, NoRepicks
    <2> QED BY <1>7, <2>2 DEF RepickOwed, FewerThanTwo
  <1>8. ASSUME NEW said, NEW lost, Queue(said, lost), Return(After(lost)), lost # {}
        PROVE  RepickOwed'
    <2>1. Call("reevaluate_state") \in Frames(After(lost)) /\ After(lost) \in Seq(AnyCall)
      BY <1>8, AfterCalls
    <2>2. todo # <<>>
      BY <1>4 DEF QueueBroadcast, BroadcastGameState, BroadcastPositions, Running
    <2>3. Frames(todo') = Frames(After(lost)) \cup Frames(Tail(todo))
      BY <1>1, <1>8, <2>1, <2>2, Returning DEF StackInv
    <2>4. Call("reevaluate_state").fn = "reevaluate_state"
      BY DEF Call
    <2> QED BY <2>1, <2>3, <2>4 DEF RepickOwed
  <1>9. ASSUME ~FewerThanTwo(Alive), NEW i \in Alive, repick[i] = NoChoice
        PROVE  RepickOwed'
    <2>1. ASSUME NEW said, NEW lost, Queue(said, lost), lost = {}
          PROVE  Alive' = Alive /\ connected' = connected
      BY <2>1 DEF Queue, Alive, Admitted
    <2>2. ASSUME NEW said, NEW lost, Queue(said, lost), Return(After(lost))
          PROVE  RepickOwed'
      BY <1>7, <1>8, <1>9, <2>1, <2>2
    <2>3. CASE QueueBroadcast \/ BroadcastGameState
      BY <2>2, <2>3 DEF QueueBroadcast, BroadcastGameState
    <2>4. CASE BroadcastPositions
      <3>1. Alive' = Alive /\ connected' = connected
        BY <2>4 DEF BroadcastPositions, players, Alive, Admitted
      <3> QED BY <1>7, <1>9, <3>1
    <2> QED BY <1>4, <2>3, <2>4
  <1> QED BY <1>2, <1>6, <1>9 DEF RInv, RepickOwed

LEMMA ServerInv == ASSUME RInv, ServerStep PROVE RInv'
  <1>1. /\ StackInv' /\ todo # <<>>
        /\ \A c \in Frames(todo') : c.fn \in RoundFns => c \in Frames(todo)
    BY ServerStack DEF RInv
  <1>2. phase' \in {"SETUP", "GAME_OVER"} => (Playing' => Playing)
    BY <1>1 DEF Playing
  <1>3. RepickOwed'
    BY ServerOwes DEF RepickOwed
  <1>4. Follow /\ RTypeOK
    BY DEF RInv, ServerStep
  <1>5. CASE Kept /\ phase' \in {phase, "SETUP"}
    <2>1. Playing' => Playing
      BY <1>1, <1>5 DEF Playing
    <2>2. RDataOK' /\ PlayersReady' /\ OneTypeWins'
      BY <1>5, <2>1, KeptInv
    <2>3. RTypeOK'
      BY <1>4, <1>5, FollowTypes DEF RTypeOK, Phases
    <2> QED BY <1>1, <1>3, <2>2, <2>3 DEF RInv
  <1>6. CASE EndGame /\ (FewerThanTwo(Admitted) \/ (phase = "ROUND_ACTIVE" /\ RoundDecided))
    <2>1. phase' = "GAME_OVER" /\ (phase = "ROUND_ACTIVE" => Playing)
      BY <1>6 DEF EndGame, Playing
    <2>2. Kept /\ RDataOK' /\ PlayersReady' /\ OneTypeWins'
      BY <1>2, <1>6, <2>1, EndInv
    <2>3. RTypeOK'
      BY <1>4, <2>1, <2>2, FollowTypes DEF Phases
    <2> QED BY <1>1, <1>3, <2>2, <2>3 DEF RInv
  <1>7. CASE StartActiveRound /\ AllAdmittedReady
    <2>1. RDataOK' /\ PlayersReady' /\ OneTypeWins'
      BY <1>7, StartInv
    <2>2. RTypeOK'
      BY <1>4, <1>7, StartKept, FollowTypes DEF RInv, Phases
    <2> QED BY <1>1, <1>3, <2>1, <2>2 DEF RInv
  <1> QED BY <1>5, <1>6, <1>7, ServerSettles

(* A round's pairs, one by one. *)
LEMMA PairInv == ASSUME RInv, ResolvePair \/ Eliminated PROVE RInv'
  <1>1. StackInv' /\ Playing /\ phase # "REPICK" /\ phase' = phase
    BY PairStack DEF RInv
  <1>2. Kept /\ RTypeOK'
    <2>1. CASE ResolvePair
      <3>1. Kept
        BY <2>1, UnchangedKept DEF RInv, ResolvePair
      <3>2. in_round' \subseteq in_round /\ repick' = repick /\ Admitted' = Admitted
        BY <2>1 DEF ResolvePair, Admitted
      <3> QED BY <1>1, <3>1, <3>2 DEF RInv, RTypeOK
    <2>2. CASE Eliminated
      <3>1. Kept /\ Follow
        BY <2>2, QueueKept DEF RInv, Eliminated
      <3> QED BY <1>1, <3>1, FollowTypes DEF RInv, RTypeOK
    <2> QED BY <2>1, <2>2
  <1>3. RDataOK' /\ PlayersReady' /\ OneTypeWins'
    BY <1>1, <1>2, KeptInv
  <1> QED BY <1>1, <1>2, <1>3 DEF RInv, RepickOwed

LEMMA SettleInv == ASSUME RInv, Settle PROVE RInv'
  <1>1. StackInv' /\ Playing /\ phase # "REPICK" /\ phase' = phase
    BY SettleStack DEF RInv, Settle, match
  <1>2. Kept
    BY PlayersKept DEF RInv, Settle
  <1>3. RTypeOK'
    BY <1>1 DEF RInv, RTypeOK, Settle
  <1>4. RDataOK' /\ PlayersReady' /\ OneTypeWins'
    BY <1>1, <1>2, KeptInv
  <1> QED BY <1>1, <1>3, <1>4 DEF RInv, RepickOwed

(* A round of pairs leaves one player, a tie, or the next round. *)
LEMMA EndOfResolutionInv == ASSUME RInv, EndOfResolution PROVE RInv'
  <1>1. Playing /\ todo # <<>> /\ StackInv
    BY ResolvingPhase DEF RInv, EndOfResolution, ResolveFns
  <1>2. CASE EndGame /\ FewerThanTwo(Alive) /\ Follow
    <2>1. StackInv' /\ phase' = "GAME_OVER"
      BY <1>1, <1>2, StartStack DEF EndGame
    <2>2. Kept /\ RDataOK' /\ PlayersReady' /\ OneTypeWins'
      BY <1>1, <1>2, EndInv DEF RoundDecided
    <2>3. RTypeOK'
      BY <1>2, <2>1, <2>2, FollowTypes DEF RInv, Phases
    <2> QED BY <2>1, <2>2, <2>3 DEF RInv, RepickOwed
  <1>3. CASE StartActiveRound /\ Follow
    <2>1. StackInv' /\ Kept /\ phase' = "ROUND_ACTIVE"
      BY <1>1, <1>3, StartStack, StartKept DEF RInv
    <2>2. RDataOK' /\ PlayersReady' /\ OneTypeWins'
      BY <1>1, <1>3, StartInv
    <2>3. RTypeOK'
      BY <1>3, <2>1, FollowTypes DEF RInv, Phases
    <2> QED BY <2>1, <2>2, <2>3 DEF RInv, RepickOwed
  <1>4. CASE BeginRepicks /\ ~FewerThanTwo(Alive)
    <2>1. /\ StackInv' /\ UNCHANGED players /\ phase' = "REPICK"
          /\ in_round' = {} /\ repick' = NoRepicks
      BY <1>1, <1>4, BeginStack DEF BeginRepicks, EndOfResolution
    <2>2. RDataOK' /\ PlayersReady' /\ OneTypeWins'
      BY <1>1, <2>1, PlayersKept, KeptInv DEF RInv
    <2>3. RTypeOK'
      BY <2>1 DEF RTypeOK, NoRepicks
    <2>4. RepickOwed'
      <3>1. PICK i \in Alive : TRUE
        BY <1>4 DEF FewerThanTwo
      <3>2. Alive' = Alive /\ Alive \subseteq Slots
        BY <2>1 DEF players, Alive, Admitted, RInv, RDataOK
      <3> QED BY <1>4, <2>1, <3>1, <3>2 DEF RepickOwed, NoRepicks, FewerThanTwo
    <2> QED BY <2>1, <2>2, <2>3, <2>4 DEF RInv
  <1> QED BY <1>2, <1>3, <1>4 DEF EndOfResolution

LEMMA FinishTailInv == ASSUME RInv, FinishRepicksTail PROVE RInv'
  <1>1. Playing /\ todo # <<>> /\ StackInv /\ StartActiveRound /\ Follow
    BY RunningFrame DEF RInv, FinishRepicksTail, Playing, RoundFns
  <1>2. StackInv' /\ Kept /\ phase' = "ROUND_ACTIVE"
    BY <1>1, StartStack, StartKept DEF RInv
  <1>3. RDataOK' /\ PlayersReady' /\ OneTypeWins'
    BY <1>1, StartInv
  <1>4. RTypeOK'
    BY <1>1, <1>2, FollowTypes DEF RInv, Phases
  <1> QED BY <1>2, <1>3, <1>4 DEF RInv, RepickOwed

(* The last pick takes the place of every choice, and is one. *)
LEMMA FinishInv ==
  ASSUME RInv, phase = "REPICK", NEW picks \in [Slots -> Choice \cup {NoChoice}], NEW rest,
         AllAliveRepicked(picks), FinishRepicks(picks, rest),
         \/ todo # <<>> /\ rest = Tail(todo)
         \/ todo = <<>> /\ rest = <<>>
  PROVE  RInv'
  <1>1. StackInv' /\ Call("finish_repicks.tail") \in Frames(todo')
    BY FinishStack DEF RInv
  <1>2. /\ phase' = "REPICK" /\ Admitted' = Admitted
        /\ UNCHANGED <<connected, waiting, spawn_chosen, lagging, in_round>>
        /\ choice' = [i \in Slots |-> IF i \in Alive THEN picks[i] ELSE choice[i]]
        /\ repick' = [i \in Slots |-> IF i \in Alive THEN NoChoice ELSE picks[i]]
    BY DEF FinishRepicks, match, Admitted
  <1>3. RTypeOK' /\ RDataOK'
    BY <1>2 DEF RInv, RTypeOK, RDataOK
  <1>4. PlayersReady'
    <2>1. /\ Admitted \cap waiting = {} /\ Admitted \subseteq Slots
          /\ \A i \in Admitted : choice[i] # NoChoice /\ i \in spawn_chosen
      BY DEF RInv, PlayersReady, Playing, Ready, RDataOK, Admitted
    <2>2. \A i \in Admitted : choice'[i] # NoChoice
      BY <1>2, <2>1 DEF AllAliveRepicked
    <2> QED BY <1>2, <2>1, <2>2 DEF PlayersReady, Ready
  <1>5. RepickOwed'
    <2>1. Call("finish_repicks.tail").fn = "finish_repicks.tail"
      BY DEF Call
    <2> QED BY <1>1, <2>1 DEF RepickOwed
  <1>6. OneTypeWins'
    BY <1>2 DEF OneTypeWins
  <1> QED BY <1>1, <1>3, <1>4, <1>5, <1>6 DEF RInv

(* REPICK: the last one, or one of those that are still waited for. *)
LEMMA RepickInv ==
  ASSUME RInv, NEW i \in Slots, NEW c \in Picks, Repick(i, c)
  PROVE  RInv'
  <1> DEFINE picks == [repick EXCEPT ![i] = c]
  <1>1. /\ phase = "REPICK" /\ todo = <<>> /\ Frames(todo) = {}
        /\ picks \in [Slots -> Choice \cup {NoChoice}]
    BY FramesOfEmpty, MatchServerAssumption DEF Repick, Idle, RInv, RTypeOK
  <1>2. CASE AllAliveRepicked(picks) /\ FinishRepicks(picks, <<>>)
    <2> HIDE DEF picks
    <2> QED BY <1>1, <1>2, FinishInv
  <1>3. CASE ~AllAliveRepicked(picks) /\ repick' = picks /\ UNCHANGED <<vars, in_round>>
    <2>1. StackInv' /\ Playing /\ phase' = "REPICK"
      BY RepickStack DEF RInv
    <2>2. UNCHANGED players /\ in_round' = in_round /\ Admitted' = Admitted /\ Alive' = Alive
      BY <1>3 DEF vars, players, Admitted, Alive
    <2>3. RDataOK' /\ PlayersReady' /\ OneTypeWins'
      BY <2>1, <2>2, PlayersKept, KeptInv DEF RInv
    <2>4. RTypeOK'
      BY <1>1, <1>3, <2>1, <2>2 DEF RInv, RTypeOK
    <2>5. RepickOwed'
      <3>1. ~FewerThanTwo(Alive)
        BY <1>1 DEF RInv, RepickOwed
      <3>2. \E j \in Alive : picks[j] = NoChoice
        BY <1>3, <3>1 DEF AllAliveRepicked, FewerThanTwo
      <3> HIDE DEF picks
      <3> QED BY <1>3, <2>2, <3>1, <3>2 DEF RepickOwed, FewerThanTwo
    <2> QED BY <2>1, <2>3, <2>4, <2>5 DEF RInv
  <1> QED BY <1>2, <1>3 DEF Repick

(* A departure in the phase of repicks: it may have been the one waited for. *)
LEMMA ReevaluateRepickInv == ASSUME RInv, ReevaluateRepick PROVE RInv'
  <1>1. phase = "REPICK" /\ todo # <<>> /\ StackInv /\ Playing
    BY DEF RInv, ReevaluateRepick, Running, Playing
  <1>2. CASE EndGame /\ FewerThanTwo(Alive) /\ Follow
    <2>1. StackInv' /\ phase' = "GAME_OVER"
      BY <1>1, <1>2, StartStack DEF EndGame
    <2>2. Kept /\ RDataOK' /\ PlayersReady' /\ OneTypeWins'
      BY <1>1, <1>2, EndInv DEF RoundDecided
    <2>3. RTypeOK'
      BY <1>2, <2>1, <2>2, FollowTypes DEF RInv, Phases
    <2> QED BY <2>1, <2>2, <2>3 DEF RInv, RepickOwed
  <1>3. CASE AllAliveRepicked(repick) /\ FinishRepicks(repick, Tail(todo))
    BY <1>1, <1>3, FinishInv DEF RInv, RTypeOK
  <1>4. CASE /\ ~FewerThanTwo(Alive) /\ ~AllAliveRepicked(repick)
             /\ Return(<<>>) /\ UNCHANGED <<players, match, in_round, repick>>
    <2>1. phase' = "REPICK" /\ Admitted' = Admitted /\ Alive' = Alive
      BY <1>1, <1>4 DEF players, match, Admitted, Alive
    <2>2. StackInv'
      <3>1. <<>> \in Seq(AnyCall) /\ \A c \in Frames(<<>>) : FALSE
        BY EmptyCalls
      <3> QED BY <1>1, <1>4, <3>1, ReturnStack
    <2>3. RDataOK' /\ PlayersReady' /\ OneTypeWins'
      BY <1>1, <1>4, <2>1, PlayersKept, KeptInv DEF RInv
    <2>4. RTypeOK'
      BY <1>4, <2>1 DEF RInv, RTypeOK
    <2>5. RepickOwed'
      <3>1. \E j \in Alive : repick[j] = NoChoice
        BY <1>4 DEF AllAliveRepicked, FewerThanTwo
      <3> QED BY <1>4, <2>1, <3>1 DEF RepickOwed, FewerThanTwo
    <2> QED BY <2>2, <2>3, <2>4, <2>5 DEF RInv
  <1> QED BY <1>2, <1>3, <1>4 DEF ReevaluateRepick

LEMMA ResolveRoundInv == ASSUME RInv, ResolveRound PROVE RInv'
  <1>1. /\ phase = "ROUND_ACTIVE" /\ phase' = phase
        /\ UNCHANGED <<players, in_round, repick>>
    BY DEF ResolveRound, match
  <1>2. StackInv'
    BY ResolveRoundStack DEF RInv
  <1>3. RDataOK' /\ PlayersReady' /\ OneTypeWins'
    BY <1>1, PlayersKept, KeptInv DEF RInv, Playing
  <1>4. RTypeOK'
    BY <1>1 DEF RInv, RTypeOK, players, Admitted
  <1> QED BY <1>1, <1>2, <1>3, <1>4 DEF RInv, RepickOwed

LEMMA OthersInv == ASSUME RInv, Others PROVE RInv'
  <1>1. /\ StackInv'
        /\ Playing' => Playing
        /\ phase' = phase \/ (phase = "GAME_OVER" /\ phase' = "LOBBY_OPEN")
        /\ phase = "REPICK" =>
             \/ Call("reevaluate_state") \in Frames(todo')
             \/ connected \subseteq connected'
    BY OthersStack DEF RInv
  <1>2. Kept
    <2>1. ASSUME UNCHANGED players PROVE Kept
      BY <2>1, PlayersKept DEF RInv
    <2>2. CASE Timers \/ SetupWindowEnds
      BY <2>1, <2>2 DEF Timers, SetupWindowEnds
    <2>3. ASSUME NEW i \in Slots, Leave(i) \/ GetState(i) PROVE Kept
      BY <2>3, QueueKept DEF RInv, Leave, DropLoudly, GetState
    <2>4. ASSUME NEW i \in Slots, FallBehind(i) \/ CatchUp(i) PROVE Kept
      BY <2>4 DEF RInv, RDataOK, FallBehind, CatchUp, Kept, Admitted, Winners, WonMatch
    <2>5. ASSUME NEW i \in Slots, Accept(i) PROVE Kept
      BY <2>5 DEF RInv, RDataOK, Accept, ResetProgress, Kept, Admitted, Winners, WonMatch
    <2>6. ASSUME NEW i \in Slots, Rematch(i) PROVE Kept
      <3>1. /\ phase # "LOBBY_OPEN" /\ phase' = "LOBBY_OPEN"
            /\ connected' \subseteq Slots /\ lagging' \subseteq Slots
        BY <2>6 DEF RInv, RDataOK, Rematch, FreshMatch
      <3>2. choice' \in [Slots -> Choice \cup {NoChoice}]
        BY <2>6 DEF RInv, RDataOK, Rematch, ResetProgress
      <3>3. Admitted' = {} /\ Winners' = {}
        BY <2>6 DEF Rematch, ResetProgress, ResetSlots, Registered, Admitted, Winners, WonMatch
      <3> QED BY <3>1, <3>2, <3>3 DEF Kept
    <2> QED BY <2>2, <2>3, <2>4, <2>5, <2>6 DEF Others
  <1>3. RDataOK' /\ PlayersReady' /\ OneTypeWins'
    BY <1>1, <1>2, KeptInv
  <1>4. RTypeOK'
    BY <1>1, <1>2, FollowTypes DEF RInv, Others, RTypeOK, Phases
  <1>5. RepickOwed'
    <2> SUFFICES ASSUME phase' = "REPICK", connected \subseteq connected'
                 PROVE  RepickOwed'
      <3>1. Call("reevaluate_state").fn = "reevaluate_state"
        BY DEF Call
      <3> QED BY <1>1, <3>1 DEF RepickOwed
    <2>1. phase = "REPICK"
      BY <1>1
    <2>2. Frames(todo) = {}
      BY FramesOfEmpty DEF Others, Timers, SetupWindowEnds, Accept, GetState, Rematch, Leave,
            FallBehind, CatchUp, Idle
    <2>3. ~FewerThanTwo(Alive) /\ \E i \in Alive : repick[i] = NoChoice
      BY <2>1, <2>2 DEF RInv, RepickOwed
    <2>4. Alive' = Alive
      <3>1. ASSUME NEW i \in Slots, Accept(i) \/ FallBehind(i) \/ CatchUp(i)
            PROVE  Alive' = Alive
        BY <3>1 DEF Accept, ResetProgress, FallBehind, CatchUp, Alive, Admitted
      <3>2. ASSUME NEW i \in Slots, GetState(i) PROVE Alive' = Alive
        BY <3>2 DEF GetState, Queue, Alive, Admitted
      <3>3. ASSUME NEW i \in Slots, Leave(i) PROVE FALSE
        BY <3>3 DEF Leave, DropLoudly, Queue
      <3> QED BY <2>1, <3>1, <3>2, <3>3 DEF Others, Rematch
    <2>5. \A i \in Alive : repick[i] = NoChoice => repick'[i] = NoChoice
      BY DEF RInv, RDataOK, Others, Follow, NoRepicks, Alive, Admitted
    <2> QED BY <2>3, <2>4, <2>5 DEF RepickOwed, FewerThanTwo
  <1> QED BY <1>1, <1>3, <1>4, <1>5 DEF RInv

LEMMA RInitInv == RInit => RInv
  <1> SUFFICES ASSUME RInit PROVE RInv
    OBVIOUS
  <1>1. todo = <<>> /\ Frames(todo) = {} /\ lagging = {} /\ repick = NoRepicks
    BY FramesOfEmpty DEF RInit
  <1>2. StackInv
    BY <1>1, EmptySeq DEF StackInv, RStackOK, NoAdmission, EndsLast, RepickCalm, Frames
  <1>3. CASE InSetup /\ in_round = {}
    <2>1. phase = "SETUP" /\ connected \subseteq Slots
          /\ choice \in [Slots -> Picks \cup {NoChoice}]
      BY <1>3 DEF InSetup
    <2>2. RTypeOK /\ RDataOK
      BY <1>1, <1>3, <2>1, MatchServerAssumption DEF RTypeOK, RDataOK, NoRepicks, Phases
    <2>3. PlayersReady /\ OneTypeWins /\ RepickOwed
      BY <1>1, <2>1 DEF PlayersReady, Playing, OneTypeWins, RepickOwed
    <2> QED BY <1>2, <2>2, <2>3 DEF RInv
  <1>4. CASE InRound
    <2>1. /\ phase = "ROUND_ACTIVE" /\ connected = Slots /\ in_round = Slots
          /\ registered = Slots /\ admitted = Slots /\ waiting = {} /\ spawn_chosen = Slots
          /\ choice \in [Slots -> Picks]
      BY <1>4 DEF InRound
    <2>2. RTypeOK /\ RDataOK
      BY <1>1, <2>1, MatchServerAssumption DEF RTypeOK, RDataOK, NoRepicks, Phases, Admitted
    <2>3. \A i \in Slots : choice[i] # NoChoice
      BY <2>1, MatchServerAssumption DEF Choice, NoChoice
    <2>4. PlayersReady /\ OneTypeWins /\ RepickOwed
      BY <2>1, <2>3 DEF PlayersReady, OneTypeWins, RepickOwed, Ready, Admitted
    <2> QED BY <1>2, <2>2, <2>4 DEF RInv
  <1> QED BY <1>3, <1>4 DEF RInit

LEMMA RInvStep == RInv /\ [RNext]_rvars => RInv'
  <1> SUFFICES ASSUME RInv, [RNext]_rvars PROVE RInv'
    OBVIOUS
  <1>1. CASE RoundStep
    BY <1>1, PairInv, SettleInv, EndOfResolutionInv, FinishTailInv, ReevaluateRepickInv
       DEF RoundStep
  <1>2. CASE UNCHANGED rvars
    <2>1. /\ RTypeOK' /\ RDataOK' /\ StackInv'
      BY <1>2 DEF RInv, rvars, vars, players, match, RTypeOK, RDataOK, StackInv, RStackOK,
                  NoAdmission, EndsLast, RepickCalm, Frames, Admitted
    <2>2. PlayersReady' /\ OneTypeWins' /\ RepickOwed'
      BY <1>2 DEF RInv, rvars, vars, players, match, PlayersReady, Playing, Ready, OneTypeWins,
                  RepickOwed, FewerThanTwo, Winners, WonMatch, AtMostOneType, Alive, Admitted,
                  Frames
    <2> QED BY <2>1, <2>2 DEF RInv
  <1> QED BY <1>1, <1>2, ServerInv, OthersInv, ResolveRoundInv, RepickInv DEF RNext

LEMMA RInvAlways == RSpec => []RInv
  <1>1. RInit => RInv
    BY RInitInv
  <1>2. RInv /\ [RNext]_rvars => RInv'
    BY RInvStep
  <1> QED BY <1>1, <1>2, PTL DEF RSpec

-----------------------------------------------------------------------------
(* Whoever is marked as having been in the round from its start is admitted and
   connected: drop_player and reset_match clear the mark with the slot
   (game.c:105-133). *)
THEOREM RoundsTypeCorrect == RSpec => []RTypeOK
  <1>1. RInv => RTypeOK
    BY DEF RInv
  <1> QED BY <1>1, RInvAlways, PTL

(* The phase without a deadline never waits for nobody: at rest somebody who is
   alive has not picked, and has a rival (server_state.c:139-173, 470-482). *)
THEOREM RepickWaitsAlways == RSpec => []RepickWaitsForSomebody
  <1>1. RInv => RepickWaitsForSomebody
    BY FramesOfEmpty DEF RInv, RepickOwed, RepickWaitsForSomebody, Idle
  <1> QED BY <1>1, RInvAlways, PTL

(* However the rounds, the repicks and the departures between them end a match,
   those who win it hold one choice (server_state.c:203-206, 398-415). *)
THEOREM RoundsOneTypeWins == RSpec => []OneTypeWins
  <1>1. RInv => OneTypeWins
    BY DEF RInv
  <1> QED BY <1>1, RInvAlways, PTL

(* Nobody plays a round without a choice and a spawn, after any number of
   repicks (server_state.c:456-468, 550-581). *)
THEOREM RoundsUnreadyNeverPlay == RSpec => []UnreadyNeverPlay
  <1>1. RInv => UnreadyNeverPlay
    BY DEF RInv, PlayersReady, Playing, UnreadyNeverPlay, Alive
  <1> QED BY <1>1, RInvAlways, PTL
=============================================================================
