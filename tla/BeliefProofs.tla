---------------------------- MODULE BeliefProofs ----------------------------
(***************************************************************************)
(* Theorems of Session on what the clients believe.  A client's picture of  *)
(* the match is a fold over all the lines it has ever read, and the lines   *)
(* come late: the invariant speaks of its View, the picture it will have    *)
(* when everything on its way has been read, and says what of that picture  *)
(* is true of the server at every moment, in the middle of handlers too.    *)
(* As Session has it, that is while no output buffer fills.                *)
(***************************************************************************)
EXTENDS SessionProofs

-----------------------------------------------------------------------------
(* What a client will believe when it has read everything on its way, and what
   of that is true at every moment. *)

View(i) == Believes(client[i], inbox[i])

(* A snapshot is to come: the client is going to ask, or has asked. *)
Owes(i) == ~client[i].state_request_sent \/ outbox[i] # <<>>

(* A question for a name is open, and its answer is on the way, or else the
   question itself, with the name it will have been about. *)
Asked(i) ==
    /\ client[i].name_check_pending <=>
          ~None(outbox[i], Hellos) \/ ~None(inbox[i], AnswerLines)
    /\ AtMostOne(outbox[i], Hellos) /\ AtMostOne(inbox[i], AnswerLines)
    /\ None(outbox[i], Hellos) \/ None(inbox[i], AnswerLines)
    /\ None(outbox[i], HellosBut(client[i].pending_name))
    /\ client[i].state_request_sent => Asks(outbox[i])
    /\ todo = <<Admission(i)>> => Owes(i)

KnowsName(v, i) ==
    /\ v.name_registered <=> i \in registered
    /\ i \in registered => v.my_name = name[i]

KnowsMatch(v, i) ==
    /\ v.joined_match <=> i \in admitted
    /\ ~v.repick_phase
    /\ v.game_over <=> i \in Admitted /\ phase = "GAME_OVER"
    /\ v.match_result = 1 <=> v.game_over /\ WonMatch(i)

KnowsLobby(v, i) ==
    /\ phase # "LOBBY_OPEN" => ~v.can_attempt_join \/ BroadcastOf("LOBBY_CLOSED")
    /\ phase = "LOBBY_OPEN" /\ i \in registered \ admitted /\ ~Owes(i) => v.can_attempt_join

(* The players below this slot are shown as they are. *)
ReachedBy(stack) ==
    IF stack = <<>> THEN MaxPlayers
    ELSE LET call == Head(stack)
         IN  IF call.fn = "broadcast_positions" THEN call.slot
             ELSE IF call = Broadcast("PLAYER") THEN stack[2].slot - 1
             ELSE IF call = Broadcast("ROUND_START") THEN 0
             ELSE MaxPlayers

(* These lives, of the players that are in the match, are those down to there. *)
Lists(v, life) ==
    /\ v.players = {Entry(name[j], life[j]) : j \in Admitted}
    /\ \A j \in Admitted : j < ReachedBy(todo) => life[j] = Life(j)

KnowsRoster(v, i) ==
    i \in registered /\ ~Owes(i) /\ todo \notin NewsStacks =>
        \E life \in [Slots -> Lives] : Lists(v, life)

Knows(v, i) == KnowsName(v, i) /\ KnowsMatch(v, i) /\ KnowsLobby(v, i) /\ KnowsRoster(v, i)

BeliefsOK == \A i \in running : Asked(i) /\ Knows(View(i), i)

(* It is enough to know the next view by another name. *)
LEMMA NextView ==
  ASSUME NEW i \in Slots, NEW w, w = View(i)', Knows(w, i)'
  PROVE  Knows(View(i), i)'
  BY DEF Knows, KnowsName, KnowsMatch, KnowsLobby, KnowsRoster, Lists

-----------------------------------------------------------------------------
(* BeliefsOK at rest. *)

LEMMA BeliefsAtRest ==
  ASSUME TypeOK, SessionOK, Calm, BeliefsOK, NEW i \in Slots, Quiet(i)
  PROVE  /\ ~client[i].name_check_pending
         /\ Knows(client[i], i) /\ ~Owes(i) /\ todo = <<>>
  <1>1. i \in running /\ inbox[i] = <<>> /\ outbox[i] = <<>> /\ client[i].state_request_sent
        /\ todo = <<>>
    BY DEF Quiet, Idle
  <1>2. View(i) = client[i]
    BY <1>1, BelievesNothing DEF View
  <1>3. Knows(View(i), i) /\ Asked(i)
    BY <1>1 DEF BeliefsOK
  <1>4. ~client[i].name_check_pending
    BY <1>1, <1>3, MarksOfNothing DEF Asked
  <1> QED BY <1>1, <1>2, <1>3, <1>4 DEF Owes

LEMMA BeliefsFollow ==
  ASSUME TypeOK, SessionOK, Calm, BeliefsOK
  PROVE  BeliefsHold
  <1> SUFFICES ASSUME NEW i \in Slots, Quiet(i), NEW c, c = client[i]
               PROVE  /\ c.name_registered <=> i \in registered
                      /\ ~c.name_check_pending
                      /\ i \in registered =>
                            /\ c.my_name = name[i]
                            /\ c.joined_match <=> i \in admitted
                            /\ MayJoin(c) <=> phase = "LOBBY_OPEN" /\ i \notin admitted
                      /\ i \in Admitted =>
                            /\ c.game_over <=> phase = "GAME_OVER"
                            /\ c.match_result = 1 <=> phase = "GAME_OVER" /\ WonMatch(i)
    BY DEF BeliefsHold
  <1>1. ~c.name_check_pending /\ Knows(c, i) /\ ~Owes(i) /\ todo = <<>>
    BY BeliefsAtRest
  <1>2. /\ c.name_registered <=> i \in registered
        /\ i \in registered => c.my_name = name[i]
    BY <1>1 DEF Knows, KnowsName
  <1>3. /\ c.joined_match <=> i \in admitted
        /\ ~c.repick_phase
        /\ c.game_over <=> i \in Admitted /\ phase = "GAME_OVER"
        /\ c.match_result = 1 <=> c.game_over /\ WonMatch(i)
    BY <1>1 DEF Knows, KnowsMatch
  <1>4. /\ phase # "LOBBY_OPEN" => ~c.can_attempt_join
        /\ phase = "LOBBY_OPEN" /\ i \in registered \ admitted => c.can_attempt_join
    BY <1>1 DEF Knows, KnowsLobby, BroadcastOf, Running
  <1>5. i \in registered => (MayJoin(c) <=> phase = "LOBBY_OPEN" /\ i \notin admitted)
    BY <1>2, <1>3, <1>4 DEF MayJoin
  <1> QED BY <1>1, <1>2, <1>3, <1>5

LEMMA RostersFollow ==
  ASSUME TypeOK, SessionOK, Calm, BeliefsOK
  PROVE  RostersHold
  <1> SUFFICES ASSUME NEW i \in Slots, Quiet(i), i \in registered
               PROVE  client[i].players = Roster
    BY DEF RostersHold
  <1>1. Knows(client[i], i) /\ ~Owes(i) /\ todo = <<>>
    BY BeliefsAtRest
  <1>2. todo \notin NewsStacks
    BY <1>1, Tails DEF NewsStacks
  <1>3. PICK life \in [Slots -> Lives] : Lists(client[i], life)
    BY <1>1, <1>2 DEF Knows, KnowsRoster
  <1>4. ReachedBy(todo) = MaxPlayers
    BY <1>1 DEF ReachedBy
  <1>5. \A j \in Admitted : j < MaxPlayers
    BY MatchServerAssumption DEF TypeOK, Admitted, Slots
  <1> QED BY <1>3, <1>4, <1>5 DEF Lists, Roster

-----------------------------------------------------------------------------
(* What comes of what the server says. *)

LEMMA Hears ==
  ASSUME SessionOK, NEW i \in Slots, UNCHANGED client[i],
         NEW lines \in Seq(ServerLines), inbox'[i] = inbox[i] \o lines
  PROVE  View(i) \in Clients /\ View(i)' = Believes(View(i), lines)
  <1>1. client[i] \in Clients /\ inbox[i] \in Seq(ServerLines)
    BY DEF SessionOK
  <1>2. View(i) \in Clients
    BY <1>1, LinesTeach DEF View
  <1>3. View(i)' = Believes(client[i], inbox[i] \o lines)
    BY DEF View
  <1> QED BY <1>1, <1>2, <1>3, BelievesConcat DEF View

LEMMA HearsNothing ==
  ASSUME SessionOK, NEW i \in Slots, UNCHANGED <<client[i], inbox[i]>>
  PROVE  View(i) \in Clients /\ View(i)' = View(i)
  <1>1. client[i] \in Clients /\ inbox[i] \in Seq(ServerLines)
    BY DEF SessionOK
  <1>2. View(i)' = View(i)
    BY DEF View
  <1> QED BY <1>1, <1>2, LinesTeach DEF View

LEMMA HearsOne ==
  ASSUME SessionOK, NEW i \in Slots, UNCHANGED client[i],
         NEW m \in ServerLines, inbox'[i] = inbox[i] \o <<m>>
  PROVE  View(i) \in Clients /\ View(i)' \in Clients /\ Learns(View(i), View(i)', m)
  <1>1. <<m>> \in Seq(ServerLines)
    BY LineTypes
  <1>2. View(i) \in Clients /\ View(i)' = HandleServerLine(View(i), m, MaxPlayers)
    BY <1>1, Hears, BelievesOne
  <1> QED BY <1>2, LineTeaches

(* The next view of somebody who has been told these lines. *)
HasHeard(i, v, w, q) ==
    /\ v = View(i) /\ v \in Clients /\ w = View(i)' /\ w \in Clients
    /\ q = <<>> => w = v
    /\ \A m : q = <<m>> => Learns(v, w, m)

LEMMA IsTold ==
  ASSUME SessionOK, NEW i \in Slots, UNCHANGED client[i], NEW q, Tidings(q),
         inbox'[i] = inbox[i] \o q
  PROVE  \E v, w : HasHeard(i, v, w, q)
  <1>1. CASE q = <<>>
    <2>1. inbox[i] \o <<>> = inbox[i]
      BY ConcatEmptySeq DEF SessionOK
    <2>2. View(i) \in Clients /\ View(i)' = View(i)
      BY <1>1, <2>1, HearsNothing
    <2>3. \A m : q # <<m>>
      BY <1>1
    <2> QED BY <2>2, <2>3 DEF HasHeard
  <1>2. ASSUME NEW m \in ServerLines, q = <<m>>
        PROVE  \E v, w : HasHeard(i, v, w, q)
    <2>1. View(i) \in Clients /\ View(i)' \in Clients /\ Learns(View(i), View(i)', m)
      BY <1>2, HearsOne
    <2>2. q # <<>> /\ \A k : q = <<k>> => k = m
      BY <1>2
    <2> QED BY <2>1, <2>2 DEF HasHeard
  <1> QED BY <1>1, <1>2 DEF Tidings

(* What is the same after a call has run. *)
LEMMA HandleKeeps ==
  ASSUME TypeOK, IInv, Calm, SessionOK, Handle
  PROVE  /\ CalmMove /\ UNCHANGED <<connected, registered, running, client, outbox>>
         /\ \A i \in Slots : UNCHANGED <<name[i], client[i], Owes(i)>>
         /\ \A i \in running : i \in Slots /\ i \in connected
                               /\ inbox'[i] = inbox[i] \o Said(i) /\ Tidings(Said(i))
  <1>1. CalmMove /\ UNCHANGED <<connected, registered>>
    BY CalmSteps, CalmPeople DEF Handle
  <1>2. UNCHANGED <<running, client, outbox>>
    BY DEF Handle
  <1>3. \A i \in Slots : UNCHANGED name[i]
    <2>1. \A i \in Slots : name'[i] = IF i \in connected THEN name[i] ELSE NoName
      BY <1>1 DEF Handle, ForgetDropped
    <2>2. \A i \in Slots : i \notin connected => name[i] = NoName
      BY DEF SessionOK, Registered
    <2> QED BY <2>1, <2>2
  <1>4. \A i \in running : i \in Slots /\ i \in connected
    BY DEF SessionOK, TypeOK
  <1> DEFINE said == [i \in Slots |-> Said(i)]
  <1>5. Put(said)
    BY DEF Handle
  <1>6. \A i \in running \cap DOMAIN said : said[i] \in Seq(ServerLines)
    BY <1>1, SaidType
  <1>7. DOMAIN said = Slots /\ \A i \in Slots : said[i] = Said(i)
    OBVIOUS
  <1> HIDE DEF said
  <1>8. \A i \in running : inbox'[i] = inbox[i] \o Said(i) /\ Tidings(Said(i))
    BY <1>1, <1>4, <1>5, <1>6, <1>7, PutLines, SaidKinds
  <1>9. \A i \in Slots : UNCHANGED <<client[i], Owes(i)>>
    BY <1>2 DEF Owes
  <1> QED BY <1>1, <1>2, <1>3, <1>4, <1>8, <1>9

(* An admission is considered at the bottom of the stack and nowhere else. *)
LEMMA NoneConsidered ==
  ASSUME TypeOK, Calm, CalmMove, NEW i \in Slots
  PROVE  todo' # <<Admission(i)>>
  <1>1. ASSUME NEW q, q = <<>> \/ Head(q).fn # "maybe_admit_player" PROVE q # <<Admission(i)>>
    BY <1>1, Tails DEF Admission, CallOn
  <1>2. /\ Reevaluation.fn # "maybe_admit_player" /\ SnapshotCall.fn # "maybe_admit_player"
        /\ TailCall.fn # "maybe_admit_player" /\ ExpireCall.fn # "maybe_admit_player"
        /\ ChaseCall.fn # "maybe_admit_player"
        /\ \A l : Broadcast(l).fn # "maybe_admit_player"
        /\ \A j : AdmissionTail(j).fn # "maybe_admit_player"
        /\ \A k : Positions(k).fn # "maybe_admit_player"
    BY DEF Reevaluation, SnapshotCall, TailCall, ExpireCall, ChaseCall, Call, Broadcast,
           AdmissionTail, Positions, CallOn
  <1>3. CASE todo # <<>> /\ todo' = Tail(todo)
    <2>1. CASE todo \in {<<Reevaluation>>} \cup TimerStacks \cup NewsStacks
      <3>1. Tail(todo) = <<>> \/ Head(Tail(todo)) \in {ExpireCall, ChaseCall, SnapshotCall,
                                                      Reevaluation}
        BY <2>1, Tails DEF TimerStacks, NewsStacks
      <3>2. Tail(todo) = <<>> \/ Head(Tail(todo)).fn # "maybe_admit_player"
        BY <1>2, <3>1
      <3> QED BY <1>3, <1>1, <3>2
    <2>2. CASE \E j \in registered : todo = <<Admission(j)>>
      BY <1>3, <2>2, Tails
    <2>3. CASE Admitting
      <3>1. Tail(todo) = <<>> \/ \E j : Head(Tail(todo)) = AdmissionTail(j)
        BY <2>3, Tails DEF Admitting
      <3>2. Tail(todo) = <<>> \/ Head(Tail(todo)).fn # "maybe_admit_player"
        BY <1>2, <3>1
      <3> QED BY <1>3, <1>1, <3>2
    <2>4. CASE Shutting
      <3>1. Head(Tail(todo)) \in {Broadcast("SETUP_OPEN"), TailCall, ExpireCall}
        BY <2>4, Tails DEF Shutting, ClosingStacks
      <3>2. Head(Tail(todo)).fn # "maybe_admit_player"
        BY <1>2, <3>1
      <3> QED BY <1>3, <1>1, <3>2
    <2>5. CASE Placing
      <3>1. \A k \in 0 .. MaxPlayers : <<Positions(k)>> # <<Admission(i)>>
        BY DEF Positions, Admission, CallOn
      <3>2. \A rest \in Afterwards : rest # <<Admission(i)>>
        BY DEF Afterwards, ExpireCall, ChaseCall, Reevaluation, Call, Admission, CallOn
      <3>3. \A k \in 0 .. MaxPlayers, rest \in Afterwards :
               <<Positions(k)>> \o rest # <<Admission(i)>>
        <4> SUFFICES ASSUME NEW k \in 0 .. MaxPlayers, NEW rest \in Afterwards
                     PROVE  <<Positions(k)>> \o rest # <<Admission(i)>>
          OBVIOUS
        <4>1. Head(<<Positions(k)>> \o rest) = Positions(k)
          BY AfterwardsTypes, OneOnTop
        <4>2. Head(<<Admission(i)>>) = Admission(i) /\ Admission(i) # Positions(k)
          BY Tails DEF Positions, Admission, CallOn
        <4> QED BY <4>1, <4>2
      <3>4. CASE todo = <<Broadcast("ROUND_START"), Positions(0)>> \o <<ExpireCall, ChaseCall>>
        <4> DEFINE rest == <<ExpireCall, ChaseCall>>
        <4>1. Broadcast("ROUND_START") \in Calls /\ Positions(0) \in Calls
              /\ rest \in Seq(Calls) /\ rest \in Afterwards
          BY AfterwardsTypes, MatchServerAssumption DEF Broadcast, Calls, Lines, Afterwards
        <4>2. todo = <<Broadcast("ROUND_START"), Positions(0)>> \o rest
          BY <3>4
        <4> HIDE DEF rest
        <4>3. Tail(todo) = <<Positions(0)>> \o rest
          BY <4>1, <4>2, TwoOnTop
        <4>4. 0 \in 0 .. MaxPlayers
          BY MatchServerAssumption
        <4> QED BY <1>3, <3>3, <4>1, <4>3, <4>4
      <3>5. ASSUME NEW k \in 0 .. MaxPlayers, NEW rest \in Afterwards,
                   todo = <<Positions(k)>> \o rest
            PROVE  todo' # <<Admission(i)>>
        <4>1. Tail(todo) = rest
          BY <3>5, AfterwardsTypes, OneOnTop
        <4> QED BY <1>3, <3>2, <4>1
      <3>6. ASSUME NEW k \in Admitted, NEW rest \in Afterwards,
                   todo = <<Broadcast("PLAYER"), Positions(k + 1)>> \o rest
            PROVE  todo' # <<Admission(i)>>
        <4>1. k + 1 \in 0 .. MaxPlayers
          BY MatchServerAssumption DEF TypeOK, Admitted, Slots
        <4>2. Broadcast("PLAYER") \in Calls /\ Positions(k + 1) \in Calls
          BY <4>1, AfterwardsTypes DEF Broadcast, Calls, Lines
        <4>3. Tail(todo) = <<Positions(k + 1)>> \o rest
          BY <3>6, <4>2, AfterwardsTypes, TwoOnTop
        <4> QED BY <1>3, <3>3, <4>1, <4>3
      <3> QED BY <2>5, <3>4, <3>5, <3>6 DEF Placing
    <2> QED BY <1>3, <2>1, <2>2, <2>3, <2>4, <2>5 DEF Calm, Settled
  <1>4. CASE \E j \in Slots : Considers(j) \/ Admits(j)
    BY <1>4, Tails DEF Considers, Admits, AdmissionTail, Admission, CallOn, Broadcast
  <1>5. CASE Shuts
    BY <1>5, Tails DEF Shuts, Admission, CallOn, Broadcast
  <1>6. CASE Begins \/ Catches \/ Places
    <2>1. Head(<<Admission(i)>>) = Admission(i)
      BY Tails
    <2>2. \E k \in 0 .. MaxPlayers, rest \in Afterwards :
             \/ todo' = <<Broadcast("ROUND_START"), Positions(0)>> \o rest
             \/ todo' = <<Positions(k)>> \o rest
             \/ k \in 1 .. MaxPlayers /\ todo' = <<Broadcast("PLAYER"), Positions(k)>> \o rest
             \/ todo' = rest
      <3>1. 0 \in 0 .. MaxPlayers /\ <<ExpireCall, ChaseCall>> \in Afterwards
            /\ \A j \in Admitted : j + 1 \in 1 .. MaxPlayers
        BY MatchServerAssumption DEF Afterwards, TypeOK, Admitted, Slots
      <3>2. CASE Begins
        BY <3>1, <3>2 DEF Begins
      <3>3. CASE Catches
        BY <3>1, <3>3 DEF Catches
      <3>4. CASE Places
        <4>1. PICK k \in 0 .. MaxPlayers, rest \in Afterwards :
                 \/ todo' = rest
                 \/ \E j \in Admitted : todo' = <<Broadcast("PLAYER"), Positions(j + 1)>> \o rest
          BY <3>4 DEF Places
        <4>2. \A j \in Admitted : j + 1 \in 0 .. MaxPlayers
          BY <3>1
        <4> QED BY <3>1, <4>1, <4>2
      <3> QED BY <1>6, <3>2, <3>3, <3>4
    <2>3. PICK k \in 0 .. MaxPlayers, rest \in Afterwards :
             \/ todo' = <<Broadcast("ROUND_START"), Positions(0)>> \o rest
             \/ todo' = <<Positions(k)>> \o rest
             \/ k \in 1 .. MaxPlayers /\ todo' = <<Broadcast("PLAYER"), Positions(k)>> \o rest
             \/ todo' = rest
      BY <2>2
    <2>4. /\ Broadcast("ROUND_START") \in Calls /\ Broadcast("PLAYER") \in Calls
          /\ Positions(0) \in Calls /\ Positions(k) \in Calls /\ rest \in Seq(Calls)
      BY AfterwardsTypes, MatchServerAssumption DEF Broadcast, Calls, Lines
    <2>5. todo' = rest \/ Head(todo') \in {Broadcast("ROUND_START"), Positions(k), Broadcast("PLAYER")}
      BY <2>3, <2>4, OneOnTop, TwoOnTop
    <2>6. rest # <<Admission(i)>>
      BY DEF Afterwards, ExpireCall, ChaseCall, Reevaluation, Call, Admission, CallOn
    <2>7. Admission(i) \notin {Broadcast("ROUND_START"), Positions(k), Broadcast("PLAYER")}
      BY DEF Broadcast, Positions, Admission, CallOn
    <2> QED BY <2>1, <2>5, <2>6, <2>7
  <1> QED BY <1>3, <1>4, <1>5, <1>6 DEF CalmMove, Announces, Snapshots, Ends, Passes

LEMMA HandleAsked ==
  ASSUME TypeOK, IInv, Calm, SessionOK, Handle, NEW i \in running, Asked(i)
  PROVE  Asked(i)'
  <1>1. /\ UNCHANGED <<client, outbox>> /\ i \in Slots /\ CalmMove
        /\ inbox'[i] = inbox[i] \o Said(i) /\ Tidings(Said(i))
    BY HandleKeeps
  <1> DEFINE q == Said(i)
  <1>2. q \in Seq(ServerLines) /\ None(q, AnswerLines) /\ AtMostOne(q, AnswerLines)
        /\ inbox[i] \in Seq(ServerLines)
    BY <1>1, TidingsType DEF SessionOK, None, AtMostOne
  <1>3. inbox'[i] = inbox[i] \o q
    BY <1>1
  <1> HIDE DEF q
  <1>4. /\ None(inbox[i], AnswerLines)' <=> None(inbox[i], AnswerLines)
        /\ AtMostOne(inbox[i], AnswerLines)' <=> AtMostOne(inbox[i], AnswerLines)
    <2> DEFINE p == inbox[i]
    <2>1. /\ None(p \o q, AnswerLines) <=> None(p, AnswerLines)
          /\ AtMostOne(p \o q, AnswerLines) <=> AtMostOne(p, AnswerLines)
      <3> HIDE DEF p
      <3>1. p \in Seq(ServerLines)
        BY <1>2 DEF p
      <3> QED BY <1>2, <3>1, MarksOfConcat
    <2> QED BY <1>3, <2>1 DEF None, AtMostOne, At
  <1>5. todo' # <<Admission(i)>>
    BY <1>1, NoneConsidered
  <1> QED BY <1>1, <1>4, <1>5 DEF Asked, None, AtMostOne, At, HellosBut, Asks, Admission, CallOn

LEMMA ReachedCases ==
  /\ ReachedBy(<<>>) = MaxPlayers
  /\ \A stack : stack # <<>> /\ Head(stack).fn \notin {"broadcast_positions", "queue_broadcast"} =>
        ReachedBy(stack) = MaxPlayers
  /\ \A stack, l : stack # <<>> /\ Head(stack) = Broadcast(l) /\ l \notin {"PLAYER", "ROUND_START"} =>
        ReachedBy(stack) = MaxPlayers
  /\ \A stack : stack # <<>> /\ Head(stack) = Broadcast("ROUND_START") => ReachedBy(stack) = 0
  /\ \A rest \in Afterwards : ReachedBy(rest) = MaxPlayers
  /\ \A k \in 0 .. MaxPlayers, rest \in Afterwards : ReachedBy(<<Positions(k)>> \o rest) = k
  /\ \A k \in Slots, rest \in Afterwards :
        ReachedBy(<<Broadcast("PLAYER"), Positions(k + 1)>> \o rest) = k
  <1>1. ReachedBy(<<>>) = MaxPlayers
    BY DEF ReachedBy
  <1>2. \A stack : stack # <<>> /\ Head(stack).fn \notin {"broadcast_positions", "queue_broadcast"} =>
           ReachedBy(stack) = MaxPlayers
    BY DEF ReachedBy, Broadcast
  <1>3. \A stack, l : stack # <<>> /\ Head(stack) = Broadcast(l) /\ l \notin {"PLAYER", "ROUND_START"} =>
           ReachedBy(stack) = MaxPlayers
    <2>1. \A l : /\ Broadcast(l).fn # "broadcast_positions"
                 /\ \A k : Broadcast(l) = Broadcast(k) => l = k
      BY DEF Broadcast
    <2> QED BY <2>1 DEF ReachedBy
  <1>4. \A stack : stack # <<>> /\ Head(stack) = Broadcast("ROUND_START") => ReachedBy(stack) = 0
    BY DEF ReachedBy, Broadcast
  <1>5. ASSUME NEW rest \in Afterwards PROVE ReachedBy(rest) = MaxPlayers
    <2>1. rest = <<>> \/ (rest # <<>> /\ Head(rest) \in {ExpireCall, Reevaluation})
      <3>1. /\ <<ExpireCall, ChaseCall>> # <<>> /\ Head(<<ExpireCall, ChaseCall>>) = ExpireCall
            /\ <<Reevaluation>> # <<>> /\ Head(<<Reevaluation>>) = Reevaluation
        BY Tails
      <3>2. rest \in {<<ExpireCall, ChaseCall>>, <<>>, <<Reevaluation>>}
        BY DEF Afterwards
      <3> QED BY <3>1, <3>2
    <2>2. /\ ExpireCall.fn \notin {"broadcast_positions", "queue_broadcast"}
          /\ Reevaluation.fn \notin {"broadcast_positions", "queue_broadcast"}
      BY DEF ExpireCall, Reevaluation, Call
    <2> QED BY <1>1, <1>2, <2>1, <2>2
  <1>6. ASSUME NEW k \in 0 .. MaxPlayers, NEW rest \in Afterwards
        PROVE  ReachedBy(<<Positions(k)>> \o rest) = k
    <2> DEFINE q == <<Positions(k)>> \o rest
    <2>1. q # <<>> /\ Head(q) = Positions(k)
      BY AfterwardsTypes, OneOnTop
    <2> HIDE DEF q
    <2>2. ReachedBy(q) = k
      BY <2>1 DEF ReachedBy, Positions, CallOn
    <2> QED BY <2>2 DEF q
  <1>7. ASSUME NEW k \in Slots, NEW rest \in Afterwards
        PROVE  ReachedBy(<<Broadcast("PLAYER"), Positions(k + 1)>> \o rest) = k
    <2> DEFINE q == <<Broadcast("PLAYER"), Positions(k + 1)>> \o rest
    <2>1. k + 1 \in 0 .. MaxPlayers /\ k \in Int
      BY MatchServerAssumption DEF Slots
    <2>2. Broadcast("PLAYER") \in Calls /\ Positions(k + 1) \in Calls /\ rest \in Seq(Calls)
      BY <2>1, AfterwardsTypes DEF Broadcast, Calls, Lines
    <2>3. q # <<>> /\ Head(q) = Broadcast("PLAYER") /\ q[2] = Positions(k + 1)
      BY <2>2, TwoOnTop, SecondOnTop
    <2> HIDE DEF q
    <2>4. ReachedBy(q) = Positions(k + 1).slot - 1
      BY <2>3 DEF ReachedBy, Broadcast
    <2>5. Positions(k + 1).slot = k + 1
      BY DEF Positions, CallOn
    <2>6. ReachedBy(q) = k
      BY <2>1, <2>4, <2>5
    <2> QED BY <2>6 DEF q
  <1> QED BY <1>1, <1>2, <1>3, <1>4, <1>5, <1>6, <1>7

(* The same people, and what is said of them is not about them. *)
LEMMA ListsStay ==
  ASSUME NEW v, NEW w, NEW life, Lists(v, life), w.players = v.players, Admitted' = Admitted,
         \A j \in Admitted : name'[j] = name[j],
         \A j \in Admitted : j < ReachedBy(todo') => j < ReachedBy(todo) /\ Life(j)' = Life(j)
  PROVE  Lists(w, life)'
  BY DEF Lists, Entry

(* Everybody in the match is in a slot below the last. *)
LEMMA AllReached == TypeOK => \A j \in Admitted : j \in Slots /\ j < MaxPlayers /\ ~(j < 0)
  BY MatchServerAssumption DEF TypeOK, Admitted, Slots

-----------------------------------------------------------------------------
(* A call runs: each kind of line, and what it says, keeps the beliefs. *)

(* What stays true of what nothing was said about. *)
LEMMA NameStays ==
  ASSUME NEW i \in Slots, NEW v, NEW w, KnowsName(v, i),
         w.name_registered = v.name_registered, w.my_name = v.my_name,
         i \in registered' <=> i \in registered, i \in registered => name'[i] = name[i]
  PROVE  KnowsName(w, i)'
  BY DEF KnowsName

LEMMA MatchStays ==
  ASSUME NEW i \in Slots, NEW v, NEW w, KnowsMatch(v, i),
         w.joined_match = v.joined_match, ~w.repick_phase,
         w.game_over = v.game_over, w.match_result = v.match_result,
         i \in admitted' <=> i \in admitted,
         phase' = "GAME_OVER" <=> phase = "GAME_OVER",
         phase = "GAME_OVER" => /\ i \in Admitted' <=> i \in Admitted
                                /\ WonMatch(i)' <=> WonMatch(i)
  PROVE  KnowsMatch(w, i)'
  BY DEF KnowsMatch

LEMMA LobbyStays ==
  ASSUME NEW i \in Slots, NEW v, NEW w, KnowsLobby(v, i),
         w.can_attempt_join = v.can_attempt_join, ~BroadcastOf("LOBBY_CLOSED"),
         phase' = "LOBBY_OPEN" <=> phase = "LOBBY_OPEN",
         i \in registered' => i \in registered, i \in admitted => i \in admitted',
         Owes(i) => Owes(i)'
  PROVE  KnowsLobby(w, i)'
  BY DEF KnowsLobby

LEMMA RosterStays ==
  ASSUME NEW i \in Slots, NEW v, NEW w, KnowsRoster(v, i), w.players = v.players,
         i \in registered' => i \in registered, Owes(i) => Owes(i)',
         Admitted' = Admitted, \A j \in Admitted : name'[j] = name[j],
         todo \in NewsStacks => todo' \in NewsStacks,
         \A j \in Admitted : j < ReachedBy(todo') => j < ReachedBy(todo) /\ Life(j)' = Life(j)
  PROVE  KnowsRoster(w, i)'
  <1> SUFFICES ASSUME i \in registered', ~Owes(i)', todo' \notin NewsStacks
               PROVE  \E life \in [Slots -> Lives] : Lists(w, life)'
    BY DEF KnowsRoster
  <1>1. PICK life \in [Slots -> Lives] : Lists(v, life)
    BY DEF KnowsRoster
  <1>2. Lists(w, life)'
    BY <1>1, ListsStay
  <1> QED BY <1>2

(* What is on top of the stacks on which news is. *)
LEMMA NewsHeads ==
  todo \in NewsStacks => /\ todo # <<>>
                         /\ Head(todo) \in {Broadcast("JOINED"), Broadcast("LEFT"), SnapshotCall}
  BY Tails DEF NewsStacks

(* News stays news until everybody has a snapshot. *)
LEMMA NewsTails ==
  ASSUME NEW line, todo \in NewsStacks, Head(todo) = Broadcast(line)
  PROVE  Tail(todo) \in NewsStacks
  <1>1. SnapshotCall # Broadcast(line)
    BY DEF Broadcast, SnapshotCall, Call
  <1>2. CASE todo = <<Broadcast("JOINED"), SnapshotCall>>
    BY <1>2, Tails DEF NewsStacks
  <1>3. CASE todo = <<Broadcast("LEFT"), SnapshotCall, Reevaluation>>
    BY <1>3, Tails DEF NewsStacks
  <1>4. CASE todo \in {<<SnapshotCall>>, <<SnapshotCall, Reevaluation>>}
    BY <1>1, <1>4, Tails
  <1> QED BY <1>2, <1>3, <1>4 DEF NewsStacks

(* While news is on the stack, nothing is said of the players. *)
LEMMA NewsAreNews ==
  ASSUME NEW i \in Slots, NEW w, todo' \in NewsStacks PROVE KnowsRoster(w, i)'
  <1>1. NewsStacks' = NewsStacks
    BY DEF NewsStacks
  <1> QED BY <1>1 DEF KnowsRoster

LEMMA TopIsNoNews ==
  ASSUME todo # <<>>, Head(todo).fn \notin {"queue_broadcast", "broadcast_game_state"}
  PROVE  todo \notin NewsStacks /\ ~BroadcastOf("LOBBY_CLOSED")
  <1>1. /\ Broadcast("JOINED").fn = "queue_broadcast" /\ Broadcast("LEFT").fn = "queue_broadcast"
        /\ SnapshotCall.fn = "broadcast_game_state"
    BY DEF Broadcast, SnapshotCall, Call
  <1>2. todo \notin NewsStacks
    BY <1>1, NewsHeads
  <1> QED BY <1>2 DEF BroadcastOf, Running

LEMMA TopBroadcast ==
  ASSUME NEW line, todo # <<>>, Head(todo) = Broadcast(line)
  PROVE  /\ BroadcastOf("LOBBY_CLOSED") <=> line = "LOBBY_CLOSED"
         /\ line \notin {"JOINED", "LEFT"} => todo \notin NewsStacks
         /\ line \notin {"PLAYER", "ROUND_START"} => ReachedBy(todo) = MaxPlayers
  <1>1. Head(todo).fn = "queue_broadcast" /\ Head(todo).line = line
    BY DEF Broadcast
  <1>2. BroadcastOf("LOBBY_CLOSED") <=> line = "LOBBY_CLOSED"
    BY <1>1 DEF BroadcastOf, Running
  <1>3. /\ Broadcast("JOINED").line = "JOINED" /\ Broadcast("LEFT").line = "LEFT"
        /\ SnapshotCall.fn = "broadcast_game_state"
    BY DEF Broadcast, SnapshotCall, Call
  <1>4. line \notin {"JOINED", "LEFT"} => todo \notin NewsStacks
    BY <1>1, <1>3, NewsHeads
  <1> QED BY <1>2, <1>4, ReachedCases

-----------------------------------------------------------------------------
(* What somebody believes that hears what a call says. *)

Hearing(i, v, w) ==
    /\ TypeOK /\ SessionOK /\ Calm /\ NamesUnique
    /\ i \in Slots /\ i \in connected
    /\ (\A j \in Slots : name'[j] = name[j]) /\ (Owes(i)' <=> Owes(i))
    /\ HasHeard(i, v, w, Said(i)) /\ Knows(v, i) /\ Asked(i)

(* A line that is about nothing but the lobby or the players. *)
LEMMA LineSparesName ==
  ASSUME NEW i \in Slots, NEW v, NEW w, NEW m, Learns(v, w, m), KnowsName(v, i),
         m.line \notin {"WELCOME", "ERROR already_registered", "ERROR duplicate_name",
                        "ERROR register_first"},
         registered' = registered, name'[i] = name[i]
  PROVE  KnowsName(w, i)'
  <1>1. w.name_registered = v.name_registered /\ w.my_name = v.my_name
    BY DEF Learns
  <1> QED BY <1>1, NameStays

LEMMA LineSparesMatch ==
  ASSUME NEW i \in Slots, NEW v, NEW w, NEW m, Learns(v, w, m), KnowsMatch(v, i),
         m.line \notin {"JOINED_MATCH", "MATCH_RESET"}, Stage(m) \notin {"WIN", "LOSE"},
         SamePeople
  PROVE  KnowsMatch(w, i)'
  <1>1. w.joined_match = v.joined_match /\ ~w.repick_phase
    BY DEF Learns, KnowsMatch
  <1>2. w.game_over = v.game_over /\ w.match_result = v.match_result
    BY DEF Learns
  <1>3. Admitted' = Admitted /\ (WonMatch(i)' <=> WonMatch(i)) /\ phase' = phase
        /\ admitted' = admitted
    BY DEF SamePeople, Admitted, WonMatch
  <1> HIDE DEF Learns
  <1> QED BY <1>1, <1>2, <1>3, MatchStays

LEMMA NothingHeard ==
  ASSUME NEW i, NEW v, NEW w, Hearing(i, v, w), Said(i) = <<>>
  PROVE  /\ w = v /\ i \in Slots /\ KnowsName(v, i) /\ KnowsMatch(v, i) /\ KnowsLobby(v, i)
         /\ KnowsRoster(v, i) /\ name'[i] = name[i] /\ (Owes(i)' <=> Owes(i))
         /\ ~v.repick_phase /\ TypeOK /\ \A j \in Slots : name'[j] = name[j]
  BY DEF Hearing, HasHeard, Knows, KnowsMatch

LEMMA QuietStays ==
  ASSUME NEW i, NEW v, NEW w, Hearing(i, v, w), Said(i) = <<>>, SamePeople,
         ~BroadcastOf("LOBBY_CLOSED"),
         \/ i \notin registered
         \/ /\ todo \in NewsStacks => todo' \in NewsStacks
            /\ \A j \in Admitted : j < ReachedBy(todo') => j < ReachedBy(todo)
  PROVE  Knows(w, i)'
  <1>1. /\ w = v /\ i \in Slots /\ KnowsName(v, i) /\ KnowsMatch(v, i) /\ KnowsLobby(v, i)
        /\ KnowsRoster(v, i) /\ name'[i] = name[i] /\ (Owes(i)' <=> Owes(i))
        /\ ~v.repick_phase /\ TypeOK /\ \A j \in Slots : name'[j] = name[j]
    BY NothingHeard
  <1>2. /\ Admitted' = Admitted /\ (WonMatch(i)' <=> WonMatch(i)) /\ phase' = phase
        /\ admitted' = admitted /\ registered' = registered
        /\ \A j \in Admitted : Life(j)' = Life(j) /\ j \in Slots
    BY <1>1 DEF SamePeople, Admitted, WonMatch, Life, TypeOK
  <1>3. KnowsName(w, i)'
    BY <1>1, <1>2, NameStays
  <1>4. KnowsMatch(w, i)'
    BY <1>1, <1>2, MatchStays
  <1>5. KnowsLobby(w, i)'
    BY <1>1, <1>2, LobbyStays
  <1>6. KnowsRoster(w, i)'
    <2>1. CASE i \notin registered
      BY <1>2, <2>1 DEF KnowsRoster
    <2>2. CASE i \in registered
      BY <1>1, <1>2, <2>2, RosterStays
    <2> QED BY <2>1, <2>2
  <1> QED BY <1>3, <1>4, <1>5, <1>6 DEF Knows

(* A line that everybody hears. *)
LEMMA LineHeard ==
  ASSUME NEW i, NEW v, NEW w, NEW m, Hearing(i, v, w), Said(i) = <<m>>
  PROVE  /\ Learns(v, w, m) /\ i \in Slots /\ i \in connected /\ KnowsName(v, i)
         /\ KnowsMatch(v, i) /\ KnowsLobby(v, i) /\ KnowsRoster(v, i)
         /\ name'[i] = name[i] /\ (Owes(i)' <=> Owes(i)) /\ TypeOK
         /\ \A j \in Slots : name'[j] = name[j]
  BY DEF Hearing, HasHeard, Knows

(* One player more is shown as it is. *)
LEMMA ListsOneMore ==
  ASSUME TypeOK, NamesUnique, NEW v, NEW w, NEW life \in [Slots -> Lives], Lists(v, life),
         NEW k \in Admitted, SamePeople, \A j \in Slots : name'[j] = name[j],
         w.players = UpsertPlayer(v.players, Entry(name[k], Life(k)), MaxPlayers),
         ReachedBy(todo) = k, ReachedBy(todo') = k + 1,
         NEW now, now = [life EXCEPT ![k] = Life(k)]
  PROVE  Lists(w, now)'
  <1>1. /\ Admitted \subseteq Slots /\ Admitted \subseteq Registered /\ k \in Int
        /\ \A j \in Admitted : j \in Int
    <2>1. Admitted \subseteq Slots /\ Admitted \subseteq Registered
      BY DEF TypeOK, Admitted, Registered
    <2>2. \A j \in Slots : j \in Int
      BY MatchServerAssumption DEF Slots
    <2> QED BY <2>1, <2>2
  <1>2. /\ now[k] = Life(k)
        /\ \A j \in Admitted \ {k} : now[j] = life[j]
    BY <1>1
  <1>3. \A j \in Admitted \ {k} : name[j] # name[k]
    BY <1>1 DEF NamesUnique
  <1> DEFINE roster == {Entry(name[j], life[j]) : j \in Admitted}
             others == {e \in roster : e.who # name[k]}
  <1>4. v.players = roster
    BY DEF Lists
  <1>5. others = {Entry(name[j], life[j]) : j \in Admitted \ {k}}
    BY <1>3 DEF Entry
  <1>6. others # roster
    <2>1. Entry(name[k], life[k]) \in roster /\ Entry(name[k], life[k]) \notin others
      BY DEF Entry
    <2> QED BY <2>1
  <1>7. w.players = others \cup {Entry(name[k], Life(k))}
    <2>1. Entry(name[k], Life(k)).who = name[k]
      BY DEF Entry
    <2> QED BY <1>4, <1>6, <2>1 DEF UpsertPlayer
  <1>8. w.players = {Entry(name[j], now[j]) : j \in Admitted}
    <2> HIDE DEF others, roster
    <2>1. {Entry(name[j], now[j]) : j \in Admitted}
             = {Entry(name[j], life[j]) : j \in Admitted \ {k}} \cup {Entry(name[k], Life(k))}
      BY <1>2
    <2> QED BY <1>5, <1>7, <2>1
  <1>9. Admitted' = Admitted /\ \A j \in Admitted : Life(j)' = Life(j) /\ name'[j] = name[j]
    BY <1>1 DEF SamePeople, Admitted, Life
  <1>10. \A j \in Admitted : j < k + 1 => now[j] = Life(j)
    BY <1>1, <1>2 DEF Lists
  <1>11. {Entry(name'[j], now[j]) : j \in Admitted} = {Entry(name[j], now[j]) : j \in Admitted}
    BY <1>9
  <1> QED BY <1>8, <1>9, <1>10, <1>11 DEF Lists, Entry

LEMMA AnnouncementKnown ==
  ASSUME NEW i, NEW v, NEW w, Hearing(i, v, w), NEW line, Announces(line)
  PROVE  Knows(w, i)'
  <1>1. /\ todo # <<>> /\ Head(todo) = Broadcast(line) /\ todo' = Tail(todo)
        /\ SamePeople /\ Due(line)
    BY DEF Announces
  <1>2. TypeOK /\ Calm /\ i \in Slots /\ i \in connected /\ NamesUnique
    BY DEF Hearing
  <1>3. \A j \in Admitted : j < MaxPlayers
    BY <1>2, AllReached
  <1>4. CASE line \in Unheeded /\ Quietly
    <2>1. Said(i) = <<>> /\ ~BroadcastOf("LOBBY_CLOSED")
      BY <1>1, <1>2, <1>4, TopBroadcast DEF Quietly, Unheeded
    <2>2. CASE line = "JOINED"
      <3>1. todo \in NewsStacks
        BY <1>1, <2>2 DEF Due
      <3>2. todo' \in NewsStacks
        BY <1>1, <2>2, <3>1, NewsTails
      <3>3. \A j \in Admitted : j < ReachedBy(todo') => j < ReachedBy(todo)
        BY <1>1, <1>3, <2>2, TopBroadcast
      <3> QED BY <1>1, <2>1, <3>2, <3>3, QuietStays
    <2>3. CASE line = "SETUP_OPEN"
      <3>1. todo \notin NewsStacks /\ ReachedBy(todo) = MaxPlayers
        BY <1>1, <2>3, TopBroadcast
      <3> QED BY <1>1, <1>3, <2>1, <3>1, QuietStays
    <2>4. CASE line = "WAITING_FOR_OTHERS"
      BY <1>1, <2>4 DEF Due
    <2> QED BY <1>4, <2>2, <2>3, <2>4 DEF Unheeded
  <1>5. CASE line \in {"LOBBY_OPEN", "LOBBY_CLOSED", "ROUND_START"} /\ Says(Line(line))
    <2> DEFINE m == Line(line)
    <2>1. Said(i) = <<m>> /\ m.line = line /\ Stage(m) = line
      BY <1>2, <1>5 DEF Says, Line, Stage
    <2> HIDE DEF m
    <2>2. /\ Learns(v, w, m) /\ KnowsName(v, i) /\ KnowsMatch(v, i) /\ KnowsLobby(v, i)
          /\ KnowsRoster(v, i) /\ (Owes(i)' <=> Owes(i)) /\ \A j \in Slots : name'[j] = name[j]
      BY <2>1, LineHeard
    <2>3. KnowsName(w, i)'
      <3>1. registered' = registered
        BY <1>1 DEF SamePeople
      <3> QED BY <1>2, <1>5, <2>1, <2>2, <3>1, LineSparesName
    <2>4. KnowsMatch(w, i)'
      BY <1>1, <1>2, <1>5, <2>1, <2>2, LineSparesMatch
    <2>5. KnowsLobby(w, i)'
      <3>1. CASE line = "LOBBY_OPEN"
        <4>1. phase' = "LOBBY_OPEN" /\ w.can_attempt_join
          BY <1>1, <2>1, <2>2, <3>1 DEF Due, SamePeople, Learns
        <4> QED BY <4>1 DEF KnowsLobby
      <3>2. CASE line = "LOBBY_CLOSED"
        <4>1. phase' = "SETUP" /\ ~w.can_attempt_join
          BY <1>1, <2>1, <2>2, <3>2 DEF Due, SamePeople, Learns
        <4> QED BY <4>1 DEF KnowsLobby
      <3>3. CASE line = "ROUND_START"
        <4>1. w.can_attempt_join = v.can_attempt_join
          BY <2>1, <2>2, <3>3 DEF Learns
        <4>2. ~BroadcastOf("LOBBY_CLOSED")
          BY <1>1, <3>3, TopBroadcast
        <4> QED BY <1>1, <1>2, <2>2, <4>1, <4>2, LobbyStays DEF SamePeople
      <3> QED BY <1>5, <3>1, <3>2, <3>3
    <2>6. KnowsRoster(w, i)'
      <3>1. w.players = v.players
        BY <1>5, <2>1, <2>2 DEF Learns, Shows
      <3>2. todo \notin NewsStacks
        BY <1>1, <1>5, TopBroadcast
      <3>3. \A j \in Admitted : j < ReachedBy(todo') => j < ReachedBy(todo)
        <4>1. CASE line # "ROUND_START"
          BY <1>1, <1>3, <1>5, <4>1, TopBroadcast
        <4>2. CASE line = "ROUND_START"
          <5>1. 0 \in 0 .. MaxPlayers
            BY MatchServerAssumption
          <5>2. ReachedBy(todo') = 0
            BY <1>1, <4>2, <5>1, ReachedCases DEF Due
          <5> QED BY <1>2, <5>2, AllReached
        <4> QED BY <4>1, <4>2
      <3>4. Admitted' = Admitted /\ registered' = registered
            /\ \A j \in Admitted : Life(j)' = Life(j) /\ j \in Slots
        BY <1>1, <1>2 DEF SamePeople, Admitted, Life, TypeOK
      <3> QED BY <1>2, <2>2, <3>1, <3>2, <3>3, <3>4, RosterStays
    <2> QED BY <2>3, <2>4, <2>5, <2>6 DEF Knows
  <1>6. CASE line = "LEFT" /\ Says([line |-> "LEFT", who |-> leaving])
    <2> DEFINE m == [line |-> "LEFT", who |-> leaving]
    <2>1. Said(i) = <<m>> /\ m.line = "LEFT" /\ Stage(m) = "LEFT"
      BY <1>2, <1>6 DEF Says, Stage
    <2> HIDE DEF m
    <2>2. /\ Learns(v, w, m) /\ KnowsName(v, i) /\ KnowsMatch(v, i) /\ KnowsLobby(v, i)
          /\ KnowsRoster(v, i) /\ (Owes(i)' <=> Owes(i)) /\ \A j \in Slots : name'[j] = name[j]
      BY <2>1, LineHeard
    <2>3. registered' = registered
      BY <1>1 DEF SamePeople
    <2>4. KnowsName(w, i)'
      BY <1>2, <2>1, <2>2, <2>3, LineSparesName
    <2>5. KnowsMatch(w, i)'
      BY <1>1, <1>2, <2>1, <2>2, LineSparesMatch
    <2>6. KnowsLobby(w, i)'
      <3>1. w.can_attempt_join = v.can_attempt_join
        BY <2>1, <2>2 DEF Learns
      <3>2. ~BroadcastOf("LOBBY_CLOSED")
        BY <1>1, <1>6, TopBroadcast
      <3> QED BY <1>1, <1>2, <2>2, <3>1, <3>2, LobbyStays DEF SamePeople
    <2>7. KnowsRoster(w, i)'
      <3>1. todo \in NewsStacks
        BY <1>1, <1>6 DEF Due
      <3>2. todo' \in NewsStacks
        BY <1>1, <1>6, <3>1, NewsTails
      <3> QED BY <1>2, <3>2, NewsAreNews
    <2> QED BY <2>4, <2>5, <2>6, <2>7 DEF Knows
  <1>7. ASSUME line = "PLAYER", NEW k \in Admitted, NEW rest \in Afterwards,
               todo = <<Broadcast("PLAYER"), Positions(k + 1)>> \o rest,
               todo' = <<Positions(k + 1)>> \o rest,
               Says([line |-> "PLAYER", entry |-> Entry(name[k], Life(k))])
        PROVE  Knows(w, i)'
    <2> DEFINE m == [line |-> "PLAYER", entry |-> Entry(name[k], Life(k))]
    <2>1. Said(i) = <<m>> /\ m.line = "PLAYER" /\ Stage(m) = "PLAYER"
          /\ m.entry = Entry(name[k], Life(k))
      BY <1>2, <1>7 DEF Says, Stage
    <2> HIDE DEF m
    <2>2. /\ Learns(v, w, m) /\ KnowsName(v, i) /\ KnowsMatch(v, i) /\ KnowsLobby(v, i)
          /\ KnowsRoster(v, i) /\ (Owes(i)' <=> Owes(i)) /\ \A j \in Slots : name'[j] = name[j]
      BY <2>1, LineHeard
    <2>3. registered' = registered
      BY <1>1 DEF SamePeople
    <2>4. KnowsName(w, i)'
      BY <1>2, <2>1, <2>2, <2>3, LineSparesName
    <2>5. KnowsMatch(w, i)'
      BY <1>1, <1>2, <2>1, <2>2, LineSparesMatch
    <2>6. KnowsLobby(w, i)'
      <3>1. w.can_attempt_join = v.can_attempt_join
        BY <2>1, <2>2 DEF Learns
      <3>2. ~BroadcastOf("LOBBY_CLOSED")
        BY <1>1, <1>7, TopBroadcast
      <3> QED BY <1>1, <1>2, <2>2, <3>1, <3>2, LobbyStays DEF SamePeople
    <2>7. KnowsRoster(w, i)'
      <3> SUFFICES ASSUME i \in registered', ~Owes(i)'
                   PROVE  \E life \in [Slots -> Lives] : Lists(w, life)'
        BY DEF KnowsRoster
      <3>1. todo \notin NewsStacks
        <4>1. line \notin {"JOINED", "LEFT"}
          BY <1>7
        <4> QED BY <1>1, <4>1, TopBroadcast
      <3>2. PICK life \in [Slots -> Lives] : Lists(v, life)
        BY <2>2, <2>3, <3>1 DEF KnowsRoster
      <3>3. w.players = UpsertPlayer(v.players, Entry(name[k], Life(k)), MaxPlayers)
        BY <2>1, <2>2 DEF Learns, Shows
      <3>4. k \in Slots /\ k + 1 \in 0 .. MaxPlayers /\ k \in Int
        BY <1>2, MatchServerAssumption DEF TypeOK, Admitted, Slots
      <3>5. ReachedBy(todo) = k /\ ReachedBy(todo') = k + 1
        BY <1>7, <3>4, ReachedCases
      <3>6. Life(k) \in Lives
        BY DEF Life, Lives
      <3>7. PICK now : now = [life EXCEPT ![k] = Life(k)]
        OBVIOUS
      <3>8. Lists(w, now)' /\ now \in [Slots -> Lives]
        <4>1. k \in Admitted
          BY <1>7
        <4>2. Lists(w, now)'
          BY <1>1, <1>2, <2>2, <3>2, <3>3, <3>5, <3>7, <4>1, ListsOneMore
        <4>3. now \in [Slots -> Lives]
          BY <3>4, <3>6, <3>7
        <4> QED BY <4>2, <4>3
      <3> QED BY <3>8
    <2> QED BY <2>4, <2>5, <2>6, <2>7 DEF Knows
  <1>8. TypeOK
    BY <1>2
  <1> QED BY <1>4, <1>5, <1>6, <1>7, <1>8, AnnouncementIsHeard

LEMMA SnapshotLists ==
  ASSUME TypeOK, NEW i \in Slots, NEW w, w.players = Roster, SamePeople,
         \A j \in Slots : name'[j] = name[j]
  PROVE  KnowsRoster(w, i)'
  <1>1. /\ Admitted' = Admitted /\ Admitted \subseteq Slots
        /\ \A j \in Admitted : Life(j)' = Life(j) /\ name'[j] = name[j]
    BY DEF SamePeople, Admitted, Life, TypeOK
  <1>2. PICK life : life = [j \in Slots |-> Life(j)]
    OBVIOUS
  <1>3. life \in [Slots -> Lives]
    <2>1. \A j \in Slots : Life(j) \in Lives
      BY DEF Life, Lives
    <2> QED BY <1>2, <2>1
  <1>4. \A j \in Admitted : life[j] = Life(j)
    BY <1>1, <1>2
  <1>5. w.players = {Entry(name'[j], life[j]) : j \in Admitted}
    BY <1>1, <1>4 DEF Roster
  <1>6. Lists(w, life)'
    BY <1>1, <1>4, <1>5 DEF Lists, Entry
  <1> QED BY <1>3, <1>6 DEF KnowsRoster

(* A snapshot shows the match as it is. *)
LEMMA SnapshotTells ==
  ASSUME TypeOK, SessionOK, NEW i \in Slots, NEW v, NEW w, NEW m, m = SnapshotFor(i),
         Learns(v, w, m), KnowsMatch(v, i), KnowsLobby(v, i), ~BroadcastOf("LOBBY_CLOSED"),
         SamePeople, \A j \in Slots : name'[j] = name[j]
  PROVE  KnowsMatch(w, i)' /\ KnowsLobby(w, i)' /\ KnowsRoster(w, i)'
  <1> DEFINE p == m.progress
  <1>1. /\ m.line = "STATE" /\ m.players = Roster /\ Stage(m) = p /\ m.progress = p
        /\ p = IF phase = "GAME_OVER" /\ i \notin Registered THEN "" ELSE StateLine(i)
    BY DEF SnapshotFor, Stage
  <1> HIDE DEF p
  <1>2. phase \in Phases
    BY DEF TypeOK
  <1>3. /\ Admitted' = Admitted /\ (WonMatch(i)' <=> WonMatch(i)) /\ phase' = phase
        /\ admitted' = admitted /\ registered' = registered /\ Admitted \subseteq Slots
        /\ \A j \in Admitted : Life(j)' = Life(j)
    BY DEF SamePeople, Admitted, WonMatch, Life, TypeOK
  <1>4. KnowsRoster(w, i)'
    <2>1. w.players = Roster
      BY <1>1 DEF Learns, Shows
    <2> QED BY <2>1, SnapshotLists
  <1>5. CASE phase = "GAME_OVER"
    <2>1. p \in {"WIN", "LOSE", "GAME_OVER", ""} /\ (p = "WIN" <=> WonMatch(i))
          /\ (p \in {"WIN", "LOSE"} <=> i \in Admitted)
      <3>1. CASE i \in Registered
        BY <1>1, <1>5, <3>1, VerdictStage DEF StateLine, WonMatch
      <3>2. CASE i \notin Registered
        BY <1>1, <1>5, <3>2 DEF WonMatch, Admitted, Registered
      <3> QED BY <3>1, <3>2
    <2>2. /\ w.joined_match = v.joined_match /\ ~w.repick_phase
          /\ w.game_over <=> p \in {"WIN", "LOSE"} \/ v.game_over
          /\ w.match_result = IF p = "WIN" THEN 1 ELSE IF p = "LOSE" THEN -1 ELSE v.match_result
      BY <1>1, <2>1 DEF Learns, KnowsMatch
    <2>3. w.can_attempt_join = v.can_attempt_join
      BY <1>1, <2>1 DEF Learns
    <2>4. KnowsMatch(w, i)'
      <3>1. /\ v.joined_match <=> i \in admitted
            /\ v.game_over <=> i \in Admitted
            /\ v.match_result = 1 <=> v.game_over /\ WonMatch(i)
        BY <1>5 DEF KnowsMatch
      <3>2. w.joined_match <=> i \in admitted'
        BY <1>3, <2>2, <3>1
      <3>3. w.game_over <=> i \in Admitted' /\ phase' = "GAME_OVER"
        BY <1>3, <1>5, <2>1, <2>2, <3>1
      <3>4. w.match_result = 1 <=> w.game_over /\ WonMatch(i)'
        <4>1. CASE p = "WIN"
          BY <1>3, <2>1, <2>2, <4>1
        <4>2. CASE p = "LOSE"
          <5>1. w.match_result = -1 /\ ~WonMatch(i)
            BY <2>1, <2>2, <4>2
          <5> QED BY <1>3, <5>1
        <4>3. CASE p \notin {"WIN", "LOSE"}
          <5>1. w.match_result = v.match_result /\ (w.game_over <=> v.game_over)
            BY <2>2, <4>3
          <5> QED BY <1>3, <3>1, <5>1
        <4> QED BY <4>1, <4>2, <4>3
      <3> QED BY <2>2, <3>2, <3>3, <3>4 DEF KnowsMatch
    <2>5. KnowsLobby(w, i)'
      BY <1>3, <1>5, <2>3 DEF KnowsLobby
    <2> QED BY <1>4, <2>4, <2>5
  <1>6. CASE phase # "GAME_OVER"
    <2>1. /\ p \in {"LOBBY_WAITING", "LOBBY_OPEN", "SETUP_OPEN", "ROUND_START"}
          /\ p \in {"LOBBY_WAITING", "LOBBY_OPEN"} <=> phase = "LOBBY_OPEN"
      BY <1>1, <1>2, <1>6 DEF StateLine, LobbyLine, Phases
    <2>2. /\ w.joined_match = v.joined_match /\ ~w.repick_phase
          /\ w.game_over = v.game_over /\ w.match_result = v.match_result
      BY <1>1, <2>1 DEF Learns, KnowsMatch
    <2>3. w.can_attempt_join <=> phase = "LOBBY_OPEN"
      BY <1>1, <2>1 DEF Learns
    <2>4. KnowsMatch(w, i)'
      BY <1>3, <1>6, <2>2, MatchStays
    <2>5. KnowsLobby(w, i)'
      BY <1>3, <2>3 DEF KnowsLobby
    <2> QED BY <1>4, <2>4, <2>5
  <1> QED BY <1>5, <1>6

LEMMA SnapshotsKnown ==
  ASSUME NEW i, NEW v, NEW w, Hearing(i, v, w), Snapshots
  PROVE  Knows(w, i)'
  <1>1. todo # <<>> /\ Head(todo) = SnapshotCall /\ todo' = Tail(todo) /\ SamePeople
    BY DEF Snapshots
  <1>2. TypeOK /\ SessionOK /\ Calm /\ i \in Slots /\ i \in connected
    BY DEF Hearing
  <1>3. ~BroadcastOf("LOBBY_CLOSED")
    BY <1>1 DEF BroadcastOf, Running, SnapshotCall, Call
  <1>4. CASE i \in registered
    <2>1. PICK m : m = SnapshotFor(i)
      OBVIOUS
    <2>2. Said(i) = <<m>>
      BY <1>2, <1>4, <2>1, SnapshotIsHeard DEF Registered
    <2>3. /\ Learns(v, w, m) /\ KnowsName(v, i) /\ KnowsMatch(v, i) /\ KnowsLobby(v, i)
          /\ \A j \in Slots : name'[j] = name[j]
      BY <2>2, LineHeard
    <2>4. KnowsMatch(w, i)' /\ KnowsLobby(w, i)' /\ KnowsRoster(w, i)'
      BY <1>1, <1>2, <1>3, <2>1, <2>3, SnapshotTells
    <2>5. m.line = "STATE" /\ registered' = registered
      BY <1>1, <2>1 DEF SnapshotFor, SamePeople
    <2>6. KnowsName(w, i)'
      BY <1>2, <2>3, <2>5, LineSparesName
    <2> QED BY <2>4, <2>6 DEF Knows
  <1>5. CASE i \notin registered
    <2>1. Said(i) = <<>>
      BY <1>2, <1>5, SnapshotIsHeard DEF Registered
    <2> QED BY <1>1, <1>3, <1>5, <2>1, QuietStays
  <1> QED BY <1>4, <1>5

(* A call on top that says nothing of the players. *)
LEMMA TopKeeps ==
  ASSUME NEW i, NEW v, NEW w, Hearing(i, v, w), todo # <<>>,
         Head(todo).fn \notin {"queue_broadcast", "broadcast_game_state", "broadcast_positions"}
  PROVE  /\ todo \notin NewsStacks /\ ~BroadcastOf("LOBBY_CLOSED")
         /\ \A j \in Admitted : j < ReachedBy(todo)
  <1>1. ReachedBy(todo) = MaxPlayers
    BY ReachedCases
  <1>2. \A j \in Admitted : j < MaxPlayers
    BY AllReached DEF Hearing
  <1> QED BY <1>1, <1>2, TopIsNoNews

LEMMA AdmissionKnown ==
  ASSUME NEW i, NEW v, NEW w, Hearing(i, v, w), NEW k \in Slots, Considers(k)
  PROVE  Knows(w, i)'
  <1>1. /\ todo = <<Admission(k)>> /\ todo # <<>> /\ SamePeople
        /\ Head(todo).fn = "maybe_admit_player"
    BY Tails DEF Considers, Admission, CallOn
  <1>2. /\ todo \notin NewsStacks /\ ~BroadcastOf("LOBBY_CLOSED")
        /\ \A j \in Admitted : j < ReachedBy(todo)
    BY <1>1, TopKeeps
  <1>3. i \in Slots /\ Asked(i) /\ SessionOK
    BY DEF Hearing
  <1>4. CASE Said(i) = <<>>
    BY <1>1, <1>2, <1>4, QuietStays
  <1>5. CASE i = k /\ Said(i) = <<Line("ERROR lobby_closed")>>
    <2>1. PICK m : m = Line("ERROR lobby_closed")
      OBVIOUS
    <2>2. m.line = "ERROR lobby_closed" /\ Stage(m) = "ERROR lobby_closed"
      BY <2>1 DEF Line, Stage
    <2>3. /\ Learns(v, w, m) /\ KnowsName(v, i) /\ KnowsMatch(v, i) /\ KnowsLobby(v, i)
          /\ name'[i] = name[i] /\ (Owes(i)' <=> Owes(i))
      BY <1>5, <2>1, LineHeard
    <2>4. Owes(i)'
      BY <1>1, <1>3, <1>5, <2>3 DEF Asked
    <2>5. registered' = registered
      BY <1>1 DEF SamePeople
    <2>6. KnowsName(w, i)'
      BY <1>3, <2>2, <2>3, <2>5, LineSparesName
    <2>7. KnowsMatch(w, i)'
      BY <1>1, <1>3, <2>2, <2>3, LineSparesMatch
    <2>8. ~w.can_attempt_join
      BY <2>2, <2>3 DEF Learns
    <2>9. KnowsLobby(w, i)' /\ KnowsRoster(w, i)'
      BY <2>4, <2>8 DEF KnowsLobby, KnowsRoster
    <2> QED BY <2>6, <2>7, <2>9 DEF Knows
  <1> QED BY <1>3, <1>4, <1>5, AdmissionIsHeard

LEMMA AdmittedKnown ==
  ASSUME NEW i, NEW v, NEW w, Hearing(i, v, w), NEW k \in Slots, Admits(k)
  PROVE  Knows(w, i)'
  <1>1. /\ todo = <<AdmissionTail(k)>> /\ todo # <<>>
        /\ phase = "LOBBY_OPEN" /\ phase' = "LOBBY_OPEN" /\ registered' = registered
        /\ admitted' = admitted \cup {k} /\ todo' = <<Broadcast("JOINED"), SnapshotCall>>
        /\ Head(todo).fn = "maybe_admit_player.tail"
    BY Tails DEF Admits, AdmissionTail, CallOn
  <1>2. ~BroadcastOf("LOBBY_CLOSED")
    BY <1>1, TopKeeps
  <1>3. todo' \in NewsStacks /\ i \in Slots
    BY <1>1 DEF NewsStacks, Hearing
  <1>4. KnowsRoster(w, i)'
    BY <1>3, NewsAreNews
  <1>5. CASE i # k
    <2>1. Said(i) = <<>>
      BY <1>3, <1>5, AdmittedIsHeard
    <2>2. /\ w = v /\ KnowsName(v, i) /\ KnowsMatch(v, i) /\ KnowsLobby(v, i)
          /\ name'[i] = name[i] /\ (Owes(i)' <=> Owes(i)) /\ ~v.repick_phase
      BY <2>1, NothingHeard
    <2>3. KnowsName(w, i)'
      BY <1>1, <1>3, <2>2, NameStays
    <2>4. KnowsMatch(w, i)'
      BY <1>1, <1>3, <1>5, <2>2, MatchStays
    <2>5. KnowsLobby(w, i)'
      BY <1>1, <1>2, <1>3, <2>2, LobbyStays
    <2> QED BY <1>4, <2>3, <2>4, <2>5 DEF Knows
  <1>6. CASE i = k
    <2>1. PICK m : m = Line("JOINED_MATCH")
      OBVIOUS
    <2>2. m.line = "JOINED_MATCH" /\ Stage(m) = "JOINED_MATCH"
      BY <2>1 DEF Line, Stage
    <2>3. Said(i) = <<m>>
      BY <1>6, <2>1, AdmittedIsHeard
    <2>4. /\ Learns(v, w, m) /\ KnowsName(v, i) /\ KnowsMatch(v, i) /\ KnowsLobby(v, i)
          /\ name'[i] = name[i]
      BY <2>3, LineHeard
    <2>5. KnowsName(w, i)'
      BY <1>1, <1>3, <2>2, <2>4, LineSparesName
    <2>6. /\ w.joined_match /\ ~w.repick_phase
          /\ w.game_over = v.game_over /\ w.match_result = v.match_result
      BY <2>2, <2>4 DEF Learns, KnowsMatch
    <2>7. KnowsMatch(w, i)'
      BY <1>1, <1>6, <2>4, <2>6 DEF KnowsMatch
    <2>8. KnowsLobby(w, i)'
      BY <1>1, <1>6 DEF KnowsLobby
    <2> QED BY <1>4, <2>5, <2>7, <2>8 DEF Knows
  <1> QED BY <1>5, <1>6

LEMMA EndKnown ==
  ASSUME NEW i, NEW v, NEW w, Hearing(i, v, w), Ends
  PROVE  Knows(w, i)'
  <1>1. /\ todo # <<>> /\ phase \in {"SETUP", "ROUND_ACTIVE"} /\ phase' = "GAME_OVER"
        /\ UNCHANGED <<connected, registered, admitted, alive, waiting>>
        /\ Head(todo).fn \in {"close_lobby_if_needed.tail", "reevaluate_state"}
    BY DEF Ends, TailCall, Reevaluation, Call
  <1>2. /\ todo \notin NewsStacks /\ ~BroadcastOf("LOBBY_CLOSED")
        /\ \A j \in Admitted : j < ReachedBy(todo)
    BY <1>1, TopKeeps
  <1>3. i \in Slots /\ TypeOK /\ i \in connected
    BY DEF Hearing
  <1>4. /\ Admitted' = Admitted /\ (WonMatch(i)' <=> WonMatch(i))
        /\ \A j \in Admitted : Life(j)' = Life(j) /\ j \in Slots
    BY <1>1, <1>3 DEF Admitted, WonMatch, Life, TypeOK
  <1>5. CASE i \in registered
    <2>1. PICK m : m = Line(Verdict(i))
      OBVIOUS
    <2>2. i \in Registered
      BY <1>3, <1>5 DEF Registered
    <2>3. Said(i) = <<m>>
      BY <1>3, <2>1, <2>2, EndIsHeard
    <2>4. /\ m.line = Verdict(i) /\ Stage(m) = Verdict(i)
          /\ Verdict(i) = IF WonMatch(i) THEN "WIN" ELSE IF i \in Admitted THEN "LOSE"
                          ELSE "GAME_OVER"
          /\ WonMatch(i) => i \in Admitted
      BY <2>1, <2>2, VerdictStage DEF Line, Stage, WonMatch
    <2>5. /\ Learns(v, w, m) /\ KnowsName(v, i) /\ KnowsMatch(v, i) /\ KnowsLobby(v, i)
          /\ KnowsRoster(v, i) /\ (Owes(i)' <=> Owes(i)) /\ \A j \in Slots : name'[j] = name[j]
      BY <2>3, LineHeard
    <2>6. KnowsName(w, i)'
      BY <1>1, <1>3, <2>4, <2>5, LineSparesName
    <2>7. KnowsMatch(w, i)'
      <3>1. /\ v.joined_match <=> i \in admitted
            /\ ~v.game_over /\ v.match_result # 1 /\ ~v.repick_phase
        BY <1>1, <2>5 DEF KnowsMatch
      <3>2. (w.joined_match <=> i \in admitted') /\ ~w.repick_phase
        BY <1>1, <2>4, <2>5, <3>1 DEF Learns
      <3>3. CASE WonMatch(i)
        <4>1. w.game_over /\ w.match_result = 1
          BY <2>4, <2>5, <3>3 DEF Learns
        <4> QED BY <1>1, <1>4, <2>4, <3>2, <3>3, <4>1 DEF KnowsMatch
      <3>4. CASE ~WonMatch(i) /\ i \in Admitted
        <4>1. w.game_over /\ w.match_result = -1
          BY <2>4, <2>5, <3>4 DEF Learns
        <4>2. w.match_result # 1
          BY <4>1
        <4> QED BY <1>1, <1>4, <3>2, <3>4, <4>1, <4>2 DEF KnowsMatch
      <3>5. CASE i \notin Admitted
        <4>1. ~w.game_over /\ w.match_result # 1
          BY <2>4, <2>5, <3>1, <3>5 DEF Learns
        <4> QED BY <1>1, <1>4, <3>2, <3>5, <4>1 DEF KnowsMatch
      <3> QED BY <3>3, <3>4, <3>5
    <2>8. KnowsLobby(w, i)'
      <3>1. w.can_attempt_join = v.can_attempt_join
        BY <2>4, <2>5 DEF Learns
      <3> QED BY <1>1, <1>2, <1>3, <2>5, <3>1, LobbyStays
    <2>9. KnowsRoster(w, i)'
      <3>1. w.players = v.players
        BY <2>4, <2>5 DEF Learns, Shows
      <3> QED BY <1>1, <1>2, <1>3, <1>4, <2>5, <3>1, RosterStays
    <2> QED BY <2>6, <2>7, <2>8, <2>9 DEF Knows
  <1>6. CASE i \notin registered
    <2>1. Said(i) = <<>>
      BY <1>3, <1>6, EndIsHeard DEF Registered
    <2>2. /\ w = v /\ KnowsName(v, i) /\ KnowsMatch(v, i) /\ KnowsLobby(v, i)
          /\ name'[i] = name[i] /\ (Owes(i)' <=> Owes(i)) /\ ~v.repick_phase
      BY <2>1, NothingHeard
    <2>3. KnowsName(w, i)'
      BY <1>1, <1>3, <2>2, NameStays
    <2>4. KnowsMatch(w, i)'
      <3>1. i \notin Admitted /\ ~WonMatch(i)
        BY <1>6 DEF Admitted, WonMatch
      <3>2. ~v.game_over /\ v.match_result # 1
        BY <1>1, <2>2 DEF KnowsMatch
      <3> QED BY <1>1, <1>4, <2>2, <3>1, <3>2 DEF KnowsMatch
    <2>5. KnowsLobby(w, i)'
      BY <1>1, <1>2, <1>3, <2>2, LobbyStays
    <2>6. KnowsRoster(w, i)'
      BY <1>1, <1>6 DEF KnowsRoster
    <2> QED BY <2>3, <2>4, <2>5, <2>6 DEF Knows
  <1> QED BY <1>5, <1>6

(* Nothing is said, and the match goes on. *)
LEMMA StartsAndCatchesKnown ==
  ASSUME NEW i, NEW v, NEW w, Hearing(i, v, w), Shuts \/ Begins \/ Catches
  PROVE  Knows(w, i)'
  <1>1. i \in Slots /\ TypeOK /\ Said(i) = <<>>
    BY RestIsQuiet DEF Hearing, Quietly
  <1>2. /\ w = v /\ KnowsName(v, i) /\ KnowsMatch(v, i) /\ KnowsLobby(v, i)
        /\ KnowsRoster(v, i) /\ name'[i] = name[i] /\ (Owes(i)' <=> Owes(i))
        /\ ~v.repick_phase /\ \A j \in Slots : name'[j] = name[j]
    BY <1>1, NothingHeard
  <1>3. /\ todo # <<>> /\ UNCHANGED <<connected, registered, admitted>>
        /\ Head(todo).fn \in {"close_lobby_if_needed", "close_lobby_if_needed.tail", "chase"}
        /\ phase # "GAME_OVER" /\ phase' # "GAME_OVER"
    BY Tails DEF Shuts, Begins, Catches, TailCall, ChaseCall, Call
  <1>4. /\ todo \notin NewsStacks /\ ~BroadcastOf("LOBBY_CLOSED")
        /\ \A j \in Admitted : j < ReachedBy(todo)
    BY <1>3, TopKeeps
  <1>5. Admitted' = Admitted /\ \A j \in Admitted : j \in Slots
    BY <1>1, <1>3 DEF Admitted, TypeOK
  <1>6. KnowsName(w, i)'
    BY <1>1, <1>2, <1>3, NameStays
  <1>7. KnowsMatch(w, i)'
    BY <1>1, <1>2, <1>3, MatchStays
  <1>8. CASE Shuts
    <2>1. /\ phase' # "LOBBY_OPEN" /\ todo' # <<>> /\ Head(todo') = Broadcast("LOBBY_CLOSED")
          /\ UNCHANGED <<alive, waiting>>
      BY <1>8, Tails DEF Shuts
    <2>2. BroadcastOf("LOBBY_CLOSED")'
      BY <2>1 DEF BroadcastOf, Running, Broadcast
    <2>3. KnowsLobby(w, i)'
      BY <2>1, <2>2 DEF KnowsLobby
    <2>4. \A j \in Admitted : Life(j)' = Life(j)
      BY <2>1 DEF Life
    <2>5. KnowsRoster(w, i)'
      BY <1>1, <1>2, <1>3, <1>4, <1>5, <2>4, RosterStays
    <2> QED BY <1>6, <1>7, <2>3, <2>5 DEF Knows
  <1>9. CASE Begins \/ Catches
    <2>1. phase # "LOBBY_OPEN" /\ phase' # "LOBBY_OPEN" /\ ReachedBy(todo') = 0
      <3>1. 0 \in 0 .. MaxPlayers /\ <<ExpireCall, ChaseCall>> \in Afterwards
        BY MatchServerAssumption DEF Afterwards
      <3>2. CASE Catches
        BY <3>1, <3>2, ReachedCases DEF Catches
      <3>3. CASE Begins
        <4> DEFINE rest == <<ExpireCall, ChaseCall>>
        <4>1. /\ Broadcast("ROUND_START") \in Calls /\ Positions(0) \in Calls
              /\ rest \in Seq(Calls)
          BY <3>1, AfterwardsTypes DEF Broadcast, Calls, Lines
        <4>2. todo' = <<Broadcast("ROUND_START"), Positions(0)>> \o rest
          BY <3>3 DEF Begins
        <4> HIDE DEF rest
        <4>3. todo' # <<>> /\ Head(todo') = Broadcast("ROUND_START")
          BY <4>1, <4>2, TwoOnTop
        <4> QED BY <3>3, <4>3, ReachedCases DEF Begins
      <3> QED BY <1>9, <3>2, <3>3
    <2>2. KnowsLobby(w, i)'
      BY <1>1, <1>2, <1>3, <1>4, <2>1, LobbyStays
    <2>3. \A j \in Admitted : ~(j < ReachedBy(todo'))
      BY <1>1, <2>1, AllReached
    <2>4. KnowsRoster(w, i)'
      BY <1>1, <1>2, <1>3, <1>4, <1>5, <2>3, RosterStays
    <2> QED BY <1>6, <1>7, <2>2, <2>4 DEF Knows
  <1> QED BY <1>8, <1>9

LEMMA PlacedKnown ==
  ASSUME NEW i, NEW v, NEW w, Hearing(i, v, w), Places
  PROVE  Knows(w, i)'
  <1>1. PICK k \in 0 .. MaxPlayers, rest \in Afterwards :
           /\ todo = <<Positions(k)>> \o rest /\ SamePeople
           /\ \/ todo' = rest /\ \A j \in Admitted : j < k
              \/ \E n \in Admitted :
                    /\ k <= n /\ \A j \in Admitted : k <= j => n <= j
                    /\ todo' = <<Broadcast("PLAYER"), Positions(n + 1)>> \o rest
    BY DEF Places
  <1>2. Said(i) = <<>> /\ TypeOK
    BY RestIsQuiet DEF Hearing, Quietly
  <1>3. todo # <<>> /\ Head(todo) = Positions(k)
    BY <1>1, AfterwardsTypes, OneOnTop
  <1>4. Head(todo).fn = "broadcast_positions"
    BY <1>3 DEF Positions, CallOn
  <1>5. todo \notin NewsStacks /\ ~BroadcastOf("LOBBY_CLOSED")
    BY <1>3, <1>4, TopIsNoNews
  <1>6. ReachedBy(todo) = k
    BY <1>1, ReachedCases
  <1>7. \A j \in Admitted : j < ReachedBy(todo') => j < ReachedBy(todo)
    <2>1. CASE todo' = rest /\ \A j \in Admitted : j < k
      BY <1>6, <2>1
    <2>2. ASSUME NEW n \in Admitted, k <= n, \A j \in Admitted : k <= j => n <= j,
                 todo' = <<Broadcast("PLAYER"), Positions(n + 1)>> \o rest
          PROVE  \A j \in Admitted : j < ReachedBy(todo') => j < ReachedBy(todo)
      <3>1. n \in Slots /\ k \in Int /\ \A j \in Admitted : j \in Int
        BY <1>2, MatchServerAssumption DEF TypeOK, Admitted, Slots
      <3>2. ReachedBy(todo') = n
        BY <2>2, <3>1, ReachedCases
      <3>3. n \in Int
        BY <3>1
      <3> QED BY <1>6, <2>2, <3>1, <3>2, <3>3
    <2> QED BY <1>1, <2>1, <2>2
  <1> QED BY <1>1, <1>2, <1>5, <1>7, QuietStays

LEMMA PassedKnown ==
  ASSUME NEW i, NEW v, NEW w, Hearing(i, v, w), Passes
  PROVE  Knows(w, i)'
  <1>1. /\ todo # <<>> /\ SamePeople
        /\ Head(todo).fn \notin {"queue_broadcast", "broadcast_game_state", "broadcast_positions"}
    BY DEF Passes, Reevaluation, ExpireCall, ChaseCall, Call
  <1>2. Said(i) = <<>>
    BY RestIsQuiet DEF Hearing, Quietly
  <1>3. /\ todo \notin NewsStacks /\ ~BroadcastOf("LOBBY_CLOSED")
        /\ \A j \in Admitted : j < ReachedBy(todo)
    BY <1>1, TopKeeps
  <1> QED BY <1>1, <1>2, <1>3, QuietStays

(* A step of a handler leaves every client something true to believe. *)
LEMMA HandleBeliefs ==
  ASSUME TypeOK, IInv, Calm, SessionOK, NamesUnique, BeliefsOK, Handle
  PROVE  BeliefsOK'
  <1>1. /\ CalmMove /\ UNCHANGED running
        /\ \A i \in Slots : UNCHANGED <<name[i], client[i], Owes(i)>>
        /\ \A i \in running : i \in Slots /\ i \in connected
                              /\ inbox'[i] = inbox[i] \o Said(i) /\ Tidings(Said(i))
    BY HandleKeeps
  <1> SUFFICES ASSUME NEW i \in running PROVE (Asked(i) /\ Knows(View(i), i))'
    BY <1>1 DEF BeliefsOK
  <1>2. i \in Slots /\ i \in connected /\ Asked(i) /\ Knows(View(i), i)
    BY <1>1 DEF BeliefsOK
  <1>3. Asked(i)'
    BY <1>2, HandleAsked
  <1>4. PICK q : q = Said(i)
    OBVIOUS
  <1>5. inbox'[i] = inbox[i] \o q /\ Tidings(q) /\ UNCHANGED client[i]
    BY <1>1, <1>2, <1>4
  <1>6. PICK v, w : HasHeard(i, v, w, q)
    BY <1>2, <1>5, IsTold
  <1>7. v = View(i) /\ w = View(i)'
    BY <1>6 DEF HasHeard
  <1>8. Hearing(i, v, w)
    BY <1>1, <1>2, <1>4, <1>6, <1>7 DEF Hearing
  <1>9. Knows(w, i)'
    <2>1. \A line : Announces(line) => Knows(w, i)'
      BY <1>8, AnnouncementKnown
    <2>2. \A k \in Slots : Considers(k) \/ Admits(k) => Knows(w, i)'
      BY <1>8, AdmissionKnown, AdmittedKnown
    <2>3. Snapshots \/ Ends => Knows(w, i)'
      BY <1>8, SnapshotsKnown, EndKnown
    <2>4. Shuts \/ Begins \/ Catches \/ Places \/ Passes => Knows(w, i)'
      BY <1>8, StartsAndCatchesKnown, PlacedKnown, PassedKnown
    <2> QED BY <1>1, <2>1, <2>2, <2>3, <2>4 DEF CalmMove
  <1>10. Knows(View(i), i)'
    BY <1>2, <1>7, <1>9, NextView
  <1> QED BY <1>3, <1>10

-----------------------------------------------------------------------------
(* The server at rest is told or asked something, and the clients move. *)

(* The beliefs of somebody whom the step of a server at rest does not concern. *)
LEMMA RestKnown ==
  ASSUME TypeOK, todo = <<>>, NEW i \in Slots, NEW v, NEW w, Knows(v, i), Same(v, w),
         phase' = phase, i \in registered' <=> i \in registered, i \in admitted' <=> i \in admitted,
         Admitted' = Admitted, \A j \in Admitted \cup ({i} \cap registered) : name'[j] = name[j],
         \A j \in Admitted : Life(j)' = Life(j), WonMatch(i)' <=> WonMatch(i),
         Owes(i) => Owes(i)'
  PROVE  Knows(w, i)'
  <1>1. /\ KnowsName(v, i) /\ KnowsMatch(v, i) /\ KnowsLobby(v, i) /\ KnowsRoster(v, i)
        /\ ~v.repick_phase
    BY DEF Knows, KnowsMatch
  <1>2. ~BroadcastOf("LOBBY_CLOSED") /\ todo \notin NewsStacks /\ ReachedBy(todo) = MaxPlayers
    BY Tails, ReachedCases, NewsHeads DEF BroadcastOf, Running
  <1>3. /\ w.name_registered = v.name_registered /\ w.my_name = v.my_name
        /\ w.joined_match = v.joined_match /\ w.can_attempt_join = v.can_attempt_join
        /\ ~w.repick_phase /\ w.game_over = v.game_over /\ w.match_result = v.match_result
        /\ w.players = v.players
    BY <1>1 DEF Same
  <1>4. KnowsName(w, i)'
    BY <1>1, <1>3, NameStays
  <1>5. KnowsMatch(w, i)'
    BY <1>1, <1>3, MatchStays
  <1>6. KnowsLobby(w, i)'
    BY <1>1, <1>2, <1>3, LobbyStays
  <1>7. \A j \in Admitted : j < ReachedBy(todo)
    BY <1>2, AllReached
  <1>8. KnowsRoster(w, i)'
    BY <1>1, <1>2, <1>3, <1>7, RosterStays
  <1> QED BY <1>4, <1>5, <1>6, <1>8 DEF Knows

(* Nothing is written to a client, nor by it. *)
Untouched(i) == UNCHANGED <<client[i], inbox[i], outbox[i]>>

LEMMA UntouchedAsked ==
  ASSUME SessionOK, NEW i \in Slots, Untouched(i), Asked(i),
         todo' # <<Admission(i)>>
  PROVE  Asked(i)' /\ (Owes(i)' <=> Owes(i)) /\ View(i)' = View(i) /\ View(i) \in Clients
  <1>1. Asked(i)'
    BY DEF Untouched, Asked, None, AtMostOne, At, Hellos, HellosBut, Asks, GetStateCommand,
           AnswerLines, Admission, CallOn
  <1>2. View(i)' = View(i) /\ View(i) \in Clients
    BY HearsNothing DEF Untouched
  <1> QED BY <1>1, <1>2 DEF Untouched, Owes

LEMMA UntouchedKnows ==
  ASSUME TypeOK, SessionOK, todo = <<>>, NEW i \in Slots, Untouched(i), Asked(i), Knows(View(i), i),
         todo' # <<Admission(i)>>,
         phase' = phase, i \in registered' <=> i \in registered, i \in admitted' <=> i \in admitted,
         Admitted' = Admitted, \A j \in Admitted \cup ({i} \cap registered) : name'[j] = name[j],
         \A j \in Admitted : Life(j)' = Life(j), WonMatch(i)' <=> WonMatch(i)
  PROVE  (Asked(i) /\ Knows(View(i), i))'
  <1>1. PICK v : v = View(i)
    OBVIOUS
  <1>2. Asked(i)' /\ (Owes(i)' <=> Owes(i)) /\ v = View(i)'
    BY <1>1, UntouchedAsked
  <1>3. Knows(v, i)
    BY <1>1
  <1>4. Knows(v, i)'
    BY <1>2, <1>3, RestKnown DEF Same
  <1> QED BY <1>2, <1>4, NextView

(* Nothing about the match changes. *)
LEMMA UntouchedSame ==
  ASSUME TypeOK, SessionOK, todo = <<>>, NEW i \in Slots, Untouched(i), Asked(i), Knows(View(i), i),
         todo' # <<Admission(i)>>, SamePeople, name' = name
  PROVE  (Asked(i) /\ Knows(View(i), i))'
  <1>1. /\ Admitted' = Admitted /\ (WonMatch(i)' <=> WonMatch(i)) /\ phase' = phase
        /\ \A j \in Admitted : Life(j)' = Life(j)
    BY DEF SamePeople, Admitted, WonMatch, Life
  <1>2. admitted' = admitted /\ registered' = registered
    BY DEF SamePeople
  <1> QED BY <1>1, <1>2, UntouchedKnows

LEMMA TickBeliefs ==
  ASSUME TypeOK, Calm, SessionOK, BeliefsOK, Tick
  PROVE  BeliefsOK'
  <1>1. /\ todo = <<>> /\ todo' \in TimerStacks \cup {<<>>} /\ SamePeople /\ UNCHANGED session
    BY CalmTicks DEF Tick
  <1>2. \A i \in Slots : todo' # <<Admission(i)>>
    BY <1>1 DEF TimerStacks, ExpireCall, ChaseCall, Call, Admission, CallOn
  <1> SUFFICES ASSUME NEW i \in running PROVE (Asked(i) /\ Knows(View(i), i))'
    BY <1>1 DEF BeliefsOK, session
  <1>3. i \in Slots /\ Asked(i) /\ Knows(View(i), i)
    BY DEF BeliefsOK, SessionOK, TypeOK
  <1>4. Untouched(i) /\ name' = name
    BY <1>1 DEF Untouched, session, fields, wires
  <1> QED BY <1>1, <1>2, <1>3, <1>4, UntouchedSame

LEMMA StartBeliefs ==
  ASSUME TypeOK, Calm, SessionOK, BeliefsOK, NEW i \in Slots, Start(i)
  PROVE  BeliefsOK'
  <1>1. PICK n \in User[i].names :
           /\ Accept(i) /\ client' = [client EXCEPT ![i] = NewClient(n)]
           /\ running' = running \cup {i} /\ inbox' = [inbox EXCEPT ![i] = <<>>]
           /\ outbox' = [outbox EXCEPT ![i] = <<GetStateCommand>>] /\ UNCHANGED fields
    BY DEF Start
  <1>2. /\ todo = <<>> /\ todo' = todo /\ phase' = phase /\ i \notin connected
        /\ connected' = connected \cup {i} /\ registered' = registered \ {i}
        /\ admitted' = admitted \ {i} /\ alive' = alive \ {i} /\ waiting' = waiting \ {i}
    BY <1>1 DEF Accept, Idle, ResetProgress, match
  <1>3. /\ i \notin running /\ i \notin registered /\ i \notin Admitted /\ Admitted' = Admitted
        /\ name' = name
    BY <1>1, <1>2 DEF SessionOK, TypeOK, Admitted, fields
  <1>4. \A j \in Slots : todo' # <<Admission(j)>>
    BY <1>2
  <1>5. ASSUME NEW j \in running
        PROVE  (Asked(j) /\ Knows(View(j), j))'
    <2>1. j \in Slots /\ j # i /\ Asked(j) /\ Knows(View(j), j)
      BY <1>3 DEF BeliefsOK, SessionOK, TypeOK
    <2>2. Untouched(j)
      BY <1>1, <2>1 DEF Untouched, SessionOK
    <2>3. /\ j \in registered' <=> j \in registered
          /\ j \in admitted' <=> j \in admitted
          /\ \A k \in Admitted : Life(k)' = Life(k)
          /\ WonMatch(j)' <=> WonMatch(j)
      BY <1>2, <1>3, <2>1 DEF Life, WonMatch
    <2> QED BY <1>2, <1>3, <1>4, <2>1, <2>2, <2>3, UntouchedKnows
  <1>6. (Asked(i) /\ Knows(View(i), i))'
    <2>1. PICK w : w = NewClient(n)
      OBVIOUS
    <2>2. client'[i] = w /\ inbox'[i] = <<>> /\ outbox'[i] = <<GetStateCommand>>
      BY <1>1, <2>1 DEF SessionOK
    <2>3. View(i)' = w
      BY <2>2, BelievesNothing DEF View
    <2>4. /\ w.pending_name = NoName /\ w.my_name = NoName /\ ~w.name_registered
          /\ ~w.name_check_pending /\ w.state_request_sent /\ ~w.can_attempt_join
          /\ ~w.joined_match /\ ~w.repick_phase /\ ~w.game_over /\ w.match_result = 0
      BY <2>1 DEF NewClient
    <2>5. i \notin registered' /\ i \notin admitted' /\ i \notin Admitted'
      BY <1>2, <1>3
    <2>6. w.match_result # 1
      BY <2>4
    <2>7. Knows(w, i)'
      BY <2>4, <2>5, <2>6 DEF Knows, KnowsName, KnowsMatch, KnowsLobby, KnowsRoster
    <2>8. Knows(View(i), i)'
      BY <2>3, <2>7, NextView
    <2>9. /\ \A M : None(<<>>, M) /\ AtMostOne(<<>>, M)
          /\ \A M : AtMostOne(<<GetStateCommand>>, M)
                    /\ (None(<<GetStateCommand>>, M) <=> GetStateCommand \notin M)
      BY MarksOfNothing, MarksOfOne
    <2>10. /\ GetStateCommand \notin Hellos /\ \A p : GetStateCommand \notin HellosBut(p)
      BY CommandKinds
    <2>11. Asks(<<GetStateCommand>>)
      BY DEF Asks
    <2>12. Asked(i)'
      <3>1. ~client'[i].name_check_pending
        BY <2>2, <2>4
      <3>2. None(outbox[i], Hellos)' /\ AtMostOne(outbox[i], Hellos)'
        BY <2>2, <2>9, <2>10 DEF None, AtMostOne, At, Hellos
      <3>3. None(inbox[i], AnswerLines)' /\ AtMostOne(inbox[i], AnswerLines)'
        BY <2>2, <2>9 DEF None, AtMostOne, At, AnswerLines
      <3>4. None(outbox[i], HellosBut(client[i].pending_name))'
        <4>1. None(outbox'[i], HellosBut(client'[i].pending_name))
          BY <2>2, <2>9, <2>10
        <4> QED BY <4>1 DEF None, At, HellosBut, Hellos
      <3>5. Asks(outbox[i])'
        <4>1. Asks(outbox'[i])
          BY <2>2, <2>11
        <4> QED BY <4>1 DEF Asks, GetStateCommand
      <3>6. (todo # <<Admission(i)>>)'
        BY <1>2
      <3> QED BY <3>1, <3>2, <3>3, <3>4, <3>5, <3>6 DEF Asked
    <2> QED BY <2>8, <2>12
  <1> QED BY <1>1, <1>5, <1>6 DEF BeliefsOK

LEMMA QuitBeliefs ==
  ASSUME TypeOK, Calm, SessionOK, BeliefsOK, NEW i \in Slots, ServeQuit(i)
  PROVE  BeliefsOK'
  <1>1. /\ Leave(i) /\ ForgetDropped /\ outbox' = [outbox EXCEPT ![i] = <<>>]
        /\ UNCHANGED <<running, client, inbox>> /\ todo = <<>>
    BY DEF ServeQuit, Leave, Idle
  <1>2. i \notin running
    BY ServeQuitTypes
  <1>3. /\ phase' = phase
        /\ \/ todo' \in NewsStacks
           \/ i \notin registered /\ todo' = <<Reevaluation>>
        /\ connected' = connected \ {i} /\ registered' = registered \ {i}
        /\ admitted' = admitted \ {i} /\ alive' = alive \ {i} /\ waiting' = waiting \ {i}
    BY <1>1, Leaves
  <1>4. \A j \in Slots : todo' # <<Admission(j)>>
    <2>1. \A j : Reevaluation # Admission(j) /\ SnapshotCall # Admission(j)
      BY DEF Reevaluation, SnapshotCall, Call, Admission, CallOn
    <2>2. \A j : \A l : Broadcast(l) # Admission(j)
      BY DEF Broadcast, Admission, CallOn
    <2>3. todo' \in NewsStacks =>
             Head(todo') \in {Broadcast("JOINED"), Broadcast("LEFT"), SnapshotCall}
      BY Tails DEF NewsStacks
    <2> QED BY <1>3, <2>1, <2>2, <2>3, Tails
  <1> SUFFICES ASSUME NEW j \in running PROVE (Asked(j) /\ Knows(View(j), j))'
    BY <1>1 DEF BeliefsOK
  <1>5. j \in Slots /\ j # i /\ Asked(j) /\ Knows(View(j), j) /\ j \in connected
    BY <1>2 DEF BeliefsOK, SessionOK, TypeOK
  <1>6. Untouched(j)
    BY <1>1, <1>5 DEF Untouched, SessionOK
  <1>7. \A k \in Slots : k \in connected' => name'[k] = name[k]
    BY <1>1 DEF ForgetDropped
  <1>8. /\ j \in registered' <=> j \in registered
        /\ j \in admitted' <=> j \in admitted
        /\ WonMatch(j)' <=> WonMatch(j)
        /\ j \in Admitted' <=> j \in Admitted
        /\ name'[j] = name[j]
    BY <1>3, <1>5, <1>7 DEF WonMatch, Admitted
  <1>9. CASE todo' \in NewsStacks
    <2>1. PICK v : v = View(j)
      OBVIOUS
    <2>2. Asked(j)' /\ (Owes(j)' <=> Owes(j)) /\ v = View(j)'
      BY <1>4, <1>5, <1>6, <2>1, UntouchedAsked
    <2>3. KnowsName(v, j) /\ KnowsMatch(v, j) /\ KnowsLobby(v, j) /\ ~v.repick_phase
      BY <1>5, <2>1 DEF Knows, KnowsMatch
    <2>4. ~BroadcastOf("LOBBY_CLOSED")
      BY <1>1 DEF BroadcastOf, Running
    <2>5. KnowsName(v, j)'
      BY <1>5, <1>8, <2>3, NameStays
    <2>6. KnowsMatch(v, j)'
      BY <1>3, <1>5, <1>8, <2>3, MatchStays
    <2>7. KnowsLobby(v, j)'
      BY <1>3, <1>5, <1>8, <2>2, <2>3, <2>4, LobbyStays
    <2>8. KnowsRoster(v, j)'
      BY <1>5, <1>9, NewsAreNews
    <2>9. Knows(v, j)'
      BY <2>5, <2>6, <2>7, <2>8 DEF Knows
    <2> QED BY <1>5, <2>2, <2>9, NextView
  <1>10. CASE i \notin registered
    <2>1. i \notin Admitted /\ Admitted' = Admitted /\ Admitted \subseteq Slots
          /\ \A k \in Admitted : k \in connected' /\ k # i
      BY <1>3, <1>10 DEF Admitted, TypeOK
    <2>2. \A k \in Admitted : Life(k)' = Life(k) /\ name'[k] = name[k]
      BY <1>3, <1>7, <2>1 DEF Life
    <2> QED BY <1>1, <1>3, <1>4, <1>5, <1>6, <1>8, <2>1, <2>2, UntouchedKnows
  <1> QED BY <1>3, <1>9, <1>10

LEMMA StopBeliefs ==
  ASSUME TypeOK, Calm, SessionOK, BeliefsOK, NEW i \in Slots, Stop(i)
  PROVE  BeliefsOK'
  <1>1. /\ todo = <<>> /\ running' = running \ {i} /\ UNCHANGED <<vars, fields>>
        /\ client' = [client EXCEPT ![i] = NoClient] /\ inbox' = [inbox EXCEPT ![i] = <<>>]
        /\ \E q : outbox' = [outbox EXCEPT ![i] = q]
    BY DEF Stop, Idle
  <1>2. SamePeople /\ name' = name /\ todo' = <<>>
    BY <1>1 DEF vars, players, match, SamePeople, fields
  <1> SUFFICES ASSUME NEW j \in running' PROVE (Asked(j) /\ Knows(View(j), j))'
    BY DEF BeliefsOK
  <1>3. j \in Slots /\ j # i /\ Asked(j) /\ Knows(View(j), j)
    BY <1>1 DEF BeliefsOK, SessionOK, TypeOK
  <1>4. Untouched(j)
    BY <1>1, <1>3 DEF Untouched, SessionOK
  <1> QED BY <1>1, <1>2, <1>3, <1>4, UntouchedSame

(* What is asked and answered, said of the next values by their names. *)
LEMMA NextAsked ==
  ASSUME NEW i \in Slots, NEW c, c = client'[i], NEW p, p = inbox'[i], NEW o, o = outbox'[i],
         c.name_check_pending <=> ~None(o, Hellos) \/ ~None(p, AnswerLines),
         AtMostOne(o, Hellos), AtMostOne(p, AnswerLines),
         None(o, Hellos) \/ None(p, AnswerLines),
         None(o, HellosBut(c.pending_name)),
         c.state_request_sent => Asks(o),
         todo' = <<Admission(i)>> => ~c.state_request_sent \/ o # <<>>
  PROVE  Asked(i)' /\ (Owes(i)' <=> ~c.state_request_sent \/ o # <<>>)
  BY DEF Asked, Owes, None, AtMostOne, At, Hellos, HellosBut, Asks, GetStateCommand,
         AnswerLines, Admission, CallOn

LEMMA IterateBeliefs ==
  ASSUME TypeOK, Calm, SessionOK, BeliefsOK, NEW i \in Slots, Iterate(i)
  PROVE  BeliefsOK'
  <1>1. /\ todo = <<>> /\ UNCHANGED <<vars, fields, running>> /\ i \in running
    BY DEF Iterate, Idle
  <1>2. SamePeople /\ name' = name /\ todo' = <<>>
    BY <1>1 DEF vars, players, match, SamePeople, fields
  <1>3. PICK first \in Seq(ServerLines), rest \in Seq(ServerLines) :
           LET c == Believes(client[i], first)
               auto == auto_join[i]
           IN  /\ inbox[i] = first \o rest
               /\ inbox' = [inbox EXCEPT ![i] = rest]
               /\ outbox' = [outbox EXCEPT ![i] = outbox[i] \o IterationSends(auto, c)]
               /\ client' = [client EXCEPT ![i] = AfterIteration(auto, c)]
    BY Iterates
  <1>4. PICK b, c, d, auto, all, o :
           /\ b = client[i] /\ o = outbox[i] /\ auto = auto_join[i]
           /\ c = Believes(b, first) /\ d = AfterIteration(auto, c)
           /\ all = IterationSends(auto, c)
    OBVIOUS
  <1>5. /\ inbox'[i] = rest /\ outbox'[i] = o \o all /\ client'[i] = d
        /\ \A j \in Slots : j # i => Untouched(j)
    BY <1>3, <1>4 DEF SessionOK, Untouched
  <1>6. /\ b \in Clients /\ o \in Seq(Commands) /\ auto \in AutoJoinConfigs
        /\ auto.enabled => auto.choice \in Picks /\ auto.tile \in Tiles
    BY <1>4 DEF SessionOK
  <1>7. /\ c \in Clients /\ c.pending_name = b.pending_name
        /\ c.state_request_sent = b.state_request_sent
    BY <1>4, <1>6, LinesTeach
  <1>8. c.name_check_pending <=> b.name_check_pending /\ None(first, AnswerLines)
    BY <1>4, <1>6, LinesAnswer
  <1>9. /\ all \in Seq(Commands)
        /\ AtMostOne(all, Hellos) /\ (None(all, Hellos) <=> ~AutoHello(auto, c))
        /\ None(all, HellosBut(c.name_input))
        /\ HasToSend(auto, c) => all # <<>> /\ all[Len(all)] = GetStateCommand
        /\ ~HasToSend(auto, c) => all = <<>>
    BY <1>4, <1>6, <1>7, IterationCommands
  <1>10. /\ d \in Clients /\ Same(c, d) /\ d.state_request_sent
         /\ AutoHello(auto, c) =>
               /\ d.pending_name = c.name_input /\ d.name_check_pending
               /\ ~c.name_check_pending /\ c.name_input \in Names
         /\ ~AutoHello(auto, c) =>
               /\ d.pending_name = c.pending_name
               /\ d.name_check_pending = c.name_check_pending
    BY <1>4, <1>7, IteratedClient
  <1>11. /\ AutoHello(auto, c) => HasToSend(auto, c)
         /\ ~c.state_request_sent => HasToSend(auto, c)
    BY DEF HasToSend
  <1>12. Asked(i) /\ Knows(View(i), i)
    BY <1>1 DEF BeliefsOK
  <1>13. /\ b.name_check_pending <=> ~None(o, Hellos) \/ ~None(first \o rest, AnswerLines)
         /\ AtMostOne(o, Hellos) /\ AtMostOne(first \o rest, AnswerLines)
         /\ None(o, Hellos) \/ None(first \o rest, AnswerLines)
         /\ None(o, HellosBut(b.pending_name))
         /\ b.state_request_sent => Asks(o)
    BY <1>3, <1>4, <1>12 DEF Asked
  <1>14. /\ None(first \o rest, AnswerLines) <=>
               None(first, AnswerLines) /\ None(rest, AnswerLines)
         /\ AtMostOne(first \o rest, AnswerLines) <=>
               /\ AtMostOne(first, AnswerLines) /\ AtMostOne(rest, AnswerLines)
               /\ None(first, AnswerLines) \/ None(rest, AnswerLines)
    BY MarksOfConcat
  <1>15. \A M : /\ None(o \o all, M) <=> None(o, M) /\ None(all, M)
                /\ AtMostOne(o \o all, M) <=>
                      /\ AtMostOne(o, M) /\ AtMostOne(all, M)
                      /\ None(o, M) \/ None(all, M)
    BY <1>6, <1>9, MarksOfConcat
  <1>16. Asks(o \o all) /\ (~b.state_request_sent \/ o # <<>> => o \o all # <<>>)
    <2>1. CASE HasToSend(auto, c)
      <3>1. all # <<>> /\ all[Len(all)] = GetStateCommand
        BY <1>9, <2>1
      <3>2. /\ Len(all) \in Nat \ {0} /\ Len(o) \in Nat /\ Len(o \o all) = Len(o) + Len(all)
            /\ \A k \in 1 .. Len(o) + Len(all) :
                  (o \o all)[k] = IF k <= Len(o) THEN o[k] ELSE all[k - Len(o)]
        <4>1. Len(all) \in Nat /\ Len(o) \in Nat /\ Len(all) # 0
          BY <1>6, <1>9, <3>1, LenProperties, EmptySeq
        <4> QED BY <1>6, <1>9, <4>1, ConcatProperties
      <3>3. /\ Len(o) + Len(all) \in 1 .. Len(o) + Len(all)
            /\ ~(Len(o) + Len(all) <= Len(o)) /\ Len(o) + Len(all) - Len(o) = Len(all)
        BY <3>2
      <3>4. (o \o all)[Len(o \o all)] = GetStateCommand
        BY <3>1, <3>2, <3>3
      <3>5. o \o all # <<>>
        <4>1. Len(<<>>) = 0
          OBVIOUS
        <4> QED BY <3>2, <4>1
      <3> QED BY <3>4, <3>5 DEF Asks
    <2>2. CASE ~HasToSend(auto, c)
      <3>1. all = <<>> /\ b.state_request_sent
        BY <1>7, <1>9, <1>11, <2>2
      <3>2. o \o all = o
        BY <1>6, <3>1, ConcatEmptySeq
      <3> QED BY <1>13, <3>1, <3>2
    <2> QED BY <2>1, <2>2
  <1>17. /\ d.name_check_pending <=> ~None(o \o all, Hellos) \/ ~None(rest, AnswerLines)
         /\ AtMostOne(o \o all, Hellos) /\ AtMostOne(rest, AnswerLines)
         /\ None(o \o all, Hellos) \/ None(rest, AnswerLines)
         /\ None(o \o all, HellosBut(d.pending_name))
         /\ AutoHello(auto, c) => None(rest, AnswerLines)
    <2>1. CASE AutoHello(auto, c)
      <3>1. None(o, Hellos) /\ None(rest, AnswerLines)
        BY <1>8, <1>10, <1>13, <1>14, <2>1
      <3>2. None(o, HellosBut(d.pending_name))
        BY <3>1, CommandKinds, FewerMarks
      <3>3. None(all, HellosBut(d.pending_name)) /\ ~None(all, Hellos) /\ AtMostOne(all, Hellos)
            /\ d.name_check_pending
        BY <1>9, <1>10, <2>1
      <3> QED BY <1>13, <1>14, <1>15, <3>1, <3>2, <3>3
    <2>2. CASE ~AutoHello(auto, c)
      <3>1. None(all, Hellos) /\ AtMostOne(all, Hellos)
        BY <1>9, <2>2
      <3>2. None(all, HellosBut(d.pending_name))
        BY <3>1, CommandKinds, FewerMarks
      <3>3. d.pending_name = b.pending_name /\ d.name_check_pending = c.name_check_pending
        BY <1>7, <1>10, <2>2
      <3>4. None(o, HellosBut(d.pending_name))
        BY <1>13, <3>3
      <3>5. c.name_check_pending <=> ~None(o, Hellos) \/ ~None(rest, AnswerLines)
        BY <1>8, <1>13, <1>14
      <3> QED BY <1>13, <1>14, <1>15, <2>2, <3>1, <3>2, <3>3, <3>4, <3>5
    <2> QED BY <2>1, <2>2
  <1>18. Asked(i)' /\ (Owes(i)' <=> o \o all # <<>>)
    <2>1. PICK p, r : p = o \o all /\ r = rest
      OBVIOUS
    <2>2. todo' # <<Admission(i)>>
      BY <1>2
    <2> QED BY <1>5, <1>10, <1>16, <1>17, <2>1, <2>2, NextAsked
  <1>19. Owes(i) => Owes(i)'
    BY <1>4, <1>16, <1>18 DEF Owes
  <1>20. PICK v, w : v = Believes(c, rest) /\ w = Believes(d, rest)
    OBVIOUS
  <1>21. v = View(i) /\ w = View(i)'
    <2>1. View(i) = Believes(b, first \o rest)
      BY <1>3, <1>4 DEF View
    <2>2. Believes(b, first \o rest) = Believes(Believes(b, first), rest)
      BY BelievesConcat
    <2>3. View(i)' = Believes(d, rest)
      BY <1>5 DEF View
    <2> QED BY <1>4, <1>20, <2>1, <2>2, <2>3
  <1>22. Same(v, w)
    BY <1>7, <1>10, <1>17, <1>20, SameLines
  <1>23. Knows(w, i)'
    <2>1. /\ Admitted' = Admitted /\ (WonMatch(i)' <=> WonMatch(i)) /\ phase' = phase
          /\ admitted' = admitted /\ registered' = registered
          /\ \A j \in Admitted : Life(j)' = Life(j)
      BY <1>2 DEF SamePeople, Admitted, WonMatch, Life
    <2>2. Knows(v, i)
      BY <1>12, <1>21
    <2> QED BY <1>1, <1>2, <1>19, <1>22, <2>1, <2>2, RestKnown
  <1>24. (Asked(i) /\ Knows(View(i), i))'
    BY <1>18, <1>21, <1>23, NextView
  <1>25. ASSUME NEW j \in running, j # i
         PROVE  (Asked(j) /\ Knows(View(j), j))'
    <2>1. j \in Slots /\ Asked(j) /\ Knows(View(j), j)
      BY DEF BeliefsOK, SessionOK, TypeOK
    <2> QED BY <1>1, <1>2, <1>5, <1>25, <2>1, UntouchedSame
  <1> QED BY <1>1, <1>24, <1>25 DEF BeliefsOK

LEMMA PressBeliefs ==
  ASSUME TypeOK, Calm, SessionOK, BeliefsOK, NEW i \in Slots,
         PressHello(i) \/ PressChoice(i) \/ PressSpawn(i) \/ PressRematch(i)
  PROVE  BeliefsOK'
  <1>1. PICK m \in Commands \ Quits, d \in Clients :
           /\ Press(i, m, d) /\ Same(client[i], d) /\ ~d.state_request_sent
           /\ \/ /\ m \in Hellos /\ \A p : m \in HellosBut(p) <=> p # d.pending_name
                 /\ ~client[i].name_check_pending /\ d.name_check_pending
              \/ /\ m \notin Hellos /\ d.pending_name = client[i].pending_name
                 /\ d.name_check_pending = client[i].name_check_pending
    BY Presses
  <1>2. /\ todo = <<>> /\ UNCHANGED <<vars, fields, running, inbox>> /\ i \in running
        /\ outbox' = [outbox EXCEPT ![i] = Append(@, m)]
        /\ client' = [client EXCEPT ![i] = d]
    BY <1>1 DEF Press, Idle
  <1>3. SamePeople /\ name' = name /\ todo' = <<>>
    BY <1>2 DEF vars, players, match, SamePeople, fields
  <1>4. PICK b, p, o, q : b = client[i] /\ p = inbox[i] /\ o = outbox[i] /\ q = o \o <<m>>
    OBVIOUS
  <1>5. b \in Clients /\ o \in Seq(Commands) /\ p \in Seq(ServerLines)
    BY <1>4 DEF SessionOK
  <1>6. q = Append(o, m) /\ q # <<>>
    BY <1>4, <1>5, OneMore
  <1>7. /\ client'[i] = d /\ inbox'[i] = p /\ outbox'[i] = q
        /\ \A j \in Slots : j # i => Untouched(j)
    BY <1>2, <1>4, <1>6 DEF SessionOK, Untouched
  <1>8. Asked(i) /\ Knows(View(i), i)
    BY <1>2 DEF BeliefsOK
  <1>9. /\ b.name_check_pending <=> ~None(o, Hellos) \/ ~None(p, AnswerLines)
        /\ AtMostOne(o, Hellos) /\ AtMostOne(p, AnswerLines)
        /\ None(o, Hellos) \/ None(p, AnswerLines)
        /\ None(o, HellosBut(b.pending_name))
    BY <1>4, <1>8 DEF Asked
  <1>10. \A M : /\ None(q, M) <=> None(o, M) /\ m \notin M
                /\ AtMostOne(q, M) <=> AtMostOne(o, M) /\ (None(o, M) \/ m \notin M)
    <2>1. o \in Seq(Commands) /\ m \in Commands /\ q = o \o <<m>>
      BY <1>4, <1>5
    <2> QED BY <2>1, MarksOfOneMore
  <1>11. /\ d.name_check_pending <=> ~None(q, Hellos) \/ ~None(p, AnswerLines)
         /\ AtMostOne(q, Hellos)
         /\ None(q, Hellos) \/ None(p, AnswerLines)
         /\ None(q, HellosBut(d.pending_name))
         /\ None(p, AnswerLines) \/ d.pending_name = b.pending_name
    <2>1. CASE /\ m \in Hellos /\ m \notin HellosBut(d.pending_name)
               /\ ~b.name_check_pending /\ d.name_check_pending
      <3>1. None(o, Hellos) /\ None(p, AnswerLines)
        BY <1>9, <2>1
      <3>2. None(o, HellosBut(d.pending_name))
        BY <3>1, CommandKinds, FewerMarks
      <3> QED BY <1>9, <1>10, <2>1, <3>1, <3>2
    <2>2. CASE /\ m \notin Hellos /\ d.pending_name = b.pending_name
               /\ d.name_check_pending = b.name_check_pending
      <3>1. m \notin HellosBut(d.pending_name)
        BY <2>2, CommandKinds
      <3> QED BY <1>9, <1>10, <2>2, <3>1
    <2> QED BY <1>1, <1>4, <2>1, <2>2
  <1>12. Asked(i)' /\ Owes(i)'
    <2>1. todo' # <<Admission(i)>>
      BY <1>3
    <2> QED BY <1>1, <1>7, <1>9, <1>11, <2>1, NextAsked
  <1>13. PICK v, w : v = Believes(b, p) /\ w = Believes(d, p)
    OBVIOUS
  <1>14. v = View(i) /\ w = View(i)'
    BY <1>4, <1>7, <1>13 DEF View
  <1>15. Same(v, w)
    BY <1>1, <1>4, <1>5, <1>11, <1>13, SameLines
  <1>16. Knows(w, i)'
    <2>1. /\ Admitted' = Admitted /\ (WonMatch(i)' <=> WonMatch(i)) /\ phase' = phase
          /\ admitted' = admitted /\ registered' = registered
          /\ \A j \in Admitted : Life(j)' = Life(j)
      BY <1>3 DEF SamePeople, Admitted, WonMatch, Life
    <2>2. Knows(v, i)
      BY <1>8, <1>14
    <2> QED BY <1>2, <1>3, <1>12, <1>15, <2>1, <2>2, RestKnown
  <1>17. (Asked(i) /\ Knows(View(i), i))'
    BY <1>12, <1>14, <1>16, NextView
  <1>18. ASSUME NEW j \in running, j # i
         PROVE  (Asked(j) /\ Knows(View(j), j))'
    <2>1. j \in Slots /\ Asked(j) /\ Knows(View(j), j)
      BY DEF BeliefsOK, SessionOK, TypeOK
    <2> QED BY <1>2, <1>3, <1>7, <1>18, <2>1, UntouchedSame
  <1> QED BY <1>2, <1>17, <1>18 DEF BeliefsOK

-----------------------------------------------------------------------------
(* A command is served. *)

(* The request that ends a stream is served last. *)
LEMMA Pops ==
  ASSUME NEW m \in Commands, NEW rest \in Seq(Commands), NEW o, o = <<m>> \o rest, Asks(o)
  PROVE  Asks(rest) /\ (m # GetStateCommand => rest # <<>>)
  <1>1. <<m>> \in Seq(Commands) /\ Len(<<m>>) = 1 /\ <<m>>[1] = m
    OBVIOUS
  <1>2. /\ Len(o) = 1 + Len(rest) /\ Len(rest) \in Nat
        /\ \A k \in 1 .. 1 + Len(rest) : o[k] = IF k <= 1 THEN <<m>>[k] ELSE rest[k - 1]
    BY <1>1, ConcatProperties, LenProperties
  <1>3. o # <<>>
    <2>1. Len(<<>>) = 0
      OBVIOUS
    <2> QED BY <1>2, <2>1
  <1>4. o[1 + Len(rest)] = GetStateCommand
    BY <1>2, <1>3 DEF Asks
  <1>5. CASE rest = <<>>
    <2>1. Len(rest) = 0
      BY <1>5
    <2>2. o[1] = m /\ o[1] = GetStateCommand
      BY <1>1, <1>2, <1>4, <2>1
    <2> QED BY <1>5, <2>2 DEF Asks
  <1>6. CASE rest # <<>>
    <2>1. Len(rest) # 0
      BY <1>6, EmptySeq
    <2>2. /\ 1 + Len(rest) \in 1 .. 1 + Len(rest) /\ ~(1 + Len(rest) <= 1)
          /\ 1 + Len(rest) - 1 = Len(rest)
      BY <1>2, <2>1
    <2>3. rest[Len(rest)] = GetStateCommand
      BY <1>2, <1>4, <2>2
    <2> QED BY <1>6, <2>3 DEF Asks
  <1> QED BY <1>5, <1>6

(* The server has popped a command and answered with some lines. *)
Answered(i, m, lines) ==
    /\ TypeOK /\ Calm /\ SessionOK /\ BeliefsOK /\ Idle
    /\ i \in running /\ m \in Commands /\ lines \in Seq(ServerLines)
    /\ outbox[i] = <<m>> \o outbox'[i] /\ outbox'[i] \in Seq(Commands)
    /\ inbox'[i] = inbox[i] \o lines /\ UNCHANGED client[i]

LEMMA AnsweredAsked ==
  ASSUME NEW i, NEW m, NEW lines, Answered(i, m, lines),
         m \in Hellos <=> ~None(lines, AnswerLines), AtMostOne(lines, AnswerLines),
         m # GetStateCommand \/ todo' # <<Admission(i)>>
  PROVE  Asked(i)' /\ (m # GetStateCommand => Owes(i)')
  <1>1. PICK c, p, q, o, rest :
           /\ c = client[i] /\ p = inbox[i] /\ q = p \o lines /\ o = outbox[i]
           /\ rest = outbox'[i]
    OBVIOUS
  <1>2. /\ i \in Slots /\ m \in Commands /\ lines \in Seq(ServerLines) /\ p \in Seq(ServerLines)
        /\ rest \in Seq(Commands) /\ o = <<m>> \o rest
        /\ c = client'[i] /\ q = inbox'[i] /\ rest = outbox'[i] /\ Asked(i)
    BY <1>1 DEF Answered, SessionOK, TypeOK, BeliefsOK
  <1>3. /\ c.name_check_pending <=> ~None(o, Hellos) \/ ~None(p, AnswerLines)
        /\ AtMostOne(o, Hellos) /\ AtMostOne(p, AnswerLines)
        /\ None(o, Hellos) \/ None(p, AnswerLines)
        /\ None(o, HellosBut(c.pending_name))
        /\ c.state_request_sent => Asks(o)
    BY <1>1, <1>2 DEF Asked
  <1>4. c.state_request_sent => Asks(rest) /\ (m # GetStateCommand => rest # <<>>)
    BY <1>2, <1>3, Pops
  <1>5. <<m>> \in Seq(Commands)
    BY <1>2
  <1>6. ASSUME NEW M
        PROVE  /\ None(o, M) <=> m \notin M /\ None(rest, M)
               /\ AtMostOne(o, M) => AtMostOne(rest, M) /\ (m \notin M \/ None(rest, M))
    <2>1. AtMostOne(<<m>>, M) /\ (None(<<m>>, M) <=> m \notin M)
      BY MarksOfOne
    <2>2. /\ None(o, M) <=> None(<<m>>, M) /\ None(rest, M)
          /\ AtMostOne(o, M) <=> /\ AtMostOne(<<m>>, M) /\ AtMostOne(rest, M)
                                 /\ None(<<m>>, M) \/ None(rest, M)
      BY <1>2, <1>5, MarksOfConcat
    <2> QED BY <2>1, <2>2
  <1>7. /\ None(q, AnswerLines) <=> None(p, AnswerLines) /\ None(lines, AnswerLines)
        /\ AtMostOne(q, AnswerLines) <=>
              /\ AtMostOne(p, AnswerLines) /\ AtMostOne(lines, AnswerLines)
              /\ None(p, AnswerLines) \/ None(lines, AnswerLines)
    <2>1. q = p \o lines /\ p \in Seq(ServerLines) /\ lines \in Seq(ServerLines)
      BY <1>1, <1>2
    <2> HIDE <1>1, <1>2
    <2> QED BY <2>1, MarksOfConcat
  <1>8. /\ c.name_check_pending <=> ~None(rest, Hellos) \/ ~None(q, AnswerLines)
        /\ AtMostOne(rest, Hellos) /\ AtMostOne(q, AnswerLines)
        /\ None(rest, Hellos) \/ None(q, AnswerLines)
    <2>1. CASE m \in Hellos /\ ~None(lines, AnswerLines) /\ AtMostOne(lines, AnswerLines)
      <3>1. ~None(o, Hellos) /\ None(rest, Hellos) /\ None(p, AnswerLines) /\ AtMostOne(rest, Hellos)
        BY <1>3, <1>6, <2>1
      <3> QED BY <1>3, <1>7, <2>1, <3>1
    <2>2. CASE m \notin Hellos /\ None(lines, AnswerLines)
      <3>1. /\ None(o, Hellos) <=> None(rest, Hellos)
            /\ AtMostOne(rest, Hellos)
        BY <1>3, <1>6, <2>2
      <3>2. AtMostOne(lines, AnswerLines)
        BY <2>2 DEF None, AtMostOne
      <3> QED BY <1>3, <1>7, <2>2, <3>1, <3>2
    <2> QED BY <2>1, <2>2
  <1>9. None(rest, HellosBut(c.pending_name))
    BY <1>3, <1>6
  <1>10. m # GetStateCommand => ~c.state_request_sent \/ rest # <<>>
    BY <1>4
  <1>11. c.state_request_sent => Asks(rest)
    BY <1>4
  <1>12. todo' = <<Admission(i)>> => ~c.state_request_sent \/ rest # <<>>
    BY <1>10
  <1>13. Asked(i)' /\ (Owes(i)' <=> ~c.state_request_sent \/ rest # <<>>)
    BY <1>2, <1>8, <1>9, <1>11, <1>12, NextAsked
  <1> QED BY <1>10, <1>13

(* The views before and after one line. *)
LEMMA AnsweredOne ==
  ASSUME NEW i, NEW m, NEW lines, Answered(i, m, lines), NEW l \in ServerLines, lines = <<l>>
  PROVE  \E v, w : /\ v = View(i) /\ w = View(i)' /\ v \in Clients /\ w \in Clients
                   /\ Learns(v, w, l) /\ Knows(v, i) /\ v.pending_name = client[i].pending_name
  <1>1. /\ i \in Slots /\ SessionOK /\ inbox'[i] = inbox[i] \o <<l>> /\ UNCHANGED client[i]
        /\ Knows(View(i), i)
    BY DEF Answered, SessionOK, TypeOK, BeliefsOK
  <1>2. View(i) \in Clients /\ View(i)' \in Clients /\ Learns(View(i), View(i)', l)
    BY <1>1, HearsOne
  <1>3. View(i).pending_name = client[i].pending_name
    BY <1>1, LinesTeach DEF View, SessionOK
  <1> QED BY <1>1, <1>2, <1>3

(* A client that has a snapshot to come is not yet right about the players. *)
LEMMA OwesKnows ==
  ASSUME NEW i \in Slots, NEW w, Owes(i)', KnowsName(w, i)', KnowsMatch(w, i)',
         phase' = "LOBBY_OPEN" \/ ~w.can_attempt_join
  PROVE  Knows(w, i)'
  BY DEF Knows, KnowsLobby, KnowsRoster

RefusedCommands ==
    {"ERROR already_registered", "ERROR duplicate_name", "ERROR register_first",
     "ERROR already_joined", "ERROR spawn_taken", "ERROR rematch_not_available"}

(* What this refusal of this command says of the name is so. *)
Justified(i, m, l) ==
    /\ m # GetStateCommand
    /\ m \in Hellos <=> l \in {"ERROR already_registered", "ERROR duplicate_name"}
    /\ l = "ERROR already_registered" => i \in registered
    /\ l \in {"ERROR duplicate_name", "ERROR register_first"} => i \notin registered

LEMMA RefusedKnows ==
  ASSUME NEW i, NEW m, NEW lines, Answered(i, m, lines), NEW l \in RefusedCommands,
         lines = <<Line(l)>>, Justified(i, m, l), UNCHANGED <<vars, name>>
  PROVE  (Asked(i) /\ Knows(View(i), i))'
  <1>1. PICK e : e = Line(l)
    OBVIOUS
  <1>2. /\ e.line = l /\ Stage(e) = l /\ e \in ServerLines
        /\ e \in AnswerLines <=> l \in {"ERROR already_registered", "ERROR duplicate_name"}
    <2>1. l \in Spoken /\ l # "STATE"
      BY DEF RefusedCommands, Spoken
    <2>2. e.line = l /\ e \in ServerLines
      BY <1>1, <2>1, LineTypes DEF Line
    <2>3. e \in AnswerLines <=> l \in Answers
      BY <2>2, AnswerOrNot
    <2> QED BY <2>1, <2>2, <2>3 DEF Stage, Answers, RefusedCommands
  <1>3. /\ AtMostOne(lines, AnswerLines)
        /\ None(lines, AnswerLines) <=> e \notin AnswerLines
    BY <1>1, MarksOfOne
  <1>4. Asked(i)' /\ Owes(i)'
    <2>1. m \in Hellos <=> ~None(lines, AnswerLines)
      BY <1>1, <1>2, <1>3 DEF Justified
    <2>2. m # GetStateCommand
      BY DEF Justified
    <2> QED BY <1>3, <2>1, <2>2, AnsweredAsked
  <1>5. PICK v, w : /\ w = View(i)' /\ Learns(v, w, e) /\ Knows(v, i)
    BY <1>1, <1>2, AnsweredOne
  <1>6. /\ i \in Slots /\ todo = <<>> /\ SamePeople /\ name'[i] = name[i]
        /\ registered' = registered
    BY DEF Answered, SessionOK, TypeOK, Idle, vars, players, match, SamePeople
  <1>7. KnowsName(v, i) /\ KnowsMatch(v, i) /\ KnowsLobby(v, i)
    BY <1>5 DEF Knows
  <1>8. KnowsName(w, i)'
    <2>1. w.name_registered <=> i \in registered
      BY <1>2, <1>5, <1>7 DEF Learns, KnowsName, RefusedCommands, Justified
    <2>2. w.my_name = v.my_name
      BY <1>2, <1>5 DEF Learns, RefusedCommands
    <2> QED BY <1>6, <1>7, <2>1, <2>2 DEF KnowsName
  <1>9. KnowsMatch(w, i)'
    <2>1. e.line \notin {"JOINED_MATCH", "MATCH_RESET"} /\ Stage(e) \notin {"WIN", "LOSE"}
      BY <1>2 DEF RefusedCommands
    <2> QED BY <1>5, <1>6, <1>7, <2>1, LineSparesMatch
  <1>10. phase' = "LOBBY_OPEN" \/ ~w.can_attempt_join
    <2>1. w.can_attempt_join = v.can_attempt_join
      BY <1>2, <1>5 DEF Learns, RefusedCommands
    <2>2. phase # "LOBBY_OPEN" => ~v.can_attempt_join
      BY <1>6, <1>7 DEF KnowsLobby, BroadcastOf, Running
    <2> QED BY <1>6, <2>1, <2>2 DEF SamePeople
  <1>11. Knows(w, i)'
    BY <1>4, <1>6, <1>8, <1>9, <1>10, OwesKnows
  <1> QED BY <1>4, <1>5, <1>6, <1>11, NextView

(* Two lines at once. *)
LEMMA Pair ==
  ASSUME NEW T, NEW a \in T, NEW b \in T
  PROVE  <<a>> \in Seq(T) /\ <<b>> \in Seq(T) /\ <<a, b>> = <<a>> \o <<b>>
  <1>1. <<a>> \in Seq(T) /\ <<b>> \in Seq(T)
    OBVIOUS
  <1>2. <<a, b>> \in Seq(T) /\ Len(<<a, b>>) = 2
    OBVIOUS
  <1>3. /\ <<a>> \o <<b>> \in Seq(T) /\ Len(<<a>> \o <<b>>) = 2
        /\ (<<a>> \o <<b>>)[1] = a /\ (<<a>> \o <<b>>)[2] = b
    BY <1>1
  <1>4. \A k \in 1 .. 2 : (<<a>> \o <<b>>)[k] = <<a, b>>[k]
    BY <1>3
  <1> QED BY <1>1, <1>2, <1>3, <1>4, SeqEqual

LEMMA HearsTwo ==
  ASSUME SessionOK, NEW i \in Slots, UNCHANGED client[i],
         NEW a \in ServerLines, NEW b \in ServerLines, inbox'[i] = inbox[i] \o <<a, b>>
  PROVE  \E v, u, w : /\ v = View(i) /\ w = View(i)' /\ Learns(v, u, a) /\ Learns(u, w, b)
                      /\ v.pending_name = client[i].pending_name
  <1>1. PICK v, u, w : /\ v = View(i) /\ w = View(i)'
                       /\ u = HandleServerLine(v, a, MaxPlayers)
    OBVIOUS
  <1>2. <<a>> \in Seq(ServerLines) /\ <<b>> \in Seq(ServerLines)
        /\ <<a, b>> = <<a>> \o <<b>> /\ <<a, b>> \in Seq(ServerLines)
    BY Pair, LineTypes
  <1>3. v \in Clients /\ w = Believes(v, <<a, b>>)
    BY <1>1, <1>2, Hears
  <1>4. w = Believes(Believes(v, <<a>>), <<b>>)
    <2>1. PICK p, q : p = <<a>> /\ q = <<b>>
      OBVIOUS
    <2>2. p \in Seq(ServerLines) /\ q \in Seq(ServerLines) /\ w = Believes(v, p \o q)
      BY <1>2, <1>3, <2>1
    <2>3. Believes(v, p \o q) = Believes(Believes(v, p), q)
      BY <2>2, BelievesConcat
    <2> QED BY <2>1, <2>2, <2>3
  <1>5. Believes(v, <<a>>) = u
    BY <1>1, BelievesOne
  <1>6. w = HandleServerLine(u, b, MaxPlayers)
    BY <1>4, <1>5, BelievesOne
  <1>7. u \in Clients /\ Learns(v, u, a)
    BY <1>1, <1>3, LineTeaches
  <1>8. Learns(u, w, b)
    BY <1>6, <1>7, LineTeaches
  <1>9. v.pending_name = client[i].pending_name
    BY <1>1, LinesTeach DEF View, SessionOK
  <1> QED BY <1>1, <1>7, <1>8, <1>9

LEMMA WelcomedKnows ==
  ASSUME NEW i, NEW n, NEW m, NEW lines, Answered(i, m, lines), m.cmd = "HELLO", n = m.name,
         lines = <<Line("WELCOME"), Line(LobbyStatus)>>, Hello(i),
         name' = [name EXCEPT ![i] = n]
  PROVE  (Asked(i) /\ Knows(View(i), i))'
  <1>1. PICK a, b : a = Line("WELCOME") /\ b = Line(LobbyStatus)
    OBVIOUS
  <1>2. /\ a.line = "WELCOME" /\ Stage(a) = "WELCOME" /\ a \in ServerLines
        /\ b.line \in {"LOBBY_WAITING", "LOBBY_OPEN", "LOBBY_CLOSED"}
        /\ b.line = LobbyStatus /\ Stage(b) = b.line /\ b \in ServerLines
    <2>1. "WELCOME" \in Spoken /\ LobbyStatus \in Spoken
      BY StatusStage DEF Spoken
    <2> QED BY <1>1, <2>1, StatusStage, LineTypes DEF Line, Stage
  <1>3. a \in AnswerLines /\ b \notin AnswerLines
    BY <1>2, AnswerOrNot DEF Answers
  <1>4. /\ i \in Slots /\ i \in running /\ m \in Commands /\ SessionOK /\ TypeOK
        /\ UNCHANGED client[i] /\ inbox'[i] = inbox[i] \o <<a, b>> /\ Asked(i)
        /\ Knows(View(i), i) /\ admitted \subseteq registered
        /\ outbox[i] = <<m>> \o outbox'[i] /\ outbox'[i] \in Seq(Commands)
    BY <1>1 DEF Answered, SessionOK, TypeOK, BeliefsOK, Calm
  <1>5. m \in Hellos /\ n \in Names /\ m # GetStateCommand /\ n # NoName
    <2>1. n \in Names
      BY <1>4, CommandFields
    <2>2. m \in Hellos
      BY <1>4 DEF Commands, Hellos
    <2> QED BY <2>1, <2>2, CommandKinds, NamesAreNames
  <1>6. ~None(lines, AnswerLines) /\ AtMostOne(lines, AnswerLines)
    <2>1. /\ <<a>> \in Seq(ServerLines) /\ <<b>> \in Seq(ServerLines)
          /\ lines = <<a>> \o <<b>>
      BY <1>1, <1>2, Pair
    <2>2. /\ ~None(<<a>>, AnswerLines) /\ AtMostOne(<<a>>, AnswerLines)
          /\ None(<<b>>, AnswerLines) /\ AtMostOne(<<b>>, AnswerLines)
      BY <1>3, MarksOfOne
    <2>3. /\ None(<<a>> \o <<b>>, AnswerLines) <=>
                None(<<a>>, AnswerLines) /\ None(<<b>>, AnswerLines)
          /\ AtMostOne(<<a>> \o <<b>>, AnswerLines) <=>
                /\ AtMostOne(<<a>>, AnswerLines) /\ AtMostOne(<<b>>, AnswerLines)
                /\ None(<<a>>, AnswerLines) \/ None(<<b>>, AnswerLines)
      BY <2>1, MarksOfConcat
    <2> QED BY <2>1, <2>2, <2>3
  <1>7. Asked(i)' /\ Owes(i)'
    BY <1>5, <1>6, AnsweredAsked
  <1>8. PICK v, u, w : /\ v = View(i) /\ w = View(i)' /\ Learns(v, u, a) /\ Learns(u, w, b)
                       /\ v.pending_name = client[i].pending_name
    BY <1>2, <1>4, HearsTwo
  <1>9. /\ phase' = phase /\ registered' = registered \cup {i} /\ i \notin registered
        /\ admitted' = admitted \ {i} /\ connected' = connected
        /\ name'[i] = n
    BY <1>4 DEF Hello, ResetProgress, match, SessionOK
  <1>10. n = v.pending_name
    <2>1. None(outbox[i], HellosBut(v.pending_name))
      BY <1>4, <1>8 DEF Asked
    <2>2. m \notin HellosBut(v.pending_name)
      <3>1. <<m>> \in Seq(Commands)
        BY <1>4
      <3>2. None(<<m>>, HellosBut(v.pending_name))
        <4>1. PICK o, rest, M : /\ o = outbox[i] /\ rest = outbox'[i]
                                /\ M = HellosBut(v.pending_name)
          OBVIOUS
        <4>2. o = <<m>> \o rest /\ rest \in Seq(Commands) /\ None(o, M)
          BY <1>4, <2>1, <4>1
        <4>3. None(<<m>> \o rest, M) <=> None(<<m>>, M) /\ None(rest, M)
          BY <3>1, <4>2, MarksOfConcat
        <4> QED BY <4>1, <4>2, <4>3
      <3> QED BY <3>2, MarksOfOne
    <2> QED BY <1>5, <2>2 DEF HellosBut
  <1>11. /\ u.name_registered /\ u.my_name = n
         /\ u.joined_match = v.joined_match /\ u.repick_phase = v.repick_phase
         /\ u.game_over = v.game_over /\ u.match_result = v.match_result
    BY <1>2, <1>5, <1>8, <1>10 DEF Learns
  <1>12. /\ w.name_registered /\ w.my_name = n
         /\ w.joined_match = v.joined_match /\ w.repick_phase = v.repick_phase
         /\ w.game_over = v.game_over /\ w.match_result = v.match_result
         /\ b.line = "LOBBY_CLOSED" => ~w.can_attempt_join
    BY <1>2, <1>8, <1>11 DEF Learns
  <1>13. KnowsName(w, i)'
    BY <1>9, <1>12 DEF KnowsName
  <1>14. KnowsMatch(w, i)'
    <2>1. /\ i \notin admitted /\ i \notin admitted' /\ i \notin Admitted /\ i \notin Admitted'
          /\ ~WonMatch(i)'
      BY <1>4, <1>9 DEF Admitted, WonMatch
    <2>2. /\ ~v.joined_match /\ ~v.repick_phase /\ ~v.game_over /\ v.match_result # 1
      BY <1>4, <1>8, <2>1 DEF Knows, KnowsMatch
    <2> QED BY <1>12, <2>1, <2>2 DEF KnowsMatch
  <1>15. phase' = "LOBBY_OPEN" \/ ~w.can_attempt_join
    BY <1>2, <1>9, <1>12 DEF LobbyStatus
  <1>16. Knows(w, i)'
    BY <1>4, <1>7, <1>13, <1>14, <1>15, OwesKnows
  <1> QED BY <1>4, <1>7, <1>8, <1>16, NextView

(* A choice or a tile is taken down: the admission is considered next. *)
LEMMA SetUpKnows ==
  ASSUME NEW i, NEW m, NEW lines, Answered(i, m, lines), m # GetStateCommand, m \notin Hellos,
         lines \in {<<>>, <<Line("CHOICE_OK")>>}, SamePeople, name' = name
  PROVE  (Asked(i) /\ Knows(View(i), i))'
  <1>1. PICK l : l = Line("CHOICE_OK")
    OBVIOUS
  <1>2. l.line = "CHOICE_OK" /\ Stage(l) = "CHOICE_OK" /\ l \in ServerLines /\ l \notin AnswerLines
    <2>1. "CHOICE_OK" \in Spoken
      BY DEF Spoken
    <2>2. l.line = "CHOICE_OK" /\ l \in ServerLines
      BY <1>1, <2>1, LineTypes DEF Line
    <2> QED BY <2>2, AnswerOrNot DEF Stage, Answers
  <1>3. None(lines, AnswerLines) /\ AtMostOne(lines, AnswerLines)
    <2>1. CASE lines = <<>>
      BY <2>1, MarksOfNothing
    <2>2. CASE lines = <<l>>
      BY <1>2, <2>2, MarksOfOne
    <2> QED BY <1>1, <2>1, <2>2
  <1>4. Asked(i)' /\ Owes(i)'
    BY <1>3, AnsweredAsked
  <1>5. /\ i \in Slots /\ todo = <<>> /\ name'[i] = name[i] /\ SessionOK
        /\ Knows(View(i), i) /\ UNCHANGED client[i] /\ inbox'[i] = inbox[i] \o lines
        /\ registered' = registered /\ phase' = phase
    BY DEF Answered, SessionOK, TypeOK, Idle, SamePeople, BeliefsOK
  <1>6. \E v, w : /\ v = View(i) /\ w = View(i)' /\ (w = v \/ Learns(v, w, l))
    <2>1. CASE lines = <<>>
      <3>1. inbox'[i] = inbox[i]
        BY <1>5, <2>1, ConcatEmptySeq DEF SessionOK
      <3> QED BY <1>5, <3>1, HearsNothing
    <2>2. CASE lines = <<l>>
      BY <1>2, <1>5, <2>2, HearsOne
    <2> QED BY <1>1, <2>1, <2>2
  <1>7. PICK v, w : /\ v = View(i) /\ w = View(i)' /\ (w = v \/ Learns(v, w, l))
    BY <1>6
  <1>8. KnowsName(v, i) /\ KnowsMatch(v, i) /\ KnowsLobby(v, i)
    BY <1>5, <1>7 DEF Knows
  <1>9. /\ w.name_registered = v.name_registered /\ w.my_name = v.my_name
        /\ w.joined_match = v.joined_match /\ ~w.repick_phase
        /\ w.game_over = v.game_over /\ w.match_result = v.match_result
        /\ w.can_attempt_join = v.can_attempt_join
    BY <1>2, <1>7, <1>8 DEF Learns, KnowsMatch
  <1>10. KnowsName(w, i)'
    BY <1>5, <1>8, <1>9, NameStays
  <1>11. KnowsMatch(w, i)'
    <2>1. /\ Admitted' = Admitted /\ (WonMatch(i)' <=> WonMatch(i)) /\ admitted' = admitted
      BY DEF SamePeople, Admitted, WonMatch
    <2> QED BY <1>5, <1>8, <1>9, <2>1, MatchStays
  <1>12. phase' = "LOBBY_OPEN" \/ ~w.can_attempt_join
    BY <1>5, <1>8, <1>9 DEF KnowsLobby, BroadcastOf, Running
  <1>13. Knows(w, i)'
    BY <1>4, <1>5, <1>10, <1>11, <1>12, OwesKnows
  <1> QED BY <1>4, <1>5, <1>7, <1>13, NextView

LEMMA ShownKnows ==
  ASSUME NEW i, NEW m, NEW lines, Answered(i, m, lines), m = GetStateCommand,
         lines = <<SnapshotFor(i)>>, SamePeople, todo' = <<>>, name' = name
  PROVE  (Asked(i) /\ Knows(View(i), i))'
  <1>1. PICK l : l = SnapshotFor(i)
    OBVIOUS
  <1>2. /\ l \in ServerLines /\ l \notin AnswerLines /\ l.line = "STATE"
    BY <1>1, SnapshotType, NoAnswers DEF SnapshotFor, Answered
  <1>3. AtMostOne(lines, AnswerLines) /\ None(lines, AnswerLines)
    BY <1>1, <1>2, MarksOfOne
  <1>4. m \notin Hellos
    BY CommandKinds
  <1>5. Asked(i)'
    <2>1. todo' # <<Admission(i)>>
      OBVIOUS
    <2> QED BY <1>3, <1>4, <2>1, AnsweredAsked
  <1>6. PICK v, w : w = View(i)' /\ Learns(v, w, l) /\ Knows(v, i)
    BY <1>1, <1>2, AnsweredOne
  <1>7. /\ i \in Slots /\ todo = <<>> /\ \A j \in Slots : name'[j] = name[j]
        /\ TypeOK /\ SessionOK
    BY DEF Answered, SessionOK, TypeOK, Idle
  <1>8. ~BroadcastOf("LOBBY_CLOSED")
    BY <1>7 DEF BroadcastOf, Running
  <1>9. KnowsName(v, i) /\ KnowsMatch(v, i) /\ KnowsLobby(v, i)
    BY <1>6 DEF Knows
  <1>10. KnowsMatch(w, i)' /\ KnowsLobby(w, i)' /\ KnowsRoster(w, i)'
    BY <1>1, <1>6, <1>7, <1>8, <1>9, SnapshotTells
  <1>11. KnowsName(w, i)'
    <2>1. registered' = registered /\ name'[i] = name[i]
      BY <1>7 DEF SamePeople
    <2> QED BY <1>2, <1>6, <1>7, <1>9, <2>1, LineSparesName
  <1>12. Knows(w, i)'
    BY <1>10, <1>11 DEF Knows
  <1> QED BY <1>5, <1>6, <1>7, <1>12, NextView

(* After a rematch nobody is in the match, whom it was announced to or not. *)
LEMMA ResetKnows ==
  ASSUME NEW i \in Slots, NEW v, NEW w, Knows(v, i), admitted \subseteq registered,
         NEW l, l = Line("MATCH_RESET"),
         i \in registered => Learns(v, w, l), i \notin registered => w = v,
         phase' = "LOBBY_OPEN", admitted' = {}, registered' = registered, name' = name
  PROVE  Knows(w, i)'
  <1>1. l.line = "MATCH_RESET" /\ Stage(l) = "MATCH_RESET"
    BY DEF Line, Stage
  <1>2. KnowsName(v, i) /\ KnowsMatch(v, i)
    BY DEF Knows
  <1>3. Admitted' = {} /\ i \notin admitted' /\ ~WonMatch(i)'
    BY DEF Admitted, WonMatch
  <1>4. CASE i \in registered
    <2>1. Learns(v, w, l)
      BY <1>4
    <2>2. KnowsName(w, i)'
      <3>1. name'[i] = name[i]
        OBVIOUS
      <3> QED BY <1>1, <1>2, <2>1, <3>1, LineSparesName
    <2>3. /\ ~w.joined_match /\ ~w.repick_phase /\ ~w.game_over /\ w.match_result = 0
          /\ w.can_attempt_join
      BY <1>1, <2>1 DEF Learns
    <2>4. w.players = {}
      BY <1>1, <2>1 DEF Learns, Shows
    <2>5. w.match_result # 1
      BY <2>3
    <2>6. KnowsMatch(w, i)' /\ KnowsLobby(w, i)'
      BY <1>3, <2>3, <2>5 DEF KnowsMatch, KnowsLobby
    <2>7. KnowsRoster(w, i)'
      <3>1. PICK life : life = [j \in Slots |-> "out"]
        OBVIOUS
      <3>2. life \in [Slots -> Lives]
        BY <3>1 DEF Lives
      <3>3. Lists(w, life)'
        BY <1>3, <2>4 DEF Lists
      <3> QED BY <3>2, <3>3 DEF KnowsRoster
    <2> QED BY <2>2, <2>6, <2>7 DEF Knows
  <1>5. CASE i \notin registered
    <2>1. i \notin Admitted /\ i \notin admitted
      BY <1>5 DEF Admitted
    <2>2. /\ ~v.joined_match /\ ~v.repick_phase /\ ~v.game_over /\ v.match_result # 1
          /\ ~v.name_registered
      BY <1>2, <1>5, <2>1 DEF KnowsMatch, KnowsName
    <2> QED BY <1>3, <1>5, <2>2 DEF Knows, KnowsName, KnowsMatch, KnowsLobby, KnowsRoster
  <1> QED BY <1>4, <1>5

LEMMA ServeFrame ==
  ASSUME TypeOK, Calm, SessionOK, BeliefsOK, NEW i \in Slots, Serve(i)
  PROVE  /\ todo = <<>> /\ Idle /\ running' = running /\ Dispatch(i, Head(outbox[i]))
         /\ Head(outbox[i]) \in Commands /\ phase # "SETUP" /\ admitted \subseteq registered
         /\ \A j \in running : /\ j \in Slots /\ j \in connected /\ Asked(j) /\ Knows(View(j), j)
                               /\ UNCHANGED client[j]
                               /\ j # i => UNCHANGED outbox[j]
  <1>1. /\ Idle /\ outbox[i] # <<>> /\ Dispatch(i, Head(outbox[i]))
        /\ outbox' = [outbox EXCEPT ![i] = Tail(@)] /\ UNCHANGED <<running, client>>
    BY DEF Serve
  <1>2. /\ Head(outbox[i]) \in Commands
        /\ \A j \in Slots : j # i => outbox'[j] = outbox[j]
    BY <1>1, ServedStream
  <1>3. phase # "SETUP" /\ admitted \subseteq registered /\ todo = <<>>
    BY <1>1, CalmAtRest DEF Idle
  <1>4. \A j \in running : j \in Slots /\ j \in connected /\ Asked(j) /\ Knows(View(j), j)
    BY DEF SessionOK, TypeOK, BeliefsOK
  <1> QED BY <1>1, <1>2, <1>3, <1>4

LEMMA ServeAnswered ==
  ASSUME TypeOK, Calm, SessionOK, BeliefsOK, NEW i \in running, Serve(i),
         NEW lines \in Seq(ServerLines), inbox'[i] = inbox[i] \o lines
  PROVE  Answered(i, Head(outbox[i]), lines)
  <1>1. i \in Slots
    BY DEF SessionOK, TypeOK
  <1>2. /\ Idle /\ outbox[i] # <<>> /\ UNCHANGED client[i]
        /\ outbox' = [outbox EXCEPT ![i] = Tail(@)]
    BY DEF Serve
  <1>3. PICK q, m : q = outbox'[i] /\ m = Head(outbox[i])
    OBVIOUS
  <1>4. m \in Commands /\ q \in Seq(Commands) /\ outbox[i] = <<m>> \o q
    BY <1>1, <1>2, <1>3, ServedStream
  <1> QED BY <1>2, <1>3, <1>4 DEF Answered

(* Nobody but the client in i is answered, and nothing about the match changes. *)
LEMMA OthersSame ==
  ASSUME TypeOK, Calm, SessionOK, BeliefsOK, NEW i \in Slots, Serve(i),
         NEW j \in running, j # i, UNCHANGED inbox[j],
         SamePeople, name' = name, todo' \in {<<>>, <<Admission(i)>>}
  PROVE  (Asked(j) /\ Knows(View(j), j))'
  <1>1. todo = <<>> /\ j \in Slots /\ Asked(j) /\ Knows(View(j), j) /\ Untouched(j)
    BY ServeFrame DEF Untouched
  <1>2. todo' # <<Admission(j)>>
    <2>1. Admission(i) # Admission(j)
      <3>1. Admission(i).slot = i /\ Admission(j).slot = j
        BY DEF Admission, CallOn
      <3> QED BY <3>1
    <2>2. Head(<<Admission(i)>>) = Admission(i) /\ Head(<<Admission(j)>>) = Admission(j)
          /\ <<Admission(j)>> # <<>>
      BY Tails
    <2>3. <<Admission(i)>> # <<Admission(j)>>
      BY <2>1, <2>2
    <2> QED BY <2>2, <2>3
  <1> QED BY <1>1, <1>2, UntouchedSame

LEMMA RefuseBeliefs ==
  ASSUME TypeOK, Calm, SessionOK, BeliefsOK, NEW i \in Slots, Serve(i),
         NEW l \in RefusedCommands, Refuse(i, l), Justified(i, Head(outbox[i]), l)
  PROVE  BeliefsOK'
  <1>1. Reply(i, <<Line(l)>>) /\ UNCHANGED <<vars, name>>
    BY DEF Refuse
  <1>2. PICK lines : lines = <<Line(l)>>
    OBVIOUS
  <1>3. l \in Spoken
    BY DEF RefusedCommands, Spoken
  <1>4. lines \in Seq(ServerLines)
    BY <1>2, <1>3, LineTypes
  <1>5. /\ \A j \in Slots : j # i => inbox'[j] = inbox[j]
        /\ i \in running => inbox'[i] = inbox[i] \o lines
    BY <1>1, <1>2, <1>4, ReplyLines
  <1>6. running' = running /\ todo = <<>> /\ \A j \in running : j \in Slots
    BY ServeFrame
  <1>7. SamePeople /\ name' = name /\ todo' = <<>>
    BY <1>1, <1>6 DEF vars, players, match, SamePeople
  <1>8. ASSUME NEW j \in running, j # i PROVE (Asked(j) /\ Knows(View(j), j))'
    BY <1>5, <1>6, <1>7, <1>8, OthersSame
  <1>9. i \in running => (Asked(i) /\ Knows(View(i), i))'
    BY <1>1, <1>2, <1>4, <1>5, ServeAnswered, RefusedKnows
  <1> QED BY <1>6, <1>8, <1>9 DEF BeliefsOK

LEMMA HelloBeliefs ==
  ASSUME TypeOK, Calm, SessionOK, BeliefsOK, NEW i \in Slots, Serve(i),
         NEW m, m = Head(outbox[i]), m.cmd = "HELLO", ServeHello(i, m.name)
  PROVE  BeliefsOK'
  <1>1. m \in Hellos /\ m # GetStateCommand
    <2>1. m \in Commands
      BY ServeFrame
    <2>2. m \in Hellos
      BY <2>1 DEF Commands, Hellos
    <2> QED BY <2>2, CommandKinds
  <1>2. CASE i \in registered /\ Refuse(i, "ERROR already_registered")
    <2>1. Justified(i, m, "ERROR already_registered")
      BY <1>1, <1>2 DEF Justified
    <2> QED BY <1>2, <2>1, RefuseBeliefs DEF RefusedCommands
  <1>3. CASE i \notin registered /\ Refuse(i, "ERROR duplicate_name")
    <2>1. Justified(i, m, "ERROR duplicate_name")
      BY <1>1, <1>3 DEF Justified
    <2> QED BY <1>3, <2>1, RefuseBeliefs DEF RefusedCommands
  <1>4. CASE /\ Hello(i)
             /\ name' = [name EXCEPT ![i] = m.name]
             /\ Reply(i, <<Line("WELCOME"), Line(LobbyStatus)>>)
    <2>1. PICK lines : lines = <<Line("WELCOME"), Line(LobbyStatus)>>
      OBVIOUS
    <2>2. lines \in Seq(ServerLines)
      BY <2>1, LineTypes, StatusStage DEF Spoken
    <2>3. /\ \A j \in Slots : j # i => inbox'[j] = inbox[j]
          /\ i \in running => inbox'[i] = inbox[i] \o lines
      BY <1>4, <2>1, <2>2, ReplyLines
    <2>4. /\ running' = running /\ todo = <<>> /\ admitted \subseteq registered
          /\ \A j \in running : /\ j \in Slots /\ Asked(j) /\ Knows(View(j), j)
                                /\ UNCHANGED client[j]
                                /\ j # i => UNCHANGED outbox[j]
      BY ServeFrame
    <2>5. i \in running => (Asked(i) /\ Knows(View(i), i))'
      BY <1>4, <2>1, <2>2, <2>3, ServeAnswered, WelcomedKnows
    <2>6. /\ i \notin registered /\ registered' = registered \cup {i} /\ todo' = todo
          /\ connected' = connected /\ phase' = phase
          /\ admitted' = admitted \ {i} /\ alive' = alive \ {i} /\ waiting' = waiting \ {i}
      BY <1>4 DEF Hello, ResetProgress, match
    <2>7. /\ i \notin Admitted /\ Admitted' = Admitted
          /\ \A k \in Slots : k # i => name'[k] = name[k]
      BY <1>4, <2>4, <2>6 DEF Admitted, SessionOK
    <2>8. ASSUME NEW j \in running, j # i PROVE (Asked(j) /\ Knows(View(j), j))'
      <3>1. j \in Slots /\ Untouched(j) /\ Asked(j) /\ Knows(View(j), j)
        BY <2>3, <2>4, <2>8 DEF Untouched
      <3>2. todo' # <<Admission(j)>>
        BY <2>4, <2>6, Tails
      <3>3. \A k \in Admitted : k \in Slots /\ k # i
        BY <2>7 DEF Admitted, TypeOK
      <3>4. /\ j \in registered' <=> j \in registered
            /\ j \in admitted' <=> j \in admitted
            /\ WonMatch(j)' <=> WonMatch(j)
        BY <2>6, <2>7, <2>8 DEF WonMatch
      <3>5. \A k \in Admitted : Life(k)' = Life(k) /\ name'[k] = name[k]
        BY <2>6, <2>7, <3>3 DEF Life
      <3>6. \A k \in Admitted \cup ({j} \cap registered) : name'[k] = name[k]
        BY <2>7, <2>8, <3>1, <3>5
      <3> QED BY <2>4, <2>6, <2>7, <3>1, <3>2, <3>4, <3>5, <3>6, UntouchedKnows
    <2> QED BY <2>4, <2>5, <2>8 DEF BeliefsOK
  <1> QED BY <1>2, <1>3, <1>4 DEF ServeHello

LEMMA SetUpKinds ==
  ASSUME NEW m, m.cmd \in {"CHOICE", "SPAWN"} PROVE m \notin Hellos /\ m # GetStateCommand
  BY DEF Hellos, GetStateCommand

(* A choice or a tile is refused. *)
LEMMA SetUpRefused ==
  ASSUME TypeOK, Calm, SessionOK, BeliefsOK, NEW i \in Slots, Serve(i),
         NEW m, m = Head(outbox[i]), m \notin Hellos, m # GetStateCommand,
         NEW l, l = SetUpError(i) \/ (l = "ERROR spawn_taken"), Refuse(i, l)
  PROVE  BeliefsOK'
  <1>1. m \notin Hellos /\ m # GetStateCommand
    OBVIOUS
  <1>2. CASE l = SetUpError(i)
    <2>1. \/ l = "ERROR already_joined"
          \/ l = "ERROR register_first" /\ i \notin registered
      BY <1>2 DEF SetUpError
    <2>2. Justified(i, m, l) /\ l \in RefusedCommands
      BY <1>1, <2>1 DEF Justified, RefusedCommands
    <2> QED BY <2>2, RefuseBeliefs
  <1>3. CASE l = "ERROR spawn_taken"
    <2>1. Justified(i, m, l) /\ l \in RefusedCommands
      BY <1>1, <1>3 DEF Justified, RefusedCommands
    <2> QED BY <2>1, RefuseBeliefs
  <1> QED BY <1>2, <1>3

LEMMA SetUpBeliefs ==
  ASSUME TypeOK, Calm, SessionOK, BeliefsOK, NEW i \in Slots, Serve(i),
         NEW m, m = Head(outbox[i]), m.cmd \in {"CHOICE", "SPAWN"},
         SamePeople, name' = name, todo' = <<Admission(i)>>,
         NEW lines \in {<<>>, <<Line("CHOICE_OK")>>},
         \A j \in Slots : j # i => inbox'[j] = inbox[j],
         i \in running => inbox'[i] = inbox[i] \o lines
  PROVE  BeliefsOK'
  <1>1. m \notin Hellos /\ m # GetStateCommand
    BY SetUpKinds
  <1>2. lines \in Seq(ServerLines)
    BY LineTypes DEF Spoken
  <1>3. i \in running => (Asked(i) /\ Knows(View(i), i))'
    BY <1>1, <1>2, ServeAnswered, SetUpKnows
  <1>4. running' = running /\ \A j \in running : j \in Slots
    BY ServeFrame
  <1>5. ASSUME NEW j \in running, j # i PROVE (Asked(j) /\ Knows(View(j), j))'
    BY <1>4, <1>5, OthersSame
  <1> QED BY <1>3, <1>4, <1>5 DEF BeliefsOK

LEMMA ShownBeliefs ==
  ASSUME TypeOK, Calm, SessionOK, BeliefsOK, NEW i \in Slots, Serve(i),
         NEW m, m = Head(outbox[i]), m.cmd = "GET_STATE", ServeGetState(i)
  PROVE  BeliefsOK'
  <1>1. m = GetStateCommand
    <2>1. m \in Commands
      BY ServeFrame
    <2> QED BY <2>1 DEF Commands, GetStateCommand
  <1>2. PICK lines : lines = <<SnapshotFor(i)>>
    OBVIOUS
  <1>3. lines \in Seq(ServerLines)
    BY <1>2, SnapshotType, LineTypes
  <1>4. Reply(i, lines) /\ GetState(i) /\ name' = name
    BY <1>2 DEF ServeGetState
  <1>5. /\ \A j \in Slots : j # i => inbox'[j] = inbox[j]
        /\ i \in running => inbox'[i] = inbox[i] \o lines
    BY <1>3, <1>4, ReplyLines
  <1>6. SamePeople /\ todo' = <<>>
    BY <1>4, GetsState
  <1>7. i \in running => (Asked(i) /\ Knows(View(i), i))'
    BY <1>1, <1>2, <1>3, <1>4, <1>5, <1>6, ServeAnswered, ShownKnows
  <1>8. running' = running /\ \A j \in running : j \in Slots
    BY ServeFrame
  <1>9. ASSUME NEW j \in running, j # i PROVE (Asked(j) /\ Knows(View(j), j))'
    BY <1>4, <1>5, <1>6, <1>8, <1>9, OthersSame
  <1> QED BY <1>7, <1>8, <1>9 DEF BeliefsOK

(* What is on the way to a client that has sent nothing grows by no answer. *)
LEMMA ToldAsked ==
  ASSUME SessionOK, NEW i \in Slots, UNCHANGED <<client[i], outbox[i]>>, Asked(i),
         NEW q \in Seq(ServerLines), None(q, AnswerLines), inbox'[i] = inbox[i] \o q,
         todo' # <<Admission(i)>>
  PROVE  Asked(i)'
  <1>1. PICK c, p, r, o : /\ c = client[i] /\ p = inbox[i] /\ r = p \o q /\ o = outbox[i]
    OBVIOUS
  <1>2. c = client'[i] /\ r = inbox'[i] /\ o = outbox'[i] /\ p \in Seq(ServerLines)
    BY <1>1 DEF SessionOK
  <1>3. /\ c.name_check_pending <=> ~None(o, Hellos) \/ ~None(p, AnswerLines)
        /\ AtMostOne(o, Hellos) /\ AtMostOne(p, AnswerLines)
        /\ None(o, Hellos) \/ None(p, AnswerLines)
        /\ None(o, HellosBut(c.pending_name))
        /\ c.state_request_sent => Asks(o)
    BY <1>1 DEF Asked
  <1>4. AtMostOne(q, AnswerLines)
    BY DEF None, AtMostOne
  <1>5. /\ None(r, AnswerLines) <=> None(p, AnswerLines) /\ None(q, AnswerLines)
        /\ AtMostOne(r, AnswerLines) <=>
              /\ AtMostOne(p, AnswerLines) /\ AtMostOne(q, AnswerLines)
              /\ None(p, AnswerLines) \/ None(q, AnswerLines)
    <2>1. r = p \o q
      BY <1>1
    <2> HIDE <1>1
    <2> QED BY <1>2, <2>1, MarksOfConcat
  <1> QED BY <1>2, <1>3, <1>4, <1>5, NextAsked

LEMMA RematchBeliefs ==
  ASSUME TypeOK, Calm, SessionOK, BeliefsOK, NEW i \in Slots, Serve(i),
         NEW m, m = Head(outbox[i]), m.cmd = "REMATCH", ServeRematch(i)
  PROVE  BeliefsOK'
  <1>1. m \notin Hellos /\ m # GetStateCommand
    BY DEF Hellos, GetStateCommand
  <1>2. CASE Refuse(i, "ERROR rematch_not_available")
    <2>1. Justified(i, m, "ERROR rematch_not_available")
      BY <1>1 DEF Justified
    <2> QED BY <1>2, <2>1, RefuseBeliefs DEF RefusedCommands
  <1>3. CASE Rematch(i) /\ Put([j \in ResetSlots |-> <<Line("MATCH_RESET")>>]) /\ name' = name
    <2>1. /\ phase' = "LOBBY_OPEN" /\ todo' = <<>> /\ Registered = registered
          /\ admitted' = {} /\ UNCHANGED <<connected, registered>>
      BY <1>3, Rematches
    <2>2. PICK l : l = Line("MATCH_RESET")
      OBVIOUS
    <2>3. l \in ServerLines /\ l \notin AnswerLines
      <3>1. "MATCH_RESET" \in Spoken \ Answers
        BY DEF Spoken, Answers
      <3> QED BY <2>2, <3>1, NoAnswers
    <2>4. <<l>> \in Seq(ServerLines) /\ None(<<l>>, AnswerLines) /\ AtMostOne(<<l>>, AnswerLines)
      BY <2>3, LineTypes, MarksOfOne
    <2>5. <<>> \in Seq(ServerLines) /\ None(<<>>, AnswerLines) /\ AtMostOne(<<>>, AnswerLines)
      BY LineTypes, MarksOfNothing
    <2>6. \A j \in Slots : inbox'[j] = IF j \in running /\ j \in registered
                                       THEN inbox[j] \o <<l>> ELSE inbox[j]
      <3> DEFINE said == [j \in ResetSlots |-> <<l>>]
      <3>1. Put(said)
        BY <1>3, <2>2
      <3>2. DOMAIN said = registered /\ \A j \in registered : said[j] = <<l>>
        BY <2>1 DEF ResetSlots
      <3> HIDE DEF said
      <3>3. \A j \in running \cap DOMAIN said : said[j] \in Seq(ServerLines)
        BY <2>4, <3>2
      <3>4. \A j \in Slots : inbox'[j] = IF j \in running /\ j \in DOMAIN said
                                         THEN inbox[j] \o said[j] ELSE inbox[j]
        BY <3>1, <3>3, PutLines
      <3> QED BY <3>2, <3>4
    <2>7. /\ running' = running /\ admitted \subseteq registered
          /\ \A j \in running : /\ j \in Slots /\ Asked(j) /\ Knows(View(j), j)
                                /\ UNCHANGED client[j]
                                /\ j # i => UNCHANGED outbox[j]
      BY ServeFrame
    <2> SUFFICES ASSUME NEW j \in running PROVE (Asked(j) /\ Knows(View(j), j))'
      BY <2>7 DEF BeliefsOK
    <2>8. /\ j \in Slots /\ UNCHANGED client[j]
          /\ Asked(j) /\ Knows(View(j), j)
      BY <2>7
    <2>9. PICK lines \in {<<>>, <<l>>} :
             /\ lines \in Seq(ServerLines) /\ None(lines, AnswerLines)
             /\ inbox'[j] = inbox[j] \o lines
             /\ lines = <<l>> <=> j \in registered
      <3>1. <<>> # <<l>>
        BY Tails
      <3>2. CASE j \in registered
        BY <2>4, <2>6, <2>8, <3>2
      <3>3. CASE j \notin registered
        <4>1. inbox'[j] = inbox[j] \o <<>>
          BY <2>6, <2>8, <3>3, ConcatEmptySeq DEF SessionOK
        <4> QED BY <2>5, <3>1, <3>3, <4>1
      <3> QED BY <3>2, <3>3
    <2>10. Asked(j)'
      <3>1. todo' # <<Admission(j)>>
        BY <2>1, Tails
      <3>2. CASE j = i
        <4>1. i \in running /\ inbox'[i] = inbox[i] \o lines /\ lines \in Seq(ServerLines)
          BY <2>9, <3>2
        <4>2. Answered(i, m, lines)
          BY <4>1, ServeAnswered
        <4>3. AtMostOne(lines, AnswerLines) /\ None(lines, AnswerLines)
          BY <2>9 DEF None, AtMostOne
        <4>4. Asked(i)'
          BY <1>1, <4>2, <4>3, AnsweredAsked
        <4> QED BY <3>2, <4>4
      <3>3. CASE j # i
        <4>1. UNCHANGED <<client[j], outbox[j]>>
          BY <2>7, <3>3
        <4>2. lines \in Seq(ServerLines) /\ None(lines, AnswerLines)
              /\ inbox'[j] = inbox[j] \o lines
          BY <2>9
        <4> HIDE <2>9
        <4> QED BY <2>8, <3>1, <4>1, <4>2, ToldAsked
      <3> QED BY <3>2, <3>3
    <2>11. \E v, w : /\ v = View(j) /\ w = View(j)'
                     /\ j \in registered => Learns(v, w, l)
                     /\ j \notin registered => w = v
      <3>1. CASE j \in registered
        BY <2>3, <2>8, <2>9, <3>1, HearsOne
      <3>2. CASE j \notin registered
        <4>1. inbox'[j] = inbox[j]
          BY <2>6, <3>2, <2>8
        <4> QED BY <2>8, <3>2, <4>1, HearsNothing
      <3> QED BY <3>1, <3>2
    <2>12. PICK v, w : /\ v = View(j) /\ w = View(j)'
                       /\ j \in registered => Learns(v, w, l)
                       /\ j \notin registered => w = v
      BY <2>11
    <2>13. Knows(v, j)
      BY <2>8, <2>12
    <2>14. Knows(w, j)'
      BY <1>3, <2>1, <2>2, <2>7, <2>8, <2>12, <2>13, ResetKnows
    <2> QED BY <2>8, <2>10, <2>12, <2>14, NextView
  <1> QED BY <1>2, <1>3 DEF ServeRematch

LEMMA ServeBeliefs ==
  ASSUME TypeOK, Calm, SessionOK, BeliefsOK, NEW i \in Slots, Serve(i)
  PROVE  BeliefsOK'
  <1>1. PICK m : m = Head(outbox[i])
    OBVIOUS
  <1>2. Dispatch(i, m) /\ todo = <<>>
    BY <1>1, ServeFrame
  <1>3. CASE m.cmd = "HELLO" /\ ServeHello(i, m.name)
    BY <1>1, <1>3, HelloBeliefs
  <1>4. CASE m.cmd = "CHOICE" /\ ServeChoice(i, m.choice)
    <2>1. CASE Refuse(i, SetUpError(i))
      <3>1. m \notin Hellos /\ m # GetStateCommand
        BY <1>4, SetUpKinds
      <3>2. PICK l : l = SetUpError(i)
        OBVIOUS
      <3> QED BY <1>1, <2>1, <3>1, <3>2, SetUpRefused
    <2>2. CASE Choose(i, m.choice) /\ Reply(i, <<Line("CHOICE_OK")>>) /\ UNCHANGED <<name, tile>>
      <3>1. PICK lines \in {<<>>, <<Line("CHOICE_OK")>>} : lines = <<Line("CHOICE_OK")>>
        OBVIOUS
      <3>2. lines \in Seq(ServerLines)
        BY <3>1, LineTypes DEF Spoken
      <3>3. /\ \A j \in Slots : j # i => inbox'[j] = inbox[j]
            /\ i \in running => inbox'[i] = inbox[i] \o lines
        BY <2>2, <3>1, <3>2, ReplyLines
      <3>4. SamePeople /\ name' = name /\ todo' = <<Admission(i)>>
        BY <2>2 DEF Choose, match, SamePeople, Admission
      <3> QED BY <1>1, <1>4, <3>3, <3>4, SetUpBeliefs
    <2> QED BY <1>4, <2>1, <2>2 DEF ServeChoice
  <1>5. CASE m.cmd = "SPAWN" /\ ServeSpawn(i, m.tile)
    <2>1. CASE Refuse(i, SetUpError(i)) \/ Refuse(i, "ERROR spawn_taken")
      <3>1. m \notin Hellos /\ m # GetStateCommand
        BY <1>5, SetUpKinds
      <3>2. PICK l : (l = SetUpError(i) \/ (l = "ERROR spawn_taken")) /\ Refuse(i, l)
        BY <2>1
      <3> QED BY <1>1, <3>1, <3>2, SetUpRefused
    <2>2. CASE Spawn(i) /\ UNCHANGED <<name, inbox>>
      <3>1. PICK lines \in {<<>>, <<Line("CHOICE_OK")>>} : lines = <<>>
        OBVIOUS
      <3>2. i \in running => inbox'[i] = inbox[i] \o lines
        BY <2>2, <3>1, ConcatEmptySeq DEF SessionOK
      <3>3. SamePeople /\ name' = name /\ todo' = <<Admission(i)>>
        BY <2>2 DEF Spawn, match, SamePeople, Admission
      <3>4. \A j \in Slots : j # i => inbox'[j] = inbox[j]
        BY <2>2
      <3> QED BY <1>1, <1>5, <3>2, <3>3, <3>4, SetUpBeliefs
    <2> QED BY <1>5, <2>1, <2>2 DEF ServeSpawn
  <1>6. CASE m.cmd = "GET_STATE" /\ ServeGetState(i)
    BY <1>1, <1>6, ShownBeliefs
  <1>7. CASE m.cmd = "REMATCH" /\ ServeRematch(i)
    BY <1>1, <1>7, RematchBeliefs
  <1> QED BY <1>2, <1>3, <1>4, <1>5, <1>6, <1>7 DEF Dispatch

-----------------------------------------------------------------------------
(* The beliefs hold. *)

LEMMA BeliefsInit == SInit => BeliefsOK
  BY DEF SInit, BeliefsOK

LEMMA BeliefsStep ==
  /\ TypeOK /\ IInv /\ Calm /\ SessionOK /\ NamesUnique /\ BeliefsOK
  /\ [SNext]_svars
  => BeliefsOK'
  <1> SUFFICES ASSUME TypeOK, IInv, Calm, SessionOK, NamesUnique, BeliefsOK, [SNext]_svars
               PROVE  BeliefsOK'
    OBVIOUS
  <1>1. CASE Handle
    BY <1>1, HandleBeliefs
  <1>2. CASE Tick
    BY <1>2, TickBeliefs
  <1>3. ASSUME NEW i \in Slots,
               \/ Serve(i) \/ ServeQuit(i) \/ Start(i) \/ Iterate(i) \/ Stop(i)
               \/ PressHello(i) \/ PressChoice(i) \/ PressSpawn(i) \/ PressRematch(i)
        PROVE  BeliefsOK'
    BY <1>3, ServeBeliefs, QuitBeliefs, StartBeliefs, IterateBeliefs, StopBeliefs, PressBeliefs
  <1>4. CASE UNCHANGED svars
    <2>1. UNCHANGED <<client, inbox, outbox, name, running, vars>>
      BY <1>4 DEF svars, session, fields, wires
    <2> SUFFICES ASSUME NEW j \in running PROVE (Asked(j) /\ Knows(View(j), j))'
      BY <2>1 DEF BeliefsOK
    <2>2. Asked(j) /\ Knows(View(j), j) /\ View(j)' = View(j) /\ j \in Slots
      BY <2>1, HearsNothing DEF BeliefsOK, SessionOK, TypeOK
    <2>3. PICK v : v = View(j) /\ v = View(j)' /\ Knows(v, j)
      BY <2>2
    <2>4. Asked(j)'
      BY <2>1, <2>2 DEF Asked, None, AtMostOne, At, Hellos, HellosBut, Asks, GetStateCommand,
             AnswerLines, Admission, CallOn, Owes, vars
    <2>5. Knows(v, j)'
      BY <2>1, <2>3 DEF Knows, KnowsName, KnowsMatch, KnowsLobby, KnowsRoster, Owes, Lists,
             BroadcastOf, Running, WonMatch, Admitted, Entry, Life, vars, players, match,
             ReachedBy, Broadcast, NewsStacks
    <2> QED BY <2>2, <2>3, <2>4, <2>5, NextView
  <1> QED BY <1>1, <1>2, <1>3, <1>4 DEF SNext

LEMMA BeliefsInvariant == SSpec => []BeliefsOK
  <1> QED BY BeliefsInit, BeliefsStep, ServerInvariant, CalmAlways, SessionTypesInvariant,
             NamesUniqueAlways, PTL DEF SSpec

(* Whoever has nothing on its way has the right picture of itself and of the
   match, in however many lines it was told, and in whatever order they were
   interleaved with what it sent (client_text_messages.c:210-390). *)
THEOREM BeliefsHoldAlways == SSpec => []BeliefsHold
  <1> QED BY BeliefsFollow, BeliefsInvariant, ServerInvariant, CalmAlways,
             SessionTypesInvariant, PTL

(* Then it also lists the players in the match as they are, although the lines
   that announce them, their deaths and their departures are not repeated to
   whoever did not have a name yet (client_text_messages.c:80-101, 363-372). *)
THEOREM RostersHoldAlways == SSpec => []RostersHold
  <1> QED BY RostersFollow, BeliefsInvariant, ServerInvariant, CalmAlways,
             SessionTypesInvariant, PTL

-----------------------------------------------------------------------------
(* What the screens of two winners say together. *)
VictoriesAgree ==
    \A i, j \in Admitted :
        /\ Quiet(i) /\ client[i].match_result = 1
        /\ Quiet(j) /\ client[j].match_result = 1
        => choice[i] = choice[j]

(* Two clients that each show their user a victory are in the match and hold one
   choice: the verdict of end_game (server_state.c:398-415), carried over the
   streams to both screens (client_text_messages.c:164-190). *)
THEOREM VictoriesAgreeAlways == SSpec => []VictoriesAgree
  <1>1. TypeOK /\ BeliefsHold /\ OneTypeWins => VictoriesAgree
    <2> SUFFICES ASSUME TypeOK, BeliefsHold, OneTypeWins, NEW i \in Admitted, NEW j \in Admitted,
                        Quiet(i), client[i].match_result = 1, Quiet(j), client[j].match_result = 1
                 PROVE  choice[i] = choice[j]
      BY DEF VictoriesAgree
    <2>1. i \in Slots /\ j \in Slots
      BY DEF TypeOK, Admitted
    <2>2. phase = "GAME_OVER" /\ WonMatch(i) /\ WonMatch(j)
      BY <2>1 DEF BeliefsHold
    <2>3. i \in Winners /\ j \in Winners
      BY <2>1, <2>2 DEF Winners
    <2> QED BY <2>2, <2>3 DEF OneTypeWins, AtMostOneType
  <1>2. SSpec => []TypeOK
    BY SessionIsMatchServer, TypeCorrect
  <1> QED BY <1>1, <1>2, BeliefsHoldAlways, SessionOneTypeWins, PTL
=============================================================================
