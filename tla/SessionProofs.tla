--------------------------- MODULE SessionProofs ----------------------------
(***************************************************************************)
(* Theorems of Session, for every number of slots, whatever the users of    *)
(* the clients do: the server with its clients is the server of             *)
(* MatchServer; it gives no name twice; and whatever a client has read, in  *)
(* however many pieces, its state and its streams are of their types.  What *)
(* a client believes of the match is the subject of BeliefProofs.          *)
(***************************************************************************)
EXTENDS Session, MatchServerProofs

(* A command that the server may be sent: the choice is one of the three. *)
WellSent(m) == m.cmd = "CHOICE" => m.choice \in Picks

(* A stream of such commands. *)
Stream(q) == \E T : (\A m \in T : WellSent(m)) /\ q \in Seq(T)

AutoJoinConfigs ==
    [enabled : BOOLEAN, choice : Picks \cup {NoChoice}, tile : Tiles \cup {NoTile},
     hello_sent : BOOLEAN, choice_sent : BOOLEAN, spawn_sent : BOOLEAN]

(* What makes the server of Session take no other CHOICE than MatchServer's. *)
StreamsOK ==
    /\ outbox = [i \in Slots |-> outbox[i]]
    /\ \A i \in Slots : Stream(outbox[i])
    /\ auto_join \in [Slots -> AutoJoinConfigs]
    /\ \A i \in Slots : auto_join[i].enabled => auto_join[i].choice \in Picks

-----------------------------------------------------------------------------
(* Streams of commands. *)

LEMMA StreamEmpty == Stream(<<>>)
  <1>1. <<>> \in Seq({}) /\ \A m \in {} : WellSent(m)
    OBVIOUS
  <1> QED BY <1>1 DEF Stream

LEMMA StreamOne == ASSUME NEW m, WellSent(m) PROVE Stream(<<m>>)
  <1>1. <<m>> \in Seq({m}) /\ \A k \in {m} : WellSent(k)
    OBVIOUS
  <1> QED BY <1>1 DEF Stream

LEMMA StreamConcat ==
  ASSUME NEW p, NEW q, Stream(p), Stream(q) PROVE Stream(p \o q)
  <1>1. PICK P : (\A m \in P : WellSent(m)) /\ p \in Seq(P)
    BY DEF Stream
  <1>2. PICK Q : (\A m \in Q : WellSent(m)) /\ q \in Seq(Q)
    BY DEF Stream
  <1> DEFINE T == P \cup Q
  <1>3. p \in Seq(T) /\ q \in Seq(T)
    BY <1>1, <1>2
  <1>4. p \o q \in Seq(T) /\ \A m \in T : WellSent(m)
    BY <1>1, <1>2, <1>3
  <1> QED BY <1>4 DEF Stream

LEMMA StreamAppend ==
  ASSUME NEW q, NEW m, Stream(q), WellSent(m) PROVE Stream(Append(q, m))
  <1>1. PICK T : (\A k \in T : WellSent(k)) /\ q \in Seq(T)
    BY DEF Stream
  <1>2. q \in Seq(T \cup {m})
    BY <1>1
  <1>3. Append(q, m) \in Seq(T \cup {m}) /\ \A k \in T \cup {m} : WellSent(k)
    BY <1>1, <1>2
  <1> QED BY <1>3 DEF Stream

LEMMA StreamParts ==
  ASSUME NEW q, Stream(q), q # <<>> PROVE WellSent(Head(q)) /\ Stream(Tail(q))
  <1>1. PICK T : (\A m \in T : WellSent(m)) /\ q \in Seq(T)
    BY DEF Stream
  <1>2. Head(q) \in T /\ Tail(q) \in Seq(T)
    BY <1>1
  <1> QED BY <1>1, <1>2 DEF Stream

(* Nothing or all of a stream, when a reset cuts it or does not. *)
LEMMA StreamCut ==
  ASSUME NEW q, Stream(q), NEW n \in {0, Len(q)} PROVE Stream(SubSeq(q, 1, n))
  <1>1. PICK T : (\A m \in T : WellSent(m)) /\ q \in Seq(T)
    BY DEF Stream
  <1>2. SubSeq(q, 1, n) \in Seq(T)
    BY <1>1
  <1> QED BY <1>1, <1>2 DEF Stream

(* What one iteration of a client's loop sends. *)
LEMMA IterationStream ==
  ASSUME NEW auto, NEW c, auto.enabled => auto.choice \in Picks
  PROVE  Stream(IterationSends(auto, c))
  <1> DEFINE p == IF AutoHello(auto, c) THEN <<[cmd |-> "HELLO", name |-> c.name_input]>> ELSE <<>>
             q == IF AutoChoice(auto, c) THEN <<[cmd |-> "CHOICE", choice |-> auto.choice]>> ELSE <<>>
             r == IF AutoSpawn(auto, c) THEN <<[cmd |-> "SPAWN", tile |-> auto.tile]>> ELSE <<>>
             s == IF HasToSend(auto, c) THEN <<GetStateCommand>> ELSE <<>>
  <1>1. Stream(p)
    <2>1. WellSent([cmd |-> "HELLO", name |-> c.name_input])
      BY DEF WellSent
    <2> QED BY <2>1, StreamOne, StreamEmpty
  <1>2. Stream(q)
    <2>1. AutoChoice(auto, c) => WellSent([cmd |-> "CHOICE", choice |-> auto.choice])
      BY DEF AutoChoice, WellSent
    <2> QED BY <2>1, StreamOne, StreamEmpty
  <1>3. Stream(r)
    <2>1. WellSent([cmd |-> "SPAWN", tile |-> auto.tile])
      BY DEF WellSent
    <2> QED BY <2>1, StreamOne, StreamEmpty
  <1>4. Stream(s)
    <2>1. WellSent(GetStateCommand)
      BY DEF WellSent, GetStateCommand
    <2> QED BY <2>1, StreamOne, StreamEmpty
  <1> HIDE DEF p, q, r, s
  <1>5. Stream(((p \o q) \o r) \o s)
    BY <1>1, <1>2, <1>3, <1>4, StreamConcat
  <1> QED BY <1>5 DEF IterationSends, p, q, r, s

-----------------------------------------------------------------------------
(* StreamsOK is inductive. *)

(* One stream changes. *)
LEMMA OneStream ==
  ASSUME StreamsOK, NEW i \in Slots, NEW q, Stream(q), outbox' = [outbox EXCEPT ![i] = q],
         UNCHANGED auto_join
  PROVE  StreamsOK'
  <1>1. outbox' = [j \in Slots |-> IF j = i THEN q ELSE outbox[j]]
    BY DEF StreamsOK
  <1>2. outbox' = [j \in Slots |-> outbox'[j]]
    BY <1>1
  <1>3. \A j \in Slots : Stream(outbox'[j])
    <2> SUFFICES ASSUME NEW j \in Slots PROVE Stream(outbox'[j])
      OBVIOUS
    <2>1. outbox'[j] = q \/ outbox'[j] = outbox[j]
      BY <1>1
    <2> QED BY <2>1 DEF StreamsOK
  <1> QED BY <1>2, <1>3 DEF StreamsOK

(* The streams and the configurations of all the slots but one stay. *)
LEMMA OneClient ==
  ASSUME StreamsOK, NEW i \in Slots, NEW q, Stream(q), outbox' = [outbox EXCEPT ![i] = q],
         NEW a \in AutoJoinConfigs, a.enabled => a.choice \in Picks,
         auto_join' = [auto_join EXCEPT ![i] = a]
  PROVE  StreamsOK'
  <1>1. outbox' = [j \in Slots |-> IF j = i THEN q ELSE outbox[j]]
    BY DEF StreamsOK
  <1>2. outbox' = [j \in Slots |-> outbox'[j]]
    BY <1>1
  <1>3. \A j \in Slots : Stream(outbox'[j])
    <2> SUFFICES ASSUME NEW j \in Slots PROVE Stream(outbox'[j])
      OBVIOUS
    <2>1. outbox'[j] = q \/ outbox'[j] = outbox[j]
      BY <1>1
    <2> QED BY <2>1 DEF StreamsOK
  <1>4. /\ auto_join' \in [Slots -> AutoJoinConfigs]
        /\ \A j \in Slots : auto_join'[j] = IF j = i THEN a ELSE auto_join[j]
    BY DEF StreamsOK
  <1>5. \A j \in Slots : auto_join'[j].enabled => auto_join'[j].choice \in Picks
    BY <1>4 DEF StreamsOK
  <1> QED BY <1>2, <1>3, <1>4, <1>5 DEF StreamsOK

LEMMA StreamsInit == SInit => StreamsOK
  <1> SUFFICES ASSUME SInit PROVE StreamsOK
    OBVIOUS
  <1>1. outbox = [i \in Slots |-> <<>>] /\ auto_join = [i \in Slots |-> NoAutoJoin]
    BY DEF SInit
  <1>2. NoAutoJoin \in AutoJoinConfigs /\ ~NoAutoJoin.enabled
    BY DEF NoAutoJoin, AutoJoin, AutoJoinConfigs
  <1>3. \A i \in Slots : Stream(outbox[i])
    BY <1>1, StreamEmpty
  <1>4. outbox = [i \in Slots |-> outbox[i]]
    BY <1>1
  <1> QED BY <1>1, <1>2, <1>3, <1>4 DEF StreamsOK

(* What a key sends, or the end of the process, keeps the streams. *)
LEMMA PressStreams ==
  ASSUME StreamsOK, NEW i \in Slots, NEW m, NEW after, WellSent(m), Press(i, m, after)
  PROVE  StreamsOK'
  <1>1. Stream(Append(outbox[i], m))
    BY StreamAppend DEF StreamsOK
  <1>2. outbox' = [outbox EXCEPT ![i] = Append(outbox[i], m)] /\ UNCHANGED auto_join
    BY DEF Press
  <1> QED BY <1>1, <1>2, OneStream

LEMMA KeyStreams ==
  ASSUME StreamsOK, NEW i \in Slots,
         PressHello(i) \/ PressChoice(i) \/ PressSpawn(i) \/ PressRematch(i)
  PROVE  StreamsOK'
  <1>1. CASE PressHello(i)
    <2>1. PICK n : \E after : Press(i, [cmd |-> "HELLO", name |-> n], after)
      BY <1>1 DEF PressHello
    <2>2. WellSent([cmd |-> "HELLO", name |-> n])
      BY DEF WellSent
    <2> QED BY <2>1, <2>2, PressStreams
  <1>2. CASE PressChoice(i)
    <2>1. PICK c \in User[i].picks :
             Press(i, [cmd |-> "CHOICE", choice |-> c], Asking(client[i]))
      BY <1>2 DEF PressChoice
    <2>2. WellSent([cmd |-> "CHOICE", choice |-> c])
      BY <2>1, SessionAssumption DEF WellSent
    <2> QED BY <2>1, <2>2, PressStreams
  <1>3. CASE PressSpawn(i)
    <2>1. PICK t : Press(i, [cmd |-> "SPAWN", tile |-> t], Asking(client[i]))
      BY <1>3 DEF PressSpawn
    <2>2. WellSent([cmd |-> "SPAWN", tile |-> t])
      BY DEF WellSent
    <2> QED BY <2>1, <2>2, PressStreams
  <1>4. CASE PressRematch(i)
    <2>1. WellSent([cmd |-> "REMATCH"])
      BY DEF WellSent
    <2> QED BY <1>4, <2>1, PressStreams DEF PressRematch
  <1> QED BY <1>1, <1>2, <1>3, <1>4

LEMMA StopStreams ==
  ASSUME StreamsOK, NEW i \in Slots, Stop(i)
  PROVE  StreamsOK'
  <1>1. PICK n \in {0, Len(outbox[i])} :
           outbox' = [outbox EXCEPT ![i] = Append(SubSeq(outbox[i], 1, n), [cmd |-> "QUIT"])]
    BY DEF Stop
  <1>2. WellSent([cmd |-> "QUIT"])
    BY DEF WellSent
  <1>3. Stream(outbox[i])
    BY DEF StreamsOK
  <1>4. Stream(SubSeq(outbox[i], 1, n))
    BY <1>3, StreamCut
  <1>5. Stream(Append(SubSeq(outbox[i], 1, n), [cmd |-> "QUIT"]))
    BY <1>2, <1>4, StreamAppend
  <1>6. NoAutoJoin \in AutoJoinConfigs /\ ~NoAutoJoin.enabled
    BY DEF NoAutoJoin, AutoJoin, AutoJoinConfigs
  <1>7. auto_join' = [auto_join EXCEPT ![i] = NoAutoJoin]
    BY DEF Stop
  <1> QED BY <1>1, <1>5, <1>6, <1>7, OneClient

LEMMA StartStreams ==
  ASSUME StreamsOK, NEW i \in Slots, Start(i)
  PROVE  StreamsOK'
  <1>1. Stream(<<GetStateCommand>>)
    <2>1. WellSent(GetStateCommand)
      BY DEF WellSent, GetStateCommand
    <2> QED BY <2>1, StreamOne
  <1>2. outbox' = [outbox EXCEPT ![i] = <<GetStateCommand>>]
    BY DEF Start
  <1>3. CASE UNCHANGED auto_join
    BY <1>1, <1>2, <1>3, OneStream
  <1>4. CASE \E c \in User[i].picks, t \in User[i].tiles :
                auto_join' = [auto_join EXCEPT ![i] = AutoJoin(TRUE, c, t)]
    <2>1. PICK c \in User[i].picks, t \in User[i].tiles :
             auto_join' = [auto_join EXCEPT ![i] = AutoJoin(TRUE, c, t)]
      BY <1>4
    <2>2. c \in Picks /\ t \in Tiles
      BY SessionAssumption DEF Tiles
    <2> DEFINE a == AutoJoin(TRUE, c, t)
    <2>3. a \in AutoJoinConfigs /\ a.choice \in Picks
      BY <2>2 DEF AutoJoin, AutoJoinConfigs
    <2> HIDE DEF a
    <2>4. auto_join' = [auto_join EXCEPT ![i] = a]
      BY <2>1 DEF a
    <2> QED BY <1>1, <1>2, <2>3, <2>4, OneClient
  <1> QED BY <1>3, <1>4 DEF Start

LEMMA IterateStreams ==
  ASSUME StreamsOK, NEW i \in Slots, Iterate(i)
  PROVE  StreamsOK'
  <1> DEFINE auto == auto_join[i]
  <1>1. PICK n \in 0 .. Len(inbox[i]) :
           /\ outbox' = [outbox EXCEPT ![i] = outbox[i] \o IterationSends(auto, Read(i, n))]
           /\ auto_join' = [auto_join EXCEPT ![i] = AutoAfterIteration(auto, Read(i, n))]
    BY DEF Iterate
  <1> DEFINE c == Read(i, n)
             a == AutoAfterIteration(auto, c)
  <1>2. auto \in AutoJoinConfigs /\ (auto.enabled => auto.choice \in Picks)
    BY DEF StreamsOK
  <1>3. a \in AutoJoinConfigs /\ a.enabled = auto.enabled /\ a.choice = auto.choice
    <2> HIDE DEF auto, c
    <2>1. /\ (auto.hello_sent \/ AutoHello(auto, c)) \in BOOLEAN
          /\ (auto.choice_sent \/ AutoChoice(auto, c)) \in BOOLEAN
          /\ (auto.spawn_sent \/ AutoSpawn(auto, c)) \in BOOLEAN
      OBVIOUS
    <2>2. a = [auto EXCEPT !.hello_sent = auto.hello_sent \/ AutoHello(auto, c),
                           !.choice_sent = auto.choice_sent \/ AutoChoice(auto, c),
                           !.spawn_sent = auto.spawn_sent \/ AutoSpawn(auto, c)]
      BY DEF AutoAfterIteration
    <2> HIDE DEF a
    <2> QED BY <1>2, <2>1, <2>2 DEF AutoJoinConfigs
  <1>4. Stream(outbox[i] \o IterationSends(auto, c))
    BY <1>2, IterationStream, StreamConcat DEF StreamsOK
  <1> HIDE DEF a
  <1>5. auto_join' = [auto_join EXCEPT ![i] = a]
    BY <1>1 DEF a
  <1> QED BY <1>1, <1>2, <1>3, <1>4, <1>5, OneClient

LEMMA ServeStreams ==
  ASSUME StreamsOK, NEW i \in Slots, Serve(i) \/ ServeQuit(i)
  PROVE  StreamsOK'
  <1>1. CASE Serve(i)
    <2>1. Stream(Tail(outbox[i]))
      BY <1>1, StreamParts DEF StreamsOK, Serve
    <2> QED BY <1>1, <2>1, OneStream DEF Serve
  <1>2. CASE ServeQuit(i)
    BY <1>2, StreamEmpty, OneStream DEF ServeQuit
  <1> QED BY <1>1, <1>2

LEMMA StreamsStep == StreamsOK /\ [SNext]_svars => StreamsOK'
  <1> SUFFICES ASSUME StreamsOK, [SNext]_svars PROVE StreamsOK'
    OBVIOUS
  <1>1. UNCHANGED <<outbox, auto_join>> => StreamsOK'
    BY DEF StreamsOK
  <1>2. CASE Handle \/ Tick
    BY <1>1, <1>2 DEF Handle, Tick, session, wires
  <1>3. ASSUME NEW i \in Slots,
               \/ Serve(i) \/ ServeQuit(i) \/ Start(i) \/ Iterate(i) \/ Stop(i)
               \/ PressHello(i) \/ PressChoice(i) \/ PressSpawn(i) \/ PressRematch(i)
        PROVE  StreamsOK'
    BY <1>3, ServeStreams, StartStreams, IterateStreams, StopStreams, KeyStreams
  <1>4. CASE UNCHANGED svars
    BY <1>1, <1>4 DEF svars, session, wires
  <1> QED BY <1>2, <1>3, <1>4 DEF SNext

LEMMA StreamsInvariant == SSpec => []StreamsOK
  <1> QED BY StreamsInit, StreamsStep, PTL DEF SSpec

-----------------------------------------------------------------------------
(* Every step of the session is a step of the server, or one it does not see. *)

LEMMA ServeIsCommand ==
  ASSUME StreamsOK, NEW i \in Slots, Serve(i)
  PROVE  Command(i) \/ UNCHANGED vars
  <1> DEFINE m == Head(outbox[i])
  <1>1. Dispatch(i, m) /\ WellSent(m)
    BY StreamParts DEF Serve, StreamsOK
  <1>2. ASSUME NEW error, Refuse(i, error) PROVE UNCHANGED vars
    BY <1>2 DEF Refuse
  <1>3. CASE m.cmd = "HELLO" /\ ServeHello(i, m.name)
    BY <1>2, <1>3 DEF ServeHello, Command
  <1>4. CASE m.cmd = "CHOICE" /\ ServeChoice(i, m.choice)
    BY <1>1, <1>2, <1>4 DEF ServeChoice, Command, WellSent
  <1>5. CASE m.cmd = "SPAWN" /\ ServeSpawn(i, m.tile)
    BY <1>2, <1>5 DEF ServeSpawn, Command
  <1>6. CASE m.cmd = "GET_STATE" /\ ServeGetState(i)
    BY <1>6 DEF ServeGetState, Command
  <1>7. CASE m.cmd = "REMATCH" /\ ServeRematch(i)
    BY <1>2, <1>7 DEF ServeRematch, Command
  <1> QED BY <1>1, <1>3, <1>4, <1>5, <1>6, <1>7 DEF Dispatch

LEMMA SessionStep == StreamsOK /\ [SNext]_svars => [Next]_vars
  <1> SUFFICES ASSUME StreamsOK, [SNext]_svars PROVE Next \/ UNCHANGED vars
    OBVIOUS
  <1>1. CASE Handle \/ Tick
    BY <1>1 DEF Handle, Tick, Next
  <1>2. ASSUME NEW i \in Slots,
               \/ Serve(i) \/ ServeQuit(i) \/ Start(i) \/ Iterate(i) \/ Stop(i)
               \/ PressHello(i) \/ PressChoice(i) \/ PressSpawn(i) \/ PressRematch(i)
        PROVE  Next \/ UNCHANGED vars
    <2>1. CASE Serve(i)
      BY <2>1, ServeIsCommand DEF Next
    <2>2. CASE ServeQuit(i) \/ Start(i)
      BY <2>2 DEF ServeQuit, Start, Next
    <2>3. CASE Iterate(i) \/ Stop(i)
      BY <2>3 DEF Iterate, Stop
    <2>4. CASE PressHello(i) \/ PressChoice(i) \/ PressSpawn(i) \/ PressRematch(i)
      BY <2>4 DEF PressHello, PressChoice, PressSpawn, PressRematch, Press
    <2> QED BY <1>2, <2>1, <2>2, <2>3, <2>4
  <1>3. CASE UNCHANGED svars
    BY <1>3 DEF svars
  <1> QED BY <1>1, <1>2, <1>3 DEF SNext

(* The server with its clients is a server of MatchServer: no command that the
   clients can send takes it anywhere else, and what is proved of every
   behaviour of MatchServer holds in the session. *)
THEOREM SessionIsMatchServer == SSpec => Spec
  <1>1. SInit => Init
    BY DEF SInit
  <1> QED BY <1>1, SessionStep, StreamsInvariant, PTL DEF SSpec, Spec

-----------------------------------------------------------------------------
(* Names. *)

NamesOK == name = [i \in Slots |-> name[i]] /\ NamesUnique

(* A call that runs connects and registers nobody. *)
LEMMA StepRegistersNobody ==
  ASSUME TypeOK, Step
  PROVE  connected' \subseteq connected /\ registered' \subseteq registered
  <1>1. ASSUME NEW said, NEW lost, Queue(said, lost)
        PROVE  connected' \subseteq connected /\ registered' \subseteq registered
    BY <1>1 DEF Queue
  <1>2. UNCHANGED players => UNCHANGED <<connected, registered>>
    BY DEF players
  <1>3. EndGame \/ StartActiveRound \/ SettleSetup \/ ReevaluateRound =>
           connected' \subseteq connected /\ registered' \subseteq registered
    BY <1>1, <1>2 DEF EndGame, StartActiveRound, SettleSetup, ReevaluateRound
  <1>4. CASE QueueBroadcast \/ BroadcastGameState \/ BroadcastPositions
    BY <1>1, <1>2, <1>4 DEF QueueBroadcast, BroadcastGameState, BroadcastPositions
  <1>5. CASE Reevaluate
    <2>1. ReevaluateLobby => UNCHANGED players
      BY DEF ReevaluateLobby
    <2>2. phase \in Phases
      BY DEF TypeOK
    <2> QED BY <1>2, <1>3, <1>5, <2>1, <2>2 DEF Reevaluate, Phases
  <1>6. CASE MaybeAdmit \/ AdmitTail
    BY <1>1, <1>2, <1>6 DEF MaybeAdmit, AdmitTail
  <1>7. CASE CloseLobby \/ CloseLobbyTail \/ Expire \/ ExpireTail
    BY <1>2, <1>3, <1>7 DEF CloseLobby, CloseLobbyTail, Expire, ExpireTail
  <1>8. CASE ExpireSlot \/ Chase
    BY <1>1, <1>2, <1>8 DEF ExpireSlot, DropLoudly, Chase
  <1> QED BY <1>4, <1>5, <1>6, <1>7, <1>8 DEF Step

(* Names stay, and are forgotten with the connection. *)
LEMMA NamesKept ==
  ASSUME TypeOK, NamesOK, connected' \subseteq connected, registered' \subseteq registered,
         UNCHANGED name \/ ForgetDropped
  PROVE  NamesOK'
  <1>1. Registered' \subseteq Registered
    BY DEF Registered
  <1>2. CASE UNCHANGED name
    BY <1>1, <1>2 DEF NamesOK, NamesUnique
  <1>3. CASE ForgetDropped
    <2>1. name' = [i \in Slots |-> IF i \in connected' THEN name[i] ELSE NoName]
      BY <1>3 DEF ForgetDropped
    <2>2. \A i \in Registered' : i \in connected' /\ i \in Registered /\ i \in Slots
      BY <1>1 DEF Registered, TypeOK
    <2>3. \A i \in Registered' : name'[i] = name[i]
      BY <2>1, <2>2
    <2> QED BY <2>1, <2>2, <2>3 DEF NamesOK, NamesUnique
  <1> QED BY <1>2, <1>3

(* HELLO gives a name that nobody registered has. *)
LEMMA HelloNames ==
  ASSUME TypeOK, NamesOK, NEW i \in Slots, NEW n, ServeHello(i, n)
  PROVE  NamesOK'
  <1>1. CASE UNCHANGED vars /\ UNCHANGED name
    BY <1>1, NamesKept DEF vars, players
  <1>2. CASE ~NameTaken(n) /\ Hello(i) /\ name' = [name EXCEPT ![i] = n]
    <2>1. name' = [j \in Slots |-> IF j = i THEN n ELSE name[j]]
      BY <1>2 DEF NamesOK
    <2>2. Registered' = Registered \cup {i} /\ Registered \subseteq Slots /\ i \notin Registered
      BY <1>2 DEF Hello, Registered, TypeOK
    <2>3. \A j \in Registered : name[j] # n
      BY <1>2 DEF NameTaken
    <2>4. NamesUnique'
      BY <2>1, <2>2, <2>3 DEF NamesOK, NamesUnique
    <2> QED BY <2>1, <2>4 DEF NamesOK
  <1> QED BY <1>1, <1>2 DEF ServeHello, Refuse

LEMMA ServeNames ==
  ASSUME TypeOK, NamesOK, NEW i \in Slots, Serve(i) \/ ServeQuit(i)
  PROVE  NamesOK'
  <1>1. UNCHANGED players => UNCHANGED <<connected, registered>>
    BY DEF players
  <1>2. ASSUME NEW error, Refuse(i, error) PROVE NamesOK'
    BY <1>1, <1>2, NamesKept DEF Refuse, vars
  <1>3. ASSUME NEW c, ServeChoice(i, c) PROVE NamesOK'
    BY <1>2, <1>3, NamesKept DEF ServeChoice, Choose
  <1>4. ASSUME NEW t, ServeSpawn(i, t) PROVE NamesOK'
    BY <1>2, <1>4, NamesKept DEF ServeSpawn, Spawn
  <1>5. ServeGetState(i) => NamesOK'
    BY NamesKept DEF ServeGetState, GetState, Queue
  <1>6. ServeRematch(i) => NamesOK'
    BY <1>2, NamesKept DEF ServeRematch, Rematch
  <1>7. ServeQuit(i) => NamesOK'
    BY NamesKept DEF ServeQuit, Leave, DropLoudly, Queue
  <1>8. Serve(i) => \/ \E n : ServeHello(i, n) \/ \E c : ServeChoice(i, c)
                    \/ \E t : ServeSpawn(i, t)
                    \/ ServeGetState(i) \/ ServeRematch(i)
    BY DEF Serve, Dispatch
  <1> QED BY <1>3, <1>4, <1>5, <1>6, <1>7, <1>8, HelloNames

LEMMA NamesStep == TypeOK /\ NamesOK /\ [SNext]_svars => NamesOK'
  <1> SUFFICES ASSUME TypeOK, NamesOK, [SNext]_svars PROVE NamesOK'
    OBVIOUS
  <1>1. UNCHANGED <<vars, name>> => NamesOK'
    BY NamesKept DEF vars, players
  <1>2. CASE Handle
    BY <1>2, StepRegistersNobody, NamesKept DEF Handle
  <1>3. CASE Tick
    <2>1. UNCHANGED <<connected, registered, name>>
      BY <1>3 DEF Tick, Timers, JoinWindowEnds, players, session, fields
    <2> QED BY <2>1, NamesKept
  <1>4. ASSUME NEW i \in Slots,
               \/ Serve(i) \/ ServeQuit(i) \/ Start(i) \/ Iterate(i) \/ Stop(i)
               \/ PressHello(i) \/ PressChoice(i) \/ PressSpawn(i) \/ PressRematch(i)
        PROVE  NamesOK'
    <2>1. CASE Serve(i) \/ ServeQuit(i)
      BY <2>1, ServeNames
    <2>2. CASE Start(i)
      <3>1. Registered' \subseteq Registered /\ UNCHANGED name
        BY <2>2 DEF Start, Accept, Registered, fields
      <3> QED BY <3>1 DEF NamesOK, NamesUnique
    <2>3. CASE Iterate(i) \/ Stop(i)
      BY <1>1, <2>3 DEF Iterate, Stop, fields
    <2>4. CASE PressHello(i) \/ PressChoice(i) \/ PressSpawn(i) \/ PressRematch(i)
      BY <1>1, <2>4 DEF PressHello, PressChoice, PressSpawn, PressRematch, Press, fields
    <2> QED BY <1>4, <2>1, <2>2, <2>3, <2>4
  <1>5. CASE UNCHANGED svars
    BY <1>1, <1>5 DEF svars, session, fields
  <1> QED BY <1>2, <1>3, <1>4, <1>5 DEF SNext

(* No two registered players share a name, however many clients ask for it, leave
   and come back into slots that are re-used: find_name looks at everybody who
   is registered, and a name goes with its connection. *)
THEOREM NamesUniqueAlways == SSpec => []NamesUnique
  <1>1. SInit => NamesOK
    <2> SUFFICES ASSUME SInit PROVE NamesOK
      OBVIOUS
    <2>1. name = [i \in Slots |-> NoName] /\ connected = {}
      BY DEF SInit, Init
    <2>2. name = [i \in Slots |-> name[i]] /\ Registered = {}
      BY <2>1 DEF Registered
    <2> QED BY <2>2 DEF NamesOK, NamesUnique
  <1>2. SSpec => []TypeOK
    BY SessionIsMatchServer, TypeCorrect
  <1>3. NamesOK => NamesUnique
    BY DEF NamesOK
  <1> QED BY <1>1, <1>2, <1>3, NamesStep, PTL DEF SSpec

(* A match of any number of clients, which hear of it late, ends with winners
   of one choice: OneTypeWinsAlways, in the session. *)
THEOREM SessionOneTypeWins == SSpec => []OneTypeWins
  BY SessionIsMatchServer, OneTypeWinsAlways

-----------------------------------------------------------------------------
(* What a client makes of many lines. *)

(* f is the reading of the first m of these lines. *)
Reads(f, c, lines, m) ==
    f = [n \in 0 .. m |->
           IF n = 0 THEN c ELSE HandleServerLine(f[n - 1], lines[n], MaxPlayers)]

Believes(c, lines) == AfterLines(c, lines, MaxPlayers)

(* One line more can always be read. *)
LEMMA ReadingExists ==
  ASSUME NEW c, NEW T, NEW lines \in Seq(T)
  PROVE  \A m \in Nat : \E f : Reads(f, c, lines, m)
  <1> DEFINE Bad == {m \in Nat : ~\E f : Reads(f, c, lines, m)}
  <1>1. SUFFICES ASSUME Bad # {} PROVE FALSE
    OBVIOUS
  <1>2. PICK m \in Bad : \A x \in Bad : m <= x
    BY <1>1, LeastNatural
  <1>3. m # 0
    <2>1. Reads([n \in 0 .. 0 |-> c], c, lines, 0)
      BY DEF Reads
    <2> QED BY <2>1
  <1>4. m \in Nat /\ m - 1 \in Nat /\ m - 1 \notin Bad
    BY <1>2, <1>3
  <1>5. PICK f : Reads(f, c, lines, m - 1)
    BY <1>4
  <1> DEFINE g == [n \in 0 .. m |-> IF n = m THEN HandleServerLine(f[m - 1], lines[m], MaxPlayers)
                                   ELSE f[n]]
  <1>6. \A n \in 0 .. m :
           g[n] = IF n = 0 THEN c ELSE HandleServerLine(g[n - 1], lines[n], MaxPlayers)
    <2> SUFFICES ASSUME NEW n \in 0 .. m
                 PROVE  g[n] = IF n = 0 THEN c
                               ELSE HandleServerLine(g[n - 1], lines[n], MaxPlayers)
      OBVIOUS
    <2>1. CASE n = m
      <3>1. m - 1 \in 0 .. m /\ m - 1 # m /\ g[m - 1] = f[m - 1]
        BY <1>4
      <3> QED BY <1>3, <2>1, <3>1
    <2>2. CASE n # m /\ n = 0
      <3>1. g[n] = f[n] /\ n \in 0 .. m - 1
        BY <1>4, <2>2
      <3> QED BY <1>5, <2>2, <3>1 DEF Reads
    <2>3. CASE n # m /\ n # 0
      <3>1. g[n] = f[n] /\ n \in 0 .. m - 1 /\ n - 1 \in 0 .. m /\ n - 1 # m
        BY <1>4, <2>3
      <3>2. g[n - 1] = f[n - 1]
        BY <3>1
      <3>3. f[n] = HandleServerLine(f[n - 1], lines[n], MaxPlayers)
        BY <1>5, <2>3, <3>1 DEF Reads
      <3> QED BY <2>3, <3>1, <3>2, <3>3
    <2> QED BY <2>1, <2>2, <2>3
  <1>7. Reads(g, c, lines, m)
    <2>1. g = [n \in 0 .. m |-> g[n]]
      OBVIOUS
    <2> HIDE DEF g
    <2> QED BY <1>6, <2>1 DEF Reads
  <1> QED BY <1>2, <1>7

LEMMA BelievesRead ==
  ASSUME NEW c, NEW T, NEW lines \in Seq(T)
  PROVE  \E f : Reads(f, c, lines, Len(lines)) /\ Believes(c, lines) = f[Len(lines)]
  <1>1. \E f : Reads(f, c, lines, Len(lines))
    <2>1. Len(lines) \in Nat
      OBVIOUS
    <2> QED BY <2>1, ReadingExists
  <1> DEFINE h == CHOOSE f : Reads(f, c, lines, Len(lines))
  <1>2. Reads(h, c, lines, Len(lines))
    BY <1>1
  <1>3. h = CHOOSE f : f = [n \in 0 .. Len(lines) |->
                              IF n = 0 THEN c
                              ELSE HandleServerLine(f[n - 1], lines[n], MaxPlayers)]
    BY DEF Reads
  <1>4. Believes(c, lines) = h[Len(lines)]
    BY <1>3 DEF Believes, AfterLines
  <1> QED BY <1>2, <1>4

LEMMA BelievesNothing == ASSUME NEW c PROVE Believes(c, <<>>) = c
  <1>1. <<>> \in Seq({}) /\ Len(<<>>) = 0
    OBVIOUS
  <1>2. PICK f : Reads(f, c, <<>>, 0) /\ Believes(c, <<>>) = f[0]
    BY <1>1, BelievesRead
  <1>3. f[0] = c
    BY <1>2 DEF Reads
  <1> QED BY <1>2, <1>3

(* Reading some lines and then others is reading both. *)
LEMMA BelievesConcat ==
  ASSUME NEW c, NEW T, NEW s \in Seq(T), NEW t \in Seq(T)
  PROVE  Believes(c, s \o t) = Believes(Believes(c, s), t)
  <1>1. PICK f : Reads(f, c, s, Len(s)) /\ Believes(c, s) = f[Len(s)]
    BY BelievesRead
  <1>2. PICK g : /\ Reads(g, Believes(c, s), t, Len(t))
                 /\ Believes(Believes(c, s), t) = g[Len(t)]
    BY BelievesRead
  <1>3. s \o t \in Seq(T) /\ Len(s \o t) = Len(s) + Len(t) /\ Len(s) \in Nat /\ Len(t) \in Nat
    OBVIOUS
  <1>4. PICK h : Reads(h, c, s \o t, Len(s) + Len(t)) /\ Believes(c, s \o t) = h[Len(s) + Len(t)]
    BY <1>3, BelievesRead
  <1>5. \A n \in 0 .. Len(s) + Len(t) :
           h[n] = IF n = 0 THEN c ELSE HandleServerLine(h[n - 1], (s \o t)[n], MaxPlayers)
    BY <1>4 DEF Reads
  <1>6. \A n \in 0 .. Len(s) : h[n] = f[n]
    <2> DEFINE Bad == {n \in 0 .. Len(s) : h[n] # f[n]}
    <2>1. SUFFICES ASSUME Bad # {} PROVE FALSE
      OBVIOUS
    <2>2. PICK n \in Bad : \A x \in Bad : n <= x
      <3>1. Bad \in SUBSET Nat
        OBVIOUS
      <3> HIDE DEF Bad
      <3> QED BY <2>1, <3>1, LeastNatural
    <2>3. f[n] = IF n = 0 THEN c ELSE HandleServerLine(f[n - 1], s[n], MaxPlayers)
      BY <1>1, <2>2 DEF Reads
    <2>4. n # 0
      BY <1>3, <1>5, <2>2, <2>3
    <2>5. n - 1 \in 0 .. Len(s) /\ n - 1 \notin Bad /\ (s \o t)[n] = s[n]
      BY <2>2, <2>4
    <2>6. h[n - 1] = f[n - 1]
      BY <2>5
    <2>7. h[n] = HandleServerLine(h[n - 1], (s \o t)[n], MaxPlayers)
      BY <1>3, <1>5, <2>2, <2>4
    <2> QED BY <2>2, <2>3, <2>4, <2>5, <2>6, <2>7
  <1>7. \A n \in 0 .. Len(t) : h[Len(s) + n] = g[n]
    <2> DEFINE Bad == {n \in 0 .. Len(t) : h[Len(s) + n] # g[n]}
    <2>1. SUFFICES ASSUME Bad # {} PROVE FALSE
      OBVIOUS
    <2>2. PICK n \in Bad : \A x \in Bad : n <= x
      <3>1. Bad \in SUBSET Nat
        OBVIOUS
      <3> HIDE DEF Bad
      <3> QED BY <2>1, <3>1, LeastNatural
    <2>3. g[n] = IF n = 0 THEN Believes(c, s)
                 ELSE HandleServerLine(g[n - 1], t[n], MaxPlayers)
      BY <1>2, <2>2 DEF Reads
    <2>4. n # 0
      <3>1. h[Len(s)] = f[Len(s)]
        BY <1>3, <1>6
      <3> QED BY <1>1, <1>3, <2>2, <2>3, <3>1
    <2>5. n - 1 \in 0 .. Len(t) /\ n - 1 \notin Bad /\ (s \o t)[Len(s) + n] = t[n]
      BY <2>2, <2>4
    <2>6. h[Len(s) + (n - 1)] = g[n - 1]
      BY <2>5
    <2>7. h[Len(s) + n] = HandleServerLine(h[(Len(s) + n) - 1], (s \o t)[Len(s) + n], MaxPlayers)
      <3>1. Len(s) + n \in 0 .. Len(s) + Len(t) /\ Len(s) + n # 0
        BY <1>3, <2>2, <2>4
      <3> HIDE DEF Bad
      <3> QED BY <1>5, <3>1
    <2>8. (Len(s) + n) - 1 = Len(s) + (n - 1)
      BY <1>3, <2>2
    <2> QED BY <2>2, <2>3, <2>4, <2>5, <2>6, <2>7, <2>8
  <1>8. h[Len(s) + Len(t)] = g[Len(t)]
    BY <1>3, <1>7
  <1> QED BY <1>2, <1>4, <1>8

LEMMA BelievesOne ==
  ASSUME NEW c, NEW m PROVE Believes(c, <<m>>) = HandleServerLine(c, m, MaxPlayers)
  <1>1. <<m>> \in Seq({m}) /\ Len(<<m>>) = 1
    OBVIOUS
  <1>2. PICK f : Reads(f, c, <<m>>, 1) /\ Believes(c, <<m>>) = f[1]
    BY <1>1, BelievesRead
  <1>3. f[0] = c /\ f[1] = HandleServerLine(f[1 - 1], <<m>>[1], MaxPlayers)
    BY <1>2 DEF Reads
  <1> QED BY <1>2, <1>3

(* What every line keeps between two clients, any lines keep. *)
LEMMA BelievesRelated ==
  ASSUME NEW T, NEW lines \in Seq(T), NEW R,
         NEW c, NEW d, <<c, d>> \in R,
         \A x, y : \A m \in T :
            <<x, y>> \in R => <<HandleServerLine(x, m, MaxPlayers),
                               HandleServerLine(y, m, MaxPlayers)>> \in R
  PROVE  <<Believes(c, lines), Believes(d, lines)>> \in R
  <1>1. PICK f : Reads(f, c, lines, Len(lines)) /\ Believes(c, lines) = f[Len(lines)]
    BY BelievesRead
  <1>2. PICK g : Reads(g, d, lines, Len(lines)) /\ Believes(d, lines) = g[Len(lines)]
    BY BelievesRead
  <1> DEFINE Bad == {n \in 0 .. Len(lines) : <<f[n], g[n]>> \notin R}
  <1>3. Bad = {}
    <2>1. SUFFICES ASSUME Bad # {} PROVE FALSE
      OBVIOUS
    <2>2. PICK n \in Bad : \A x \in Bad : n <= x
      <3>1. Bad \in SUBSET Nat
        OBVIOUS
      <3> HIDE DEF Bad
      <3> QED BY <2>1, <3>1, LeastNatural
    <2>3. /\ f[n] = IF n = 0 THEN c ELSE HandleServerLine(f[n - 1], lines[n], MaxPlayers)
          /\ g[n] = IF n = 0 THEN d ELSE HandleServerLine(g[n - 1], lines[n], MaxPlayers)
      BY <1>1, <1>2, <2>2 DEF Reads
    <2>4. n # 0
      BY <2>2, <2>3
    <2>5. n - 1 \in 0 .. Len(lines) /\ n - 1 \notin Bad /\ lines[n] \in T
      BY <2>2, <2>4
    <2>6. <<f[n - 1], g[n - 1]>> \in R
      BY <2>5
    <2>7. <<HandleServerLine(f[n - 1], lines[n], MaxPlayers),
            HandleServerLine(g[n - 1], lines[n], MaxPlayers)>> \in R
      BY <2>5, <2>6
    <2> QED BY <2>2, <2>3, <2>4, <2>7
  <1>4. Len(lines) \in 0 .. Len(lines)
    OBVIOUS
  <1> QED BY <1>1, <1>2, <1>3, <1>4

(* What every line keeps of a client, any lines keep. *)
LEMMA BelievesWithin ==
  ASSUME NEW T, NEW lines \in Seq(T), NEW S, NEW c \in S,
         \A x \in S : \A m \in T : HandleServerLine(x, m, MaxPlayers) \in S
  PROVE  Believes(c, lines) \in S
  <1> DEFINE R == S \X S
  <1>1. \A x, y : \A m \in T :
            <<x, y>> \in R => <<HandleServerLine(x, m, MaxPlayers),
                               HandleServerLine(y, m, MaxPlayers)>> \in R
    OBVIOUS
  <1>2. <<c, c>> \in R
    OBVIOUS
  <1> HIDE DEF R
  <1>3. <<Believes(c, lines), Believes(c, lines)>> \in R
    BY <1>1, <1>2, BelievesRelated
  <1> QED BY <1>3 DEF R

-----------------------------------------------------------------------------
(* The server while no output buffer fills: nothing is lost, and the calls that
   are on the stack together are few. *)

ExpireCall == Call("expire_unready_setup_players")
ChaseCall == Call("chase")
TailCall == Call("close_lobby_if_needed.tail")
Reevaluation == Call("reevaluate_state")
SnapshotCall == Call("broadcast_game_state")
Admission(i) == CallOn("maybe_admit_player", i)
AdmissionTail(i) == CallOn("maybe_admit_player.tail", i)
Positions(k) == CallOn("broadcast_positions", k)

TimerStacks ==
    {<<Call("close_lobby_if_needed"), ExpireCall, ChaseCall>>,
     <<ExpireCall, ChaseCall>>, <<ChaseCall>>}

(* Who has come or gone is announced, and everybody gets a snapshot. *)
NewsStacks ==
    {<<Broadcast("JOINED"), SnapshotCall>>, <<SnapshotCall>>,
     <<Broadcast("LEFT"), SnapshotCall, Reevaluation>>, <<SnapshotCall, Reevaluation>>}

ClosingStacks ==
    {<<Broadcast("LOBBY_CLOSED"), Broadcast("SETUP_OPEN"), TailCall, ExpireCall, ChaseCall>>,
     <<Broadcast("SETUP_OPEN"), TailCall, ExpireCall, ChaseCall>>,
     <<TailCall, ExpireCall, ChaseCall>>}

(* What may follow the positions: of a start, of a tick, of a decisive tick. *)
Afterwards == {<<ExpireCall, ChaseCall>>, <<>>, <<Reevaluation>>}

Settled ==
    /\ phase # "SETUP"
    /\ \/ todo \in {<<>>, <<Reevaluation>>} \cup TimerStacks \cup NewsStacks
       \/ \E i \in registered : todo = <<Admission(i)>>

Admitting ==
    /\ phase = "LOBBY_OPEN"
    /\ \E i \in registered \ admitted :
          todo \in {<<Broadcast("LOBBY_OPEN"), AdmissionTail(i)>>, <<AdmissionTail(i)>>}

Shutting == phase = "SETUP" /\ todo \in ClosingStacks

(* The players below the slot have been placed. *)
Placing ==
    /\ phase = "ROUND_ACTIVE"
    /\ \/ todo = <<Broadcast("ROUND_START"), Positions(0)>> \o <<ExpireCall, ChaseCall>>
       \/ \E k \in 0 .. MaxPlayers, rest \in Afterwards :
             \/ todo = <<Positions(k)>> \o rest
             \/ k \in Admitted /\ todo = <<Broadcast("PLAYER"), Positions(k + 1)>> \o rest

Calm ==
    /\ lagging = {} /\ admitted \subseteq registered
    /\ Settled \/ Admitting \/ Shutting \/ Placing

-----------------------------------------------------------------------------
(* What a call in progress does then. *)

SamePeople == UNCHANGED <<connected, registered, admitted, alive, waiting, phase>>

(* When a line is broadcast. *)
Due(line) ==
    \/ line \in {"JOINED", "LEFT"} /\ todo \in NewsStacks
    \/ line = "LOBBY_OPEN" /\ phase = "LOBBY_OPEN"
    \/ line \in {"LOBBY_CLOSED", "SETUP_OPEN"} /\ phase = "SETUP"
    \/ /\ line = "ROUND_START"
       /\ \E rest \in Afterwards : todo' = <<Positions(0)>> \o rest
    \/ /\ line = "PLAYER"
       /\ \E k \in Admitted, rest \in Afterwards :
             /\ todo = <<Broadcast("PLAYER"), Positions(k + 1)>> \o rest
             /\ todo' = <<Positions(k + 1)>> \o rest

Announces(line) ==
    /\ todo # <<>> /\ Head(todo) = Broadcast(line) /\ todo' = Tail(todo)
    /\ SamePeople /\ Due(line)

Snapshots ==
    /\ todo # <<>> /\ Head(todo) = SnapshotCall /\ todo' = Tail(todo)
    /\ SamePeople

(* An admission is not complete, refused, or on its way. *)
Considers(i) ==
    /\ i \in registered /\ todo = <<Admission(i)>>
    /\ SamePeople
    /\ \/ todo' = <<>>
       \/ /\ phase = "LOBBY_OPEN" /\ i \notin admitted /\ ~Refuses
          /\ todo' \in {<<Broadcast("LOBBY_OPEN"), AdmissionTail(i)>>, <<AdmissionTail(i)>>}

Admits(i) ==
    /\ i \in registered \ admitted /\ todo = <<AdmissionTail(i)>>
    /\ phase = "LOBBY_OPEN"
    /\ admitted' = admitted \cup {i} /\ waiting' = waiting \cup {i}
    /\ todo' = <<Broadcast("JOINED"), SnapshotCall>>
    /\ UNCHANGED <<connected, registered, alive, phase>>

Shuts ==
    /\ todo = <<Call("close_lobby_if_needed"), ExpireCall, ChaseCall>>
    /\ phase = "LOBBY_OPEN" /\ phase' = "SETUP"
    /\ todo' = <<Broadcast("LOBBY_CLOSED"), Broadcast("SETUP_OPEN"), TailCall,
                 ExpireCall, ChaseCall>>
    /\ UNCHANGED <<connected, registered, admitted, alive, waiting>>

Ends ==
    /\ todo # <<>> /\ Head(todo) \in {TailCall, Reevaluation} /\ todo' = Tail(todo)
    /\ phase \in {"SETUP", "ROUND_ACTIVE"} /\ phase' = "GAME_OVER"
    /\ UNCHANGED <<connected, registered, admitted, alive, waiting>>

Begins ==
    /\ todo = <<TailCall, ExpireCall, ChaseCall>>
    /\ phase = "SETUP" /\ phase' = "ROUND_ACTIVE"
    /\ todo' = <<Broadcast("ROUND_START"), Positions(0)>> \o <<ExpireCall, ChaseCall>>
    /\ alive' = alive \cup (Admitted \cap waiting) /\ waiting' = waiting \ Admitted
    /\ UNCHANGED <<connected, registered, admitted>>

Catches ==
    /\ todo = <<ChaseCall>>
    /\ phase = "ROUND_ACTIVE"
    /\ \E rest \in Afterwards : todo' = <<Positions(0)>> \o rest
    /\ alive' \subseteq alive
    /\ UNCHANGED <<connected, registered, admitted, waiting, phase>>

(* The next player is placed, or there is none. *)
Places ==
    \E k \in 0 .. MaxPlayers, rest \in Afterwards :
        /\ todo = <<Positions(k)>> \o rest
        /\ phase = "ROUND_ACTIVE" /\ SamePeople
        /\ \/ todo' = rest /\ \A j \in Admitted : j < k
           \/ \E i \in Admitted :
                 /\ k <= i /\ \A j \in Admitted : k <= j => i <= j
                 /\ todo' = <<Broadcast("PLAYER"), Positions(i + 1)>> \o rest

Passes ==
    /\ todo # <<>> /\ todo' = Tail(todo)
    /\ Head(todo) \in {Reevaluation, Call("close_lobby_if_needed"), ExpireCall, ChaseCall}
    /\ SamePeople

CalmMove ==
    \/ \E line : Announces(line)
    \/ Snapshots \/ Shuts \/ Ends \/ Begins \/ Catches \/ Places \/ Passes
    \/ \E i \in Slots : Considers(i) \/ Admits(i)

LEMMA Tails ==
  ASSUME NEW a, NEW b, NEW c, NEW d, NEW e
  PROVE  /\ Head(<<a>>) = a /\ Tail(<<a>>) = <<>>
         /\ Head(<<a, b>>) = a /\ Tail(<<a, b>>) = <<b>>
         /\ Head(<<a, b, c>>) = a /\ Tail(<<a, b, c>>) = <<b, c>>
         /\ Head(<<a, b, c, d>>) = a /\ Tail(<<a, b, c, d>>) = <<b, c, d>>
         /\ Head(<<a, b, c, d, e>>) = a /\ Tail(<<a, b, c, d, e>>) = <<b, c, d, e>>
         /\ <<a>> # <<>> /\ <<a, b>> # <<>> /\ <<a, b, c>> # <<>>
         /\ <<a, b, c, d>> # <<>> /\ <<a, b, c, d, e>> # <<>>
  OBVIOUS

(* The top of a stack, and the rest of it. *)
LEMMA OneOnTop ==
  ASSUME NEW T, NEW a \in T, NEW rest \in Seq(T)
  PROVE  <<a>> \o rest # <<>> /\ Head(<<a>> \o rest) = a /\ Tail(<<a>> \o rest) = rest
  <1> DEFINE q == <<a>> \o rest
  <1>1. <<a>> \in Seq(T) /\ Len(<<a>>) = 1 /\ <<a>>[1] = a
    OBVIOUS
  <1>2. /\ q \in Seq(T) /\ Len(q) = 1 + Len(rest)
        /\ \A k \in 1 .. 1 + Len(rest) : q[k] = IF k <= 1 THEN <<a>>[k] ELSE rest[k - 1]
    BY <1>1, ConcatProperties
  <1>3. Len(rest) \in Nat
    BY LenProperties
  <1> HIDE DEF q
  <1>4. q # <<>> /\ q[1] = a
    BY <1>1, <1>2, <1>3
  <1>5. Tail(q) \in Seq(T) /\ Len(Tail(q)) = Len(rest)
        /\ \A k \in 1 .. Len(rest) : Tail(q)[k] = q[k + 1]
    BY <1>2, <1>3, <1>4, HeadTailProperties
  <1>6. \A k \in 1 .. Len(Tail(q)) : Tail(q)[k] = rest[k]
    <2> SUFFICES ASSUME NEW k \in 1 .. Len(rest) PROVE Tail(q)[k] = rest[k]
      BY <1>5
    <2>1. k + 1 \in 1 .. 1 + Len(rest) /\ ~(k + 1 <= 1) /\ (k + 1) - 1 = k
      BY <1>3
    <2> QED BY <1>2, <1>5, <2>1
  <1>7. Tail(q) = rest
    BY <1>5, <1>6, SeqEqual
  <1>8. Head(q) = a
    BY <1>2, <1>4
  <1> QED BY <1>4, <1>7, <1>8 DEF q

LEMMA TwoOnTop ==
  ASSUME NEW T, NEW a \in T, NEW b \in T, NEW rest \in Seq(T)
  PROVE  /\ <<a, b>> \o rest # <<>> /\ Head(<<a, b>> \o rest) = a
         /\ Tail(<<a, b>> \o rest) = <<b>> \o rest
  <1>1. <<a>> \in Seq(T) /\ <<b>> \in Seq(T) /\ <<b>> \o rest \in Seq(T)
    BY ConcatProperties
  <1>2. <<a>> \o <<b>> = <<a, b>>
    <2>1. <<a, b>> \in Seq(T) /\ Len(<<a, b>>) = 2
      OBVIOUS
    <2>2. /\ <<a>> \o <<b>> \in Seq(T) /\ Len(<<a>> \o <<b>>) = 2
          /\ (<<a>> \o <<b>>)[1] = a /\ (<<a>> \o <<b>>)[2] = b
      BY <1>1
    <2>3. \A k \in 1 .. 2 : (<<a>> \o <<b>>)[k] = <<a, b>>[k]
      BY <2>2
    <2> QED BY <2>1, <2>2, <2>3, SeqEqual
  <1>3. (<<a>> \o <<b>>) \o rest = <<a>> \o (<<b>> \o rest)
    <2> HIDE <1>2
    <2> QED BY <1>1, ConcatAssociative
  <1>4. <<a, b>> \o rest = <<a>> \o (<<b>> \o rest)
    BY <1>2, <1>3
  <1> QED BY <1>1, <1>4, OneOnTop

(* Only the running call steps. *)
LEMMA OnlyTheTop ==
  ASSUME Step
  PROVE  /\ todo # <<>>
         /\ Head(todo).fn = "queue_broadcast" => QueueBroadcast
         /\ Head(todo).fn = "broadcast_game_state" => BroadcastGameState
         /\ Head(todo).fn = "broadcast_positions" => BroadcastPositions
         /\ Head(todo).fn = "reevaluate_state" => Reevaluate
         /\ Head(todo).fn = "maybe_admit_player" => MaybeAdmit
         /\ Head(todo).fn = "maybe_admit_player.tail" => AdmitTail
         /\ Head(todo).fn = "close_lobby_if_needed" => CloseLobby
         /\ Head(todo).fn = "close_lobby_if_needed.tail" => CloseLobbyTail
         /\ Head(todo).fn = "expire_unready_setup_players" => Expire
         /\ Head(todo).fn = "chase" => Chase
  BY DEF Step, Running, QueueBroadcast, BroadcastGameState, BroadcastPositions, Reevaluate,
         MaybeAdmit, AdmitTail, CloseLobby, CloseLobbyTail, Expire, ExpireSlot, ExpireTail, Chase

LEMMA TailTypes ==
  ASSUME TypeOK, todo # <<>>
  PROVE  Tail(todo) \in Seq(Calls) /\ <<>> \o Tail(todo) = Tail(todo)
  <1>1. todo \in Seq(Calls)
    BY DEF TypeOK
  <1>2. Tail(todo) \in Seq(Calls)
    BY <1>1, HeadTailProperties
  <1> QED BY <1>2, ConcatEmptySeq

LEMMA NobodyLost ==
  ASSUME lagging = {}, NEW said, NEW lost \in SUBSET (Slots \cap lagging), Queue(said, lost)
  PROVE  /\ lost = {} /\ lagging' = {}
         /\ UNCHANGED <<connected, registered, admitted, alive, waiting>>
  <1>1. lost = {}
    OBVIOUS
  <1> QED BY <1>1 DEF Queue

LEMMA BroadcastsCalmly ==
  ASSUME TypeOK, lagging = {}, QueueBroadcast
  PROVE  SamePeople /\ lagging' = {} /\ todo' = Tail(todo)
  <1>1. todo # <<>>
    BY DEF QueueBroadcast, Running
  <1>2. PICK lost \in SUBSET (connected \cap lagging) :
           /\ Queue([i \in connected |-> Heard(i, Head(todo).line)], lost)
           /\ Return(After(lost))
    BY DEF QueueBroadcast
  <1>3. lost \in SUBSET (Slots \cap lagging) /\ lost = {}
    BY <1>2
  <1>4. lagging' = {} /\ UNCHANGED <<connected, registered, admitted, alive, waiting>>
    BY <1>2, <1>3, NobodyLost
  <1>5. todo' = Tail(todo)
    BY <1>1, <1>2, <1>3, TailTypes DEF Return, After
  <1> QED BY <1>4, <1>5 DEF QueueBroadcast, match, SamePeople

LEMMA SnapshotsCalmly ==
  ASSUME TypeOK, lagging = {}, BroadcastGameState
  PROVE  SamePeople /\ lagging' = {} /\ todo' = Tail(todo)
  <1>1. todo # <<>>
    BY DEF BroadcastGameState, Running
  <1>2. PICK lost \in SUBSET (Registered \cap lagging) :
           /\ Queue([i \in Registered |-> StateLine(i)], lost)
           /\ Return(After(lost))
    BY DEF BroadcastGameState
  <1>3. lost \in SUBSET (Slots \cap lagging) /\ lost = {}
    BY <1>2
  <1>4. lagging' = {} /\ UNCHANGED <<connected, registered, admitted, alive, waiting>>
    BY <1>2, <1>3, NobodyLost
  <1>5. todo' = Tail(todo)
    BY <1>1, <1>2, <1>3, TailTypes DEF Return, After
  <1> QED BY <1>4, <1>5 DEF BroadcastGameState, match, SamePeople

LEMMA EndsCalmly ==
  ASSUME TypeOK, lagging = {}, todo # <<>>, EndGame
  PROVE  /\ phase' = "GAME_OVER" /\ lagging' = {} /\ todo' = Tail(todo)
         /\ UNCHANGED <<connected, registered, admitted, alive, waiting>>
  <1>1. PICK lost \in SUBSET (Registered \cap lagging) : 
           Queue([i \in Registered |-> Verdict(i)], lost)
    BY DEF EndGame
  <1>2. lost \in SUBSET (Slots \cap lagging)
    BY <1>1
  <1>3. lagging' = {} /\ UNCHANGED <<connected, registered, admitted, alive, waiting>>
    BY <1>1, <1>2, NobodyLost
  <1>4. todo' = Tail(todo)
    BY TailTypes DEF EndGame, Return
  <1> QED BY <1>3, <1>4 DEF EndGame

LEMMA ReevaluatesCalmly ==
  ASSUME TypeOK, lagging = {}, phase # "SETUP", Reevaluate
  PROVE  /\ lagging' = {} /\ todo' = Tail(todo)
         /\ UNCHANGED <<connected, registered, admitted, alive, waiting>>
         /\ \/ phase' = phase
            \/ phase = "ROUND_ACTIVE" /\ phase' = "GAME_OVER"
  <1>1. todo # <<>> /\ Tail(todo) = <<>> \o Tail(todo)
    BY TailTypes DEF Reevaluate, Running
  <1>2. CASE phase = "LOBBY_OPEN" /\ ReevaluateLobby
    BY <1>1, <1>2 DEF ReevaluateLobby, Return, players
  <1>3. CASE phase = "ROUND_ACTIVE" /\ ReevaluateRound
    BY <1>1, <1>3, EndsCalmly DEF ReevaluateRound, Return, players, match
  <1>4. CASE phase = "GAME_OVER" /\ Return(<<>>) /\ UNCHANGED <<players, match>>
    BY <1>1, <1>4 DEF Return, players, match
  <1>5. phase \in Phases
    BY DEF TypeOK
  <1> QED BY <1>2, <1>3, <1>4, <1>5 DEF Reevaluate, Phases

LEMMA ConsidersCalmly ==
  ASSUME TypeOK, lagging = {}, NEW i \in registered, todo = <<Admission(i)>>, MaybeAdmit
  PROVE  Considers(i) /\ lagging' = {}
  <1>1. Head(todo) = Admission(i) /\ Tail(todo) = <<>> /\ Head(todo).slot = i /\ todo # <<>>
    BY Tails DEF Admission, CallOn
  <1>2. CASE ~Complete(i)
    <2>1. UNCHANGED <<players, match>> /\ todo' = <<>>
      BY <1>1, <1>2, TailTypes DEF MaybeAdmit, Return
    <2> QED BY <2>1 DEF Considers, SamePeople, players, match
  <1>3. CASE Complete(i) /\ Refuses
    <2>1. PICK lost \in SUBSET ({i} \cap lagging) : Queue(Silence, lost) /\ Return(After(lost))
      BY <1>1, <1>3 DEF MaybeAdmit
    <2>2. lost \in SUBSET (Slots \cap lagging) /\ lost = {}
      BY <2>1
    <2>3. lagging' = {} /\ UNCHANGED <<connected, registered, admitted, alive, waiting>>
      BY <2>1, <2>2, NobodyLost
    <2>4. todo' = <<>> /\ UNCHANGED match
      BY <1>1, <1>3, <2>1, <2>2, TailTypes DEF Return, After, MaybeAdmit
    <2> QED BY <2>3, <2>4 DEF Considers, SamePeople, match
  <1>4. CASE Complete(i) /\ ~Refuses
    <2>1. /\ Return((IF join_deadline = "unset" THEN <<Broadcast("LOBBY_OPEN")>> ELSE <<>>)
                       \o <<AdmissionTail(i)>>)
          /\ UNCHANGED <<players, phase>>
      BY <1>1, <1>4 DEF MaybeAdmit, AdmissionTail
    <2>2. todo' \in {<<Broadcast("LOBBY_OPEN"), AdmissionTail(i)>>, <<AdmissionTail(i)>>}
      <3> DEFINE a == Broadcast("LOBBY_OPEN")
                 b == AdmissionTail(i)
                 U == {a, b}
      <3>1. <<a>> \in Seq(U) /\ <<b>> \in Seq(U) /\ <<a, b>> \in Seq(U) /\ <<>> \in Seq(U)
        OBVIOUS
      <3> HIDE DEF a, b, U
      <3>2. <<a>> \o <<b>> = <<a, b>>
        <4> DEFINE q == <<a>> \o <<b>>
        <4>1. q \in Seq(U) /\ Len(q) = 2 /\ q[1] = a /\ q[2] = b
          BY <3>1
        <4>2. Len(<<a, b>>) = 2 /\ <<a, b>>[1] = a /\ <<a, b>>[2] = b
          OBVIOUS
        <4> HIDE DEF q
        <4>3. \A k \in 1 .. Len(q) : q[k] = <<a, b>>[k]
          BY <4>1, <4>2
        <4>4. q = <<a, b>>
          BY <3>1, <4>1, <4>2, <4>3, SeqEqual
        <4> QED BY <4>4 DEF q
      <3>3. <<>> \o <<b>> = <<b>>
        BY <3>1, ConcatEmptySeq
      <3>4. <<b>> \o <<>> = <<b>> /\ <<a, b>> \o <<>> = <<a, b>>
        BY <3>1, ConcatEmptySeq
      <3>5. todo' = (IF join_deadline = "unset" THEN <<a>> ELSE <<>>) \o <<b>> \o <<>>
        BY <1>1, <2>1 DEF Return, a, b
      <3>6. todo' \in {<<a, b>>, <<b>>}
        BY <3>2, <3>3, <3>4, <3>5
      <3> QED BY <3>6 DEF a, b
    <2>3. phase = "LOBBY_OPEN" /\ i \notin admitted
      BY <1>4 DEF Refuses, Complete
    <2> QED BY <1>4, <2>1, <2>2, <2>3 DEF Considers, SamePeople, players
  <1> QED BY <1>2, <1>3, <1>4

LEMMA AdmitsCalmly ==
  ASSUME TypeOK, lagging = {}, phase = "LOBBY_OPEN", NEW i \in registered \ admitted,
         todo = <<AdmissionTail(i)>>, AdmitTail
  PROVE  Admits(i) /\ lagging' = {}
  <1>1. Head(todo) = AdmissionTail(i) /\ Tail(todo) = <<>> /\ Head(todo).slot = i
    BY Tails DEF AdmissionTail, CallOn
  <1>2. /\ admitted' = admitted \cup {i} /\ waiting' = waiting \cup {i}
        /\ Return(<<Broadcast("JOINED"), SnapshotCall>>)
        /\ UNCHANGED <<connected, registered, alive, lagging, match>>
    BY <1>1 DEF AdmitTail, SnapshotCall
  <1>3. <<Broadcast("JOINED"), SnapshotCall>> \in Seq({Broadcast("JOINED"), SnapshotCall})
    OBVIOUS
  <1>4. todo' = <<Broadcast("JOINED"), SnapshotCall>>
    BY <1>1, <1>2, <1>3, ConcatEmptySeq DEF Return
  <1> QED BY <1>2, <1>4 DEF Admits, match

LEMMA TimersCalmly ==
  ASSUME TypeOK, IInv, lagging = {}, phase # "SETUP", todo \in TimerStacks,
         CloseLobby \/ Expire \/ Chase
  PROVE  (Shuts \/ Catches \/ Passes) /\ lagging' = {}
  <1> DEFINE close == Call("close_lobby_if_needed")
  <1>1. CASE todo = <<close, ExpireCall, ChaseCall>>
    <2>1. /\ todo # <<>> /\ Head(todo) = close /\ Tail(todo) = <<ExpireCall, ChaseCall>>
          /\ Head(todo).fn = "close_lobby_if_needed"
      BY <1>1, Tails DEF Call
    <2>2. CloseLobby
      BY <2>1 DEF Expire, Chase, Running
    <2>3. CASE LobbyExpired
      <3>1. /\ phase' = "SETUP" /\ UNCHANGED players
            /\ Return(<<Broadcast("LOBBY_CLOSED"), Broadcast("SETUP_OPEN"), TailCall>>)
        BY <2>2, <2>3 DEF CloseLobby, TailCall
      <3>2. todo' = <<Broadcast("LOBBY_CLOSED"), Broadcast("SETUP_OPEN"), TailCall,
                      ExpireCall, ChaseCall>>
        <4> DEFINE a == Broadcast("LOBBY_CLOSED")
                   b == Broadcast("SETUP_OPEN")
                   U == {a, b, TailCall, ExpireCall, ChaseCall}
                   q == <<a, b, TailCall>> \o <<ExpireCall, ChaseCall>>
                   r == <<a, b, TailCall, ExpireCall, ChaseCall>>
        <4>1. /\ <<a, b, TailCall>> \in Seq(U) /\ <<ExpireCall, ChaseCall>> \in Seq(U)
              /\ r \in Seq(U)
          OBVIOUS
        <4>2. /\ q \in Seq(U) /\ Len(q) = 5 /\ q[1] = a /\ q[2] = b /\ q[3] = TailCall
              /\ q[4] = ExpireCall /\ q[5] = ChaseCall
          BY <4>1
        <4>3. Len(r) = 5
          OBVIOUS
        <4>4. \A k \in 1 .. 5 : q[k] = r[k]
          BY <4>2
        <4> HIDE DEF q, r
        <4>5. q = r
          BY <4>1, <4>2, <4>3, <4>4, SeqEqual
        <4> QED BY <2>1, <3>1, <4>5 DEF Return, q, r
      <3> QED BY <1>1, <2>3, <3>1, <3>2 DEF Shuts, LobbyExpired, players
    <2>4. CASE ~LobbyExpired
      BY <2>1, <2>2, <2>4, TailTypes DEF CloseLobby, Passes, SamePeople, players, match, Return
    <2> QED BY <2>3, <2>4
  <1>2. CASE todo = <<ExpireCall, ChaseCall>>
    <2>1. /\ todo # <<>> /\ Head(todo) = ExpireCall /\ Tail(todo) = <<ChaseCall>>
          /\ Head(todo).fn = "expire_unready_setup_players"
      BY <1>2, Tails DEF Call, ExpireCall
    <2>2. Expire /\ ~SetupExpired
      BY <2>1 DEF CloseLobby, Chase, Running, SetupExpired
    <2> QED BY <2>1, <2>2, TailTypes DEF Expire, Passes, SamePeople, players, match, Return
  <1>3. CASE todo = <<ChaseCall>>
    <2>1. /\ todo # <<>> /\ Head(todo) = ChaseCall /\ Tail(todo) = <<>>
          /\ Head(todo).fn = "chase"
      BY <1>3, Tails DEF Call, ChaseCall
    <2>2. Chase
      BY <2>1 DEF CloseLobby, Expire, Running
    <2>3. UNCHANGED <<connected, registered, admitted, waiting, lagging, phase>>
      BY <2>2 DEF Chase, match
    <2>4. CASE Return(<<>>) /\ UNCHANGED alive
      BY <2>1, <2>3, <2>4, TailTypes DEF Passes, SamePeople, Return
    <2>5. ASSUME phase = "ROUND_ACTIVE", NEW S \in SUBSET Alive, alive' = alive \ S,
                 Return(<<CallOn("broadcast_positions", 0)>> \o
                        (IF AtMostOneType(Alive \ S, choice)
                         THEN <<Call("reevaluate_state")>> ELSE <<>>))
          PROVE  Catches /\ lagging' = {}
      <3> DEFINE rest == IF AtMostOneType(Alive \ S, choice)
                         THEN <<Call("reevaluate_state")>> ELSE <<>>
      <3>1. rest \in Afterwards
        BY DEF Afterwards, Reevaluation
      <3> DEFINE T == {Positions(0), Reevaluation}
      <3>2. <<>> \in Seq(T) /\ <<Reevaluation>> \in Seq(T) /\ <<Positions(0)>> \in Seq(T)
        OBVIOUS
      <3>3. rest \in Seq(T)
        BY <3>2 DEF Reevaluation
      <3> HIDE DEF rest, T
      <3>4. todo' = (<<Positions(0)>> \o rest) \o <<>>
        BY <2>1, <2>5 DEF Return, Positions, rest
      <3>5. todo' = <<Positions(0)>> \o rest
        BY <3>2, <3>3, <3>4, ConcatProperties, ConcatEmptySeq
      <3> QED BY <1>3, <2>3, <2>5, <3>1, <3>5 DEF Catches
    <2> QED BY <2>2, <2>4, <2>5 DEF Chase
  <1> QED BY <1>1, <1>2, <1>3 DEF TimerStacks

(* The tail of close_lobby_if_needed finds everybody ready. *)
LEMMA ShutsCalmly ==
  ASSUME TypeOK, IInv, lagging = {}, phase = "SETUP",
         todo = <<TailCall, ExpireCall, ChaseCall>>, CloseLobbyTail
  PROVE  (Ends \/ Begins) /\ lagging' = {}
  <1>1. /\ todo # <<>> /\ Head(todo) = TailCall /\ Tail(todo) = <<ExpireCall, ChaseCall>>
    BY Tails
  <1>2. CASE FewerThanTwo(Admitted) /\ EndGame
    BY <1>1, <1>2, EndsCalmly DEF Ends
  <1>3. CASE StartActiveRound
    <2>1. /\ phase' = "ROUND_ACTIVE" /\ lagging' = {}
          /\ alive' = alive \cup (Admitted \cap waiting) /\ waiting' = waiting \ Admitted
          /\ UNCHANGED <<connected, registered, admitted>>
      BY <1>3 DEF StartActiveRound, StartRound
    <2>2. todo' = <<Broadcast("ROUND_START"), Positions(0)>> \o <<ExpireCall, ChaseCall>>
      BY <1>1, <1>3 DEF StartActiveRound, Return, Positions
    <2> QED BY <2>1, <2>2 DEF Begins
  <1>4. FewerThanTwo(Admitted) \/ AllAdmittedReady
    BY DEF AllAdmittedReady, IInv, AdmittedReady
  <1> QED BY <1>2, <1>3, <1>4 DEF CloseLobbyTail

LEMMA AfterwardsTypes ==
  Afterwards \subseteq Seq(Calls) /\ \A k \in 0 .. MaxPlayers : Positions(k) \in Calls
  <1>1. ExpireCall \in Calls /\ ChaseCall \in Calls /\ Reevaluation \in Calls
    BY DEF ExpireCall, ChaseCall, Reevaluation, Call, Calls, Procedures
  <1> QED BY <1>1 DEF Afterwards, Positions, CallOn, Calls

LEMMA PlacesCalmly ==
  ASSUME TypeOK, lagging = {}, phase = "ROUND_ACTIVE", NEW k \in 0 .. MaxPlayers,
         NEW rest \in Afterwards, todo = <<Positions(k)>> \o rest, BroadcastPositions
  PROVE  Places /\ lagging' = {}
  <1>1. Head(todo) = Positions(k) /\ Tail(todo) = rest /\ rest \in Seq(Calls)
    BY AfterwardsTypes, OneOnTop
  <1>2. Head(todo).slot = k
    BY <1>1 DEF Positions, CallOn
  <1>3. SamePeople /\ lagging' = {}
    BY DEF BroadcastPositions, players, match, SamePeople
  <1> DEFINE ahead == {i \in Admitted : i >= k}
  <1>4. CASE ahead = {}
    <2>1. todo' = rest
      BY <1>1, <1>2, <1>4, ConcatEmptySeq DEF BroadcastPositions, Return
    <2>2. \A j \in Admitted : j < k
      <3>1. k \in Int /\ Admitted \subseteq Int
        BY MatchServerAssumption DEF TypeOK, Admitted, Slots
      <3> QED BY <1>4, <3>1
    <2> QED BY <1>3, <2>1, <2>2 DEF Places
  <1>5. CASE ahead # {}
    <2>1. PICK i \in ahead :
             /\ \A j \in ahead : i <= j
             /\ Return(<<Broadcast("PLAYER"), CallOn("broadcast_positions", i + 1)>>)
      BY <1>2, <1>5 DEF BroadcastPositions
    <2>2. todo' = <<Broadcast("PLAYER"), Positions(i + 1)>> \o rest
      BY <1>1, <2>1 DEF Return, Positions
    <2>3. k \in Int /\ Admitted \subseteq Int
      BY MatchServerAssumption DEF TypeOK, Admitted, Slots
    <2>4. i \in Admitted /\ k <= i /\ \A j \in Admitted : k <= j => i <= j
      BY <2>1, <2>3
    <2> QED BY <1>3, <2>2, <2>4 DEF Places
  <1> QED BY <1>3, <1>4, <1>5

(* A call of the stacks steps in one of these ways, to such a stack again. *)
LEMMA StaysCalm ==
  ASSUME lagging' = {}, admitted \subseteq registered, UNCHANGED <<registered, admitted>>,
         Settled' \/ Admitting' \/ Shutting' \/ Placing'
  PROVE  Calm'
  BY DEF Calm

LEMMA SettledSteps ==
  ASSUME TypeOK, IInv, Calm, Settled, Step
  PROVE  CalmMove /\ Calm'
  <1>1. todo # <<>> /\ lagging = {} /\ admitted \subseteq registered /\ phase # "SETUP"
    BY OnlyTheTop DEF Calm, Settled
  <1>2. CASE todo = <<Reevaluation>>
    <2>1. /\ Head(todo) = Reevaluation /\ Head(todo).fn = "reevaluate_state"
          /\ Tail(todo) = <<>>
      BY <1>2, Tails DEF Reevaluation, Call
    <2>2. Reevaluate
      BY <2>1, OnlyTheTop
    <2>3. CalmMove
      BY <1>1, <2>1, <2>2, ReevaluatesCalmly DEF CalmMove, Ends, Passes, SamePeople
    <2>4. Settled' /\ lagging' = {} /\ UNCHANGED <<registered, admitted>>
      BY <1>1, <2>1, <2>2, ReevaluatesCalmly DEF Settled
    <2> QED BY <1>1, <2>3, <2>4, StaysCalm
  <1>3. CASE todo \in TimerStacks
    <2>1. /\ Head(todo) \in {Call("close_lobby_if_needed"), ExpireCall, ChaseCall}
          /\ Head(todo).fn \in {"close_lobby_if_needed", "expire_unready_setup_players", "chase"}
      BY <1>3, Tails DEF TimerStacks, Call, ExpireCall, ChaseCall
    <2>2. Tail(todo) \in TimerStacks \cup {<<>>}
      <3>1. CASE todo = <<Call("close_lobby_if_needed"), ExpireCall, ChaseCall>>
        <4>1. Tail(todo) = <<ExpireCall, ChaseCall>>
          BY <3>1, Tails
        <4> QED BY <4>1 DEF TimerStacks
      <3>2. CASE todo = <<ExpireCall, ChaseCall>>
        <4>1. Tail(todo) = <<ChaseCall>>
          BY <3>2, Tails
        <4> QED BY <4>1 DEF TimerStacks
      <3>3. CASE todo = <<ChaseCall>>
        BY <3>3, Tails
      <3> QED BY <1>3, <3>1, <3>2, <3>3 DEF TimerStacks
    <2>3. CloseLobby \/ Expire \/ Chase
      BY <2>1, OnlyTheTop
    <2>4. (Shuts \/ Catches \/ Passes) /\ lagging' = {}
      BY <1>1, <1>3, <2>3, TimersCalmly
    <2>5. CASE Shuts
      BY <1>1, <2>4, <2>5, StaysCalm DEF Shuts, Shutting, ClosingStacks, CalmMove
    <2>6. CASE Catches
      <3>1. 0 \in 0 .. MaxPlayers
        BY MatchServerAssumption
      <3>2. Placing'
        BY <2>6, <3>1 DEF Catches, Placing
      <3> QED BY <1>1, <2>4, <2>6, <3>2, StaysCalm DEF Catches, CalmMove
    <2>7. CASE Passes
      BY <1>1, <2>2, <2>4, <2>7, StaysCalm DEF Passes, SamePeople, Settled, CalmMove
    <2> QED BY <2>4, <2>5, <2>6, <2>7
  <1>4. CASE todo \in NewsStacks
    <2>1. Tail(todo) \in NewsStacks \cup {<<>>, <<Reevaluation>>}
      <3>1. CASE todo = <<Broadcast("JOINED"), SnapshotCall>>
        <4>1. Tail(todo) = <<SnapshotCall>>
          BY <3>1, Tails
        <4> QED BY <4>1 DEF NewsStacks
      <3>2. CASE todo = <<SnapshotCall>>
        BY <3>2, Tails
      <3>3. CASE todo = <<Broadcast("LEFT"), SnapshotCall, Reevaluation>>
        <4>1. Tail(todo) = <<SnapshotCall, Reevaluation>>
          BY <3>3, Tails
        <4> QED BY <4>1 DEF NewsStacks
      <3>4. CASE todo = <<SnapshotCall, Reevaluation>>
        <4>1. Tail(todo) = <<Reevaluation>>
          BY <3>4, Tails
        <4> QED BY <4>1
      <3> QED BY <1>4, <3>1, <3>2, <3>3, <3>4 DEF NewsStacks
    <2>2. CASE Head(todo) \in {Broadcast("JOINED"), Broadcast("LEFT")}
      <3>1. Head(todo).fn = "queue_broadcast"
        BY <2>2 DEF Broadcast
      <3>2. QueueBroadcast
        BY <3>1, OnlyTheTop
      <3>3. SamePeople /\ lagging' = {} /\ todo' = Tail(todo)
        BY <1>1, <3>2, BroadcastsCalmly
      <3>4. Settled'
        BY <1>1, <2>1, <3>3 DEF Settled, SamePeople
      <3>5. CalmMove
        BY <1>1, <1>4, <2>2, <3>3 DEF CalmMove, Announces, Due
      <3> QED BY <1>1, <3>3, <3>4, <3>5, StaysCalm DEF SamePeople
    <2>3. CASE Head(todo) = SnapshotCall
      <3>1. Head(todo).fn = "broadcast_game_state"
        BY <2>3 DEF SnapshotCall, Call
      <3>2. BroadcastGameState
        BY <3>1, OnlyTheTop
      <3>3. SamePeople /\ lagging' = {} /\ todo' = Tail(todo)
        BY <1>1, <3>2, SnapshotsCalmly
      <3>4. Settled'
        BY <1>1, <2>1, <3>3 DEF Settled, SamePeople
      <3>5. CalmMove
        BY <1>1, <2>3, <3>3 DEF CalmMove, Snapshots
      <3> QED BY <1>1, <3>3, <3>4, <3>5, StaysCalm DEF SamePeople
    <2>4. Head(todo) \in {Broadcast("JOINED"), Broadcast("LEFT"), SnapshotCall}
      BY <1>4, Tails DEF NewsStacks
    <2> QED BY <2>2, <2>3, <2>4
  <1>5. ASSUME NEW i \in registered, todo = <<Admission(i)>>
        PROVE  CalmMove /\ Calm'
    <2>1. Head(todo) = Admission(i) /\ Head(todo).fn = "maybe_admit_player"
      BY <1>5, Tails DEF Admission, CallOn
    <2>2. MaybeAdmit
      BY <2>1, OnlyTheTop
    <2>3. i \in Slots
      BY DEF TypeOK
    <2>4. Considers(i) /\ lagging' = {}
      BY <1>1, <1>5, <2>2, ConsidersCalmly
    <2>5. CASE todo' = <<>>
      BY <1>1, <2>3, <2>4, <2>5, StaysCalm DEF Considers, SamePeople, Settled, CalmMove
    <2>6. CASE /\ phase = "LOBBY_OPEN" /\ i \notin admitted
               /\ todo' \in {<<Broadcast("LOBBY_OPEN"), AdmissionTail(i)>>, <<AdmissionTail(i)>>}
      <3>1. Admitting'
        BY <2>4, <2>6 DEF Considers, SamePeople, Admitting
      <3> QED BY <1>1, <2>3, <2>4, <3>1, StaysCalm DEF Considers, SamePeople, CalmMove
    <2> QED BY <2>4, <2>5, <2>6 DEF Considers
  <1> QED BY <1>1, <1>2, <1>3, <1>4, <1>5 DEF Settled

LEMMA AdmittingSteps ==
  ASSUME TypeOK, IInv, Calm, Admitting, Step
  PROVE  CalmMove /\ Calm'
  <1>1. PICK i \in registered \ admitted :
           todo \in {<<Broadcast("LOBBY_OPEN"), AdmissionTail(i)>>, <<AdmissionTail(i)>>}
    BY DEF Admitting
  <1>2. lagging = {} /\ admitted \subseteq registered /\ phase = "LOBBY_OPEN"
    BY DEF Calm, Admitting
  <1>3. CASE todo = <<Broadcast("LOBBY_OPEN"), AdmissionTail(i)>>
    <2>1. /\ todo # <<>> /\ Head(todo) = Broadcast("LOBBY_OPEN")
          /\ Head(todo).fn = "queue_broadcast" /\ Tail(todo) = <<AdmissionTail(i)>>
      BY <1>3, Tails DEF Broadcast
    <2>2. QueueBroadcast
      BY <2>1, OnlyTheTop
    <2>3. SamePeople /\ lagging' = {} /\ todo' = Tail(todo)
      BY <1>2, <2>2, BroadcastsCalmly
    <2>4. Admitting'
      BY <1>2, <2>1, <2>3 DEF Admitting, SamePeople
    <2>5. CalmMove
      BY <1>2, <2>1, <2>3 DEF CalmMove, Announces, Due
    <2> QED BY <1>2, <2>3, <2>4, <2>5, StaysCalm DEF SamePeople
  <1>4. CASE todo = <<AdmissionTail(i)>>
    <2>1. Head(todo) = AdmissionTail(i) /\ Head(todo).fn = "maybe_admit_player.tail"
      BY <1>4, Tails DEF AdmissionTail, CallOn
    <2>2. AdmitTail
      BY <2>1, OnlyTheTop
    <2>3. i \in Slots
      BY DEF TypeOK
    <2>4. Admits(i) /\ lagging' = {}
      BY <1>2, <1>4, <2>2, <2>3, AdmitsCalmly
    <2>5. Settled' /\ admitted' \subseteq registered'
      BY <1>2, <2>4 DEF Admits, Settled, NewsStacks
    <2> QED BY <2>3, <2>4, <2>5 DEF CalmMove, Calm
  <1> QED BY <1>1, <1>3, <1>4

LEMMA ShuttingSteps ==
  ASSUME TypeOK, IInv, Calm, Shutting, Step
  PROVE  CalmMove /\ Calm'
  <1>1. lagging = {} /\ admitted \subseteq registered /\ phase = "SETUP"
    BY DEF Calm, Shutting
  <1>2. CASE todo = <<TailCall, ExpireCall, ChaseCall>>
    <2>1. /\ Head(todo) = TailCall /\ Head(todo).fn = "close_lobby_if_needed.tail"
          /\ Tail(todo) = <<ExpireCall, ChaseCall>>
      BY <1>2, Tails DEF TailCall, Call
    <2>2. CloseLobbyTail
      BY <2>1, OnlyTheTop
    <2>3. (Ends \/ Begins) /\ lagging' = {}
      BY <1>1, <1>2, <2>2, ShutsCalmly
    <2>4. CASE Ends
      <3>1. Settled'
        BY <2>1, <2>4 DEF Ends, Settled, TimerStacks
      <3> QED BY <1>1, <2>3, <2>4, <3>1, StaysCalm DEF Ends, CalmMove
    <2>5. CASE Begins
      <3>1. Placing'
        BY <2>5 DEF Begins, Placing
      <3> QED BY <1>1, <2>3, <2>5, <3>1, StaysCalm DEF Begins, CalmMove
    <2> QED BY <2>3, <2>4, <2>5
  <1>3. CASE todo # <<TailCall, ExpireCall, ChaseCall>>
    <2>1. PICK line \in {"LOBBY_CLOSED", "SETUP_OPEN"} :
             todo # <<>> /\ Head(todo) = Broadcast(line) /\ Tail(todo) \in ClosingStacks
      <3>1. CASE todo = <<Broadcast("LOBBY_CLOSED"), Broadcast("SETUP_OPEN"), TailCall,
                          ExpireCall, ChaseCall>>
        <4>1. /\ todo # <<>> /\ Head(todo) = Broadcast("LOBBY_CLOSED")
              /\ Tail(todo) = <<Broadcast("SETUP_OPEN"), TailCall, ExpireCall, ChaseCall>>
          BY <3>1, Tails
        <4> QED BY <4>1 DEF ClosingStacks
      <3>2. CASE todo = <<Broadcast("SETUP_OPEN"), TailCall, ExpireCall, ChaseCall>>
        <4>1. /\ todo # <<>> /\ Head(todo) = Broadcast("SETUP_OPEN")
              /\ Tail(todo) = <<TailCall, ExpireCall, ChaseCall>>
          BY <3>2, Tails
        <4> QED BY <4>1 DEF ClosingStacks
      <3> QED BY <1>3, <3>1, <3>2 DEF Shutting, ClosingStacks
    <2>2. QueueBroadcast
      BY <2>1, OnlyTheTop DEF Broadcast
    <2>3. SamePeople /\ lagging' = {} /\ todo' = Tail(todo)
      BY <1>1, <2>2, BroadcastsCalmly
    <2>4. Shutting' /\ CalmMove
      BY <1>1, <2>1, <2>3 DEF CalmMove, Announces, Due, Shutting, SamePeople
    <2> QED BY <1>1, <2>3, <2>4, StaysCalm DEF SamePeople
  <1> QED BY <1>2, <1>3

LEMMA PlacingSteps ==
  ASSUME TypeOK, IInv, Calm, Placing, Step
  PROVE  CalmMove /\ Calm'
  <1>1. /\ lagging = {} /\ admitted \subseteq registered /\ phase = "ROUND_ACTIVE"
        /\ todo # <<>>
    BY OnlyTheTop DEF Calm, Placing
  <1>2. ASSUME NEW line, Head(todo) = Broadcast(line),
               NEW k \in 0 .. MaxPlayers, NEW rest \in Afterwards,
               Tail(todo) = <<Positions(k)>> \o rest,
               todo' = Tail(todo) => Due(line)
        PROVE  CalmMove /\ Calm'
    <2>1. QueueBroadcast
      BY <1>2, OnlyTheTop DEF Broadcast
    <2>2. SamePeople /\ lagging' = {} /\ todo' = Tail(todo)
      BY <1>1, <2>1, BroadcastsCalmly
    <2>3. Placing' /\ CalmMove
      BY <1>1, <1>2, <2>2 DEF CalmMove, Announces, Placing, SamePeople
    <2> QED BY <1>1, <2>2, <2>3, StaysCalm DEF SamePeople
  <1>3. CASE todo = <<Broadcast("ROUND_START"), Positions(0)>> \o <<ExpireCall, ChaseCall>>
    <2> DEFINE rest == <<ExpireCall, ChaseCall>>
    <2>1. Broadcast("ROUND_START") \in Calls /\ 0 \in 0 .. MaxPlayers
      BY MatchServerAssumption DEF Broadcast, Calls, Lines
    <2>2. Positions(0) \in Calls /\ rest \in Seq(Calls) /\ rest \in Afterwards
      BY <2>1, AfterwardsTypes DEF Afterwards
    <2> HIDE DEF rest
    <2>3. Head(todo) = Broadcast("ROUND_START") /\ Tail(todo) = <<Positions(0)>> \o rest
      BY <1>3, <2>1, <2>2, TwoOnTop DEF rest
    <2>4. todo' = Tail(todo) => Due("ROUND_START")
      BY <2>2, <2>3 DEF Due
    <2> QED BY <1>2, <2>1, <2>2, <2>3, <2>4
  <1>4. ASSUME NEW k \in 0 .. MaxPlayers, NEW rest \in Afterwards,
               todo = <<Positions(k)>> \o rest
        PROVE  CalmMove /\ Calm'
    <2>1. Head(todo) = Positions(k)
      BY <1>4, AfterwardsTypes, OneOnTop
    <2>2. BroadcastPositions
      BY <2>1, OnlyTheTop DEF Positions, CallOn
    <2>3. Places /\ lagging' = {} 
      BY <1>1, <1>4, <2>2, PlacesCalmly
    <2>4. PICK l \in 0 .. MaxPlayers, after \in Afterwards :
             /\ phase = "ROUND_ACTIVE" /\ SamePeople
             /\ \/ todo' = after
                \/ \E i \in Admitted :
                      todo' = <<Broadcast("PLAYER"), Positions(i + 1)>> \o after
      BY <2>3 DEF Places
    <2>5. CASE todo' = after
      <3>1. Settled'
        BY <2>4, <2>5 DEF SamePeople, Settled, Afterwards, TimerStacks
      <3> QED BY <1>1, <2>3, <2>4, <3>1, StaysCalm DEF SamePeople, CalmMove
    <2>6. ASSUME NEW i \in Admitted, todo' = <<Broadcast("PLAYER"), Positions(i + 1)>> \o after
          PROVE  CalmMove /\ Calm'
      <3>1. i \in 0 .. MaxPlayers
        BY MatchServerAssumption DEF TypeOK, Admitted, Slots
      <3>2. Admitted' = Admitted
        BY <2>4 DEF SamePeople, Admitted
      <3>3. Placing'
        BY <2>4, <2>6, <3>1, <3>2 DEF SamePeople, Placing
      <3> QED BY <1>1, <2>3, <2>4, <3>3, StaysCalm DEF SamePeople, CalmMove
    <2> QED BY <2>4, <2>5, <2>6
  <1>5. ASSUME NEW k \in Admitted, NEW rest \in Afterwards,
               todo = <<Broadcast("PLAYER"), Positions(k + 1)>> \o rest
        PROVE  CalmMove /\ Calm'
    <2>1. k + 1 \in 0 .. MaxPlayers
      BY MatchServerAssumption DEF TypeOK, Admitted, Slots
    <2>2. Broadcast("PLAYER") \in Calls /\ Positions(k + 1) \in Calls
      BY <2>1, AfterwardsTypes DEF Broadcast, Calls, Lines
    <2>3. Head(todo) = Broadcast("PLAYER") /\ Tail(todo) = <<Positions(k + 1)>> \o rest
      BY <1>5, <2>2, AfterwardsTypes, TwoOnTop
    <2>4. todo' = Tail(todo) => Due("PLAYER")
      BY <1>5, <2>3 DEF Due
    <2> QED BY <1>2, <2>1, <2>3, <2>4
  <1> QED BY <1>3, <1>4, <1>5 DEF Placing

LEMMA CalmSteps ==
  ASSUME TypeOK, IInv, Calm, Step
  PROVE  CalmMove /\ Calm'
  BY SettledSteps, AdmittingSteps, ShuttingSteps, PlacingSteps DEF Calm

-----------------------------------------------------------------------------
(* What clients and lines are made of. *)

SomeName == Names \cup {NoName}
Lives == {"alive", "waiting", "out"}
Entries == [who : Names, life : Lives]

Clients ==
    [name_input : SomeName, pending_name : SomeName, my_name : SomeName,
     name_registered : BOOLEAN, name_check_pending : BOOLEAN, state_request_sent : BOOLEAN,
     can_attempt_join : BOOLEAN, joined_match : BOOLEAN, choice_confirmed : BOOLEAN,
     repick_phase : BOOLEAN, game_over : BOOLEAN, match_result : {-1, 0, 1},
     players : SUBSET Entries]

(* The lines without arguments that the server sends and a client heeds. *)
Spoken ==
    {"WELCOME", "LOBBY_WAITING", "LOBBY_OPEN", "LOBBY_CLOSED", "ROUND_START",
     "MATCH_RESET", "CHOICE_OK", "JOINED_MATCH", "WIN", "LOSE", "GAME_OVER",
     "ERROR lobby_closed", "ERROR duplicate_name", "ERROR already_registered",
     "ERROR register_first", "ERROR already_joined", "ERROR spawn_taken",
     "ERROR rematch_not_available"}

Stages == {"LOBBY_WAITING", "LOBBY_OPEN", "SETUP_OPEN", "ROUND_START", "WIN", "LOSE",
           "GAME_OVER", ""}

PlainLines == [line : Spoken]
StateLines == [line : {"STATE"}, players : SUBSET Entries, progress : Stages]
PlayerLines == [line : {"PLAYER"}, entry : Entries]
LeftLines == [line : {"LEFT"}, who : SomeName]
ServerLines == PlainLines \cup StateLines \cup PlayerLines \cup LeftLines

Answers == {"WELCOME", "ERROR duplicate_name", "ERROR already_registered"}

(* How far the match is, says the line. *)
Stage(m) == IF m.line = "STATE" THEN m.progress ELSE m.line

Shows(c, m) ==
    CASE m.line = "STATE" -> m.players
      [] m.line = "MATCH_RESET" -> {}
      [] m.line = "PLAYER" -> UpsertPlayer(c.players, m.entry, MaxPlayers)
      [] m.line = "LEFT" -> {e \in c.players : e.who # m.who}
      [] OTHER -> c.players

(* Belief by belief, what d has after c has read the line. *)
Learns(c, d, m) ==
    /\ d.name_input = c.name_input /\ d.pending_name = c.pending_name
    /\ d.state_request_sent = c.state_request_sent
    /\ d.name_check_pending = (c.name_check_pending /\ m.line \notin Answers)
    /\ d.name_registered = IF m.line \in {"WELCOME", "ERROR already_registered"} THEN TRUE
                           ELSE IF m.line \in {"ERROR duplicate_name", "ERROR register_first"}
                           THEN FALSE ELSE c.name_registered
    /\ d.my_name = IF m.line = "WELCOME" /\ c.pending_name # NoName THEN c.pending_name
                   ELSE c.my_name
    /\ d.joined_match = IF m.line = "JOINED_MATCH" THEN TRUE
                        ELSE IF m.line = "MATCH_RESET" THEN FALSE ELSE c.joined_match
    /\ d.can_attempt_join =
          IF m.line = "MATCH_RESET" \/ Stage(m) \in {"LOBBY_WAITING", "LOBBY_OPEN"} THEN TRUE
          ELSE IF \/ m.line \in {"LOBBY_CLOSED", "JOINED_MATCH", "ERROR lobby_closed"}
                  \/ m.line = "STATE" /\ m.progress \in {"SETUP_OPEN", "ROUND_START"}
          THEN FALSE ELSE c.can_attempt_join
    /\ d.choice_confirmed = IF m.line = "CHOICE_OK" THEN TRUE
                            ELSE IF m.line = "MATCH_RESET" THEN FALSE ELSE c.choice_confirmed
    /\ d.repick_phase = IF m.line = "MATCH_RESET" \/ Stage(m) = "ROUND_START" THEN FALSE
                        ELSE c.repick_phase
    /\ d.game_over = IF m.line = "MATCH_RESET" THEN FALSE
                     ELSE IF Stage(m) \in {"WIN", "LOSE"} THEN TRUE ELSE c.game_over
    /\ d.match_result = IF m.line = "MATCH_RESET" THEN 0
                        ELSE IF Stage(m) = "WIN" THEN 1
                        ELSE IF Stage(m) = "LOSE" THEN -1 ELSE c.match_result
    /\ d.players = Shows(c, m)

LEMMA OverFields ==
  ASSUME NEW c \in Clients, NEW v \in {"WIN", "LOSE"}
  PROVE  Over(c, v) = [c EXCEPT !.game_over = TRUE, !.match_result = IF v = "WIN" THEN 1 ELSE -1]
  <1>1. DOMAIN Results = {"WIN", "LOSE"} /\ Results["WIN"] = 1 /\ Results["LOSE"] = -1
    BY DEF Results
  <1>2. Over(c, v) = [c EXCEPT !.game_over = TRUE, !.match_result = Results[v]]
    BY <1>1 DEF Over
  <1>3. Results[v] = IF v = "WIN" THEN 1 ELSE -1
    BY <1>1
  <1> QED BY <1>2, <1>3

LEMMA NotOver ==
  ASSUME NEW c, NEW v, v \notin {"WIN", "LOSE"} PROVE Over(c, v) = c
  BY DEF Over, Results

LEMMA ProgressFields ==
  ASSUME NEW c \in Clients, NEW l \in Stages \cup {"LOBBY_CLOSED"}
  PROVE  Progress(c, l) =
            [c EXCEPT !.can_attempt_join = IF l \in {"LOBBY_WAITING", "LOBBY_OPEN"} THEN TRUE
                                           ELSE IF l = "LOBBY_CLOSED" THEN FALSE ELSE @,
                      !.repick_phase = IF l = "ROUND_START" THEN FALSE ELSE @,
                      !.game_over = IF l \in {"WIN", "LOSE"} THEN TRUE ELSE @,
                      !.match_result = IF l = "WIN" THEN 1 ELSE IF l = "LOSE" THEN -1 ELSE @]
  <1>1. CASE l \in {"LOBBY_WAITING", "LOBBY_OPEN"}
    BY <1>1 DEF Progress, Clients
  <1>2. CASE l = "LOBBY_CLOSED"
    BY <1>2 DEF Progress, Clients
  <1>3. CASE l = "ROUND_START"
    BY <1>3 DEF Progress, Clients
  <1>4. CASE l \in {"WIN", "LOSE"}
    <2>1. Progress(c, l) = Over(c, l)
      BY <1>4 DEF Progress
    <2>2. Over(c, l) = [c EXCEPT !.game_over = TRUE,
                                 !.match_result = IF l = "WIN" THEN 1 ELSE -1]
      BY <1>4, OverFields
    <2>3. l \notin {"LOBBY_WAITING", "LOBBY_OPEN", "LOBBY_CLOSED", "ROUND_START"}
      BY <1>4
    <2> QED BY <1>4, <2>1, <2>2, <2>3 DEF Clients
  <1>5. CASE l \in {"SETUP_OPEN", "GAME_OVER", ""}
    <2>1. Progress(c, l) = c
      BY <1>5, NotOver DEF Progress
    <2> QED BY <1>5, <2>1 DEF Clients
  <1> QED BY <1>1, <1>2, <1>3, <1>4, <1>5 DEF Stages

LEMMA UpsertType ==
  ASSUME NEW S \in SUBSET Entries, NEW e \in Entries
  PROVE  UpsertPlayer(S, e, MaxPlayers) \in SUBSET Entries
  BY DEF UpsertPlayer

LEMMA PlainTeaches ==
  ASSUME NEW c \in Clients, NEW m \in PlainLines, NEW d,
         d = HandleServerLine(c, m, MaxPlayers)
  PROVE  d \in Clients /\ Learns(c, d, m)
  <1> DEFINE l == m.line
  <1>0. l \in Spoken /\ Stage(m) = l
    BY DEF PlainLines, Stage, Spoken
  <1> HIDE DEF l
  <1>1. CASE l = "WELCOME"
    <2>1. d = Welcomed(c)
      BY <1>1 DEF HandleServerLine, Refusals, l
    <2> QED BY <1>0, <1>1, <2>1 DEF Welcomed, Clients, Learns, Shows, Answers, l
  <1>2. CASE l = "MATCH_RESET"
    <2>1. d = ResetByServer(c)
      BY <1>2 DEF HandleServerLine, Refusals, l
    <2> QED BY <1>0, <1>2, <2>1 DEF ResetByServer, Clients, Learns, Shows, Answers, l
  <1>3. CASE l = "CHOICE_OK"
    <2>1. d = [c EXCEPT !.choice_confirmed = TRUE]
      BY <1>3 DEF HandleServerLine, Refusals, l
    <2> QED BY <1>0, <1>3, <2>1 DEF Clients, Learns, Shows, Answers, l
  <1>4. CASE l = "JOINED_MATCH"
    <2>1. d = [c EXCEPT !.joined_match = TRUE, !.can_attempt_join = FALSE]
      BY <1>4 DEF HandleServerLine, Refusals, l
    <2> QED BY <1>0, <1>4, <2>1 DEF Clients, Learns, Shows, Answers, l
  <1>5. CASE l \in {"ERROR lobby_closed", "ERROR duplicate_name", "ERROR already_registered",
                    "ERROR register_first", "ERROR already_joined", "ERROR spawn_taken",
                    "ERROR rematch_not_available"}
    <2>1. d = Refused(c, l)
      BY <1>5 DEF HandleServerLine, Refusals, l
    <2>2. CASE l = "ERROR lobby_closed"
      <3>1. d = [c EXCEPT !.can_attempt_join = FALSE]
        BY <2>1, <2>2 DEF Refused
      <3> QED BY <1>0, <2>2, <3>1 DEF Clients, Learns, Shows, Answers, l
    <2>3. CASE l = "ERROR duplicate_name"
      <3>1. d = [c EXCEPT !.name_check_pending = FALSE, !.name_registered = FALSE]
        BY <2>1, <2>3 DEF Refused
      <3> QED BY <1>0, <2>3, <3>1 DEF Clients, Learns, Shows, Answers, l
    <2>4. CASE l = "ERROR already_registered"
      <3>1. d = [c EXCEPT !.name_check_pending = FALSE, !.name_registered = TRUE]
        BY <2>1, <2>4 DEF Refused
      <3> QED BY <1>0, <2>4, <3>1 DEF Clients, Learns, Shows, Answers, l
    <2>5. CASE l = "ERROR register_first"
      <3>1. d = [c EXCEPT !.name_registered = FALSE]
        BY <2>1, <2>5 DEF Refused
      <3> QED BY <1>0, <2>5, <3>1 DEF Clients, Learns, Shows, Answers, l
    <2>6. CASE l \in {"ERROR already_joined", "ERROR spawn_taken", "ERROR rematch_not_available"}
      <3>1. d = c
        BY <2>1, <2>6 DEF Refused
      <3> QED BY <1>0, <2>6, <3>1 DEF Clients, Learns, Shows, Answers, l
    <2> QED BY <1>5, <2>2, <2>3, <2>4, <2>5, <2>6
  <1>6. CASE l \in {"LOBBY_WAITING", "LOBBY_OPEN", "LOBBY_CLOSED", "ROUND_START", "WIN",
                    "LOSE", "GAME_OVER"}
    <2>1. d = Progress(c, l)
      BY <1>6 DEF HandleServerLine, Refusals, l
    <2>2. l \in Stages \cup {"LOBBY_CLOSED"}
      BY <1>6 DEF Stages
    <2>3. d = [c EXCEPT !.can_attempt_join = IF l \in {"LOBBY_WAITING", "LOBBY_OPEN"} THEN TRUE
                                             ELSE IF l = "LOBBY_CLOSED" THEN FALSE ELSE @,
                        !.repick_phase = IF l = "ROUND_START" THEN FALSE ELSE @,
                        !.game_over = IF l \in {"WIN", "LOSE"} THEN TRUE ELSE @,
                        !.match_result = IF l = "WIN" THEN 1 ELSE IF l = "LOSE" THEN -1 ELSE @]
      BY <2>1, <2>2, ProgressFields
    <2>4. d \in Clients
      BY <2>3 DEF Clients
    <2>5. /\ d.players = c.players
          /\ d.name_input = c.name_input /\ d.pending_name = c.pending_name
          /\ d.state_request_sent = c.state_request_sent
          /\ d.name_check_pending = c.name_check_pending
          /\ d.name_registered = c.name_registered /\ d.my_name = c.my_name
          /\ d.joined_match = c.joined_match /\ d.choice_confirmed = c.choice_confirmed
      BY <2>3 DEF Clients
    <2>6. /\ d.repick_phase = IF l = "ROUND_START" THEN FALSE ELSE c.repick_phase
          /\ d.game_over = IF l \in {"WIN", "LOSE"} THEN TRUE ELSE c.game_over
          /\ d.match_result = IF l = "WIN" THEN 1 ELSE IF l = "LOSE" THEN -1 ELSE c.match_result
          /\ d.can_attempt_join = IF l \in {"LOBBY_WAITING", "LOBBY_OPEN"} THEN TRUE
                                  ELSE IF l = "LOBBY_CLOSED" THEN FALSE ELSE c.can_attempt_join
      BY <2>3 DEF Clients
    <2>7. c.name_check_pending \in BOOLEAN
      BY DEF Clients
    <2>8. l \notin Answers \cup {"MATCH_RESET", "JOINED_MATCH", "ERROR lobby_closed", "CHOICE_OK",
                                 "ERROR register_first", "STATE", "PLAYER", "LEFT"}
      BY <1>6 DEF Answers
    <2>9. Shows(c, m) = c.players
      BY <2>8 DEF Shows, l
    <2> QED BY <1>0, <2>4, <2>5, <2>6, <2>7, <2>8, <2>9 DEF Learns, Answers, l
  <1> QED BY <1>0, <1>1, <1>2, <1>3, <1>4, <1>5, <1>6 DEF Spoken

LEMMA StateTeaches ==
  ASSUME NEW c \in Clients, NEW m \in StateLines, NEW d,
         d = HandleServerLine(c, m, MaxPlayers)
  PROVE  d \in Clients /\ Learns(c, d, m)
  <1>1. /\ m.line = "STATE" /\ m.progress \in Stages /\ m.players \in SUBSET Entries
        /\ Stage(m) = m.progress
    BY DEF StateLines, Stage
  <1>2. d = Snapshot(c, m)
    BY <1>1 DEF HandleServerLine, Refusals
  <1> DEFINE closed == IF m.progress \in {"SETUP_OPEN", "ROUND_START", "REPICK_START"}
                       THEN Progress(c, "LOBBY_CLOSED") ELSE c
  <1>3. closed = [c EXCEPT !.can_attempt_join =
                     IF m.progress \in {"SETUP_OPEN", "ROUND_START"} THEN FALSE ELSE @]
    <2>1. m.progress # "REPICK_START"
      BY <1>1 DEF Stages
    <2>2. Progress(c, "LOBBY_CLOSED") = [c EXCEPT !.can_attempt_join = FALSE]
      BY DEF Progress
    <2> QED BY <2>1, <2>2 DEF Clients
  <1>4. closed \in Clients
    BY <1>3 DEF Clients
  <1> DEFINE e == Progress(closed, m.progress)
  <1>5. d = [e EXCEPT !.players = m.players]
    BY <1>2 DEF Snapshot
  <1> HIDE DEF closed
  <1>6. e = [closed EXCEPT !.can_attempt_join =
                                IF m.progress \in {"LOBBY_WAITING", "LOBBY_OPEN"} THEN TRUE
                                ELSE IF m.progress = "LOBBY_CLOSED" THEN FALSE ELSE @,
                      !.repick_phase = IF m.progress = "ROUND_START" THEN FALSE ELSE @,
                      !.game_over = IF m.progress \in {"WIN", "LOSE"} THEN TRUE ELSE @,
                      !.match_result = IF m.progress = "WIN" THEN 1
                                       ELSE IF m.progress = "LOSE" THEN -1 ELSE @]
    BY <1>1, <1>4, ProgressFields
  <1> HIDE DEF e
  <1>7. m.progress # "LOBBY_CLOSED"
    BY <1>1 DEF Stages
  <1>8. e \in Clients
    <2> DEFINE a == IF m.progress \in {"LOBBY_WAITING", "LOBBY_OPEN"} THEN TRUE
                    ELSE IF m.progress = "LOBBY_CLOSED" THEN FALSE
                    ELSE closed.can_attempt_join
               b == IF m.progress = "ROUND_START" THEN FALSE ELSE closed.repick_phase
               g == IF m.progress \in {"WIN", "LOSE"} THEN TRUE ELSE closed.game_over
               r == IF m.progress = "WIN" THEN 1
                    ELSE IF m.progress = "LOSE" THEN -1 ELSE closed.match_result
    <2>1. /\ closed.can_attempt_join \in BOOLEAN /\ closed.repick_phase \in BOOLEAN
          /\ closed.game_over \in BOOLEAN /\ closed.match_result \in {-1, 0, 1}
      BY <1>4 DEF Clients
    <2>2. a \in BOOLEAN /\ b \in BOOLEAN /\ g \in BOOLEAN /\ r \in {-1, 0, 1}
      BY <2>1
    <2>3. e = [closed EXCEPT !.can_attempt_join = a, !.repick_phase = b, !.game_over = g,
                             !.match_result = r]
      BY <1>6
    <2> HIDE DEF a, b, g, r
    <2>4. PICK f : f = [closed EXCEPT !.can_attempt_join = a, !.repick_phase = b]
      OBVIOUS
    <2>5. f \in Clients
      BY ONLY <1>4, <2>2, <2>4 DEF Clients
    <2>6. e = [f EXCEPT !.game_over = g, !.match_result = r]
      BY ONLY <2>3, <2>4
    <2> QED BY ONLY <2>2, <2>5, <2>6 DEF Clients
  <1>9. d \in Clients
    BY <1>1, <1>5, <1>8 DEF Clients
  <1>10. /\ d.players = m.players
         /\ d.name_input = c.name_input /\ d.pending_name = c.pending_name
         /\ d.state_request_sent = c.state_request_sent
         /\ d.name_check_pending = c.name_check_pending
         /\ d.name_registered = c.name_registered /\ d.my_name = c.my_name
         /\ d.joined_match = c.joined_match /\ d.choice_confirmed = c.choice_confirmed
    BY <1>3, <1>5, <1>6, <1>8, <1>4 DEF Clients
  <1>11. /\ d.repick_phase = IF m.progress = "ROUND_START" THEN FALSE ELSE c.repick_phase
         /\ d.game_over = IF m.progress \in {"WIN", "LOSE"} THEN TRUE ELSE c.game_over
         /\ d.match_result = IF m.progress = "WIN" THEN 1
                             ELSE IF m.progress = "LOSE" THEN -1 ELSE c.match_result
         /\ d.can_attempt_join =
               IF m.progress \in {"LOBBY_WAITING", "LOBBY_OPEN"} THEN TRUE
               ELSE IF m.progress \in {"SETUP_OPEN", "ROUND_START"} THEN FALSE
               ELSE c.can_attempt_join
    BY <1>3, <1>5, <1>6, <1>7, <1>8, <1>4 DEF Clients
  <1>12. c.name_check_pending \in BOOLEAN
    BY DEF Clients
  <1> QED BY <1>1, <1>9, <1>10, <1>11, <1>12 DEF Learns, Shows, Answers

LEMMA RosterTeaches ==
  ASSUME NEW c \in Clients, NEW m \in PlayerLines \cup LeftLines, NEW d,
         d = HandleServerLine(c, m, MaxPlayers)
  PROVE  d \in Clients /\ Learns(c, d, m)
  <1>1. CASE m \in PlayerLines
    <2>1. m.line = "PLAYER" /\ m.entry \in Entries /\ Stage(m) = "PLAYER"
      BY <1>1 DEF PlayerLines, Stage
    <2> DEFINE S == UpsertPlayer(c.players, m.entry, MaxPlayers)
    <2>2. S \in SUBSET Entries
      BY <2>1, UpsertType DEF Clients
    <2>3. d = [c EXCEPT !.players = S] /\ Shows(c, m) = S
      BY <2>1 DEF HandleServerLine, Refusals, Shows
    <2> HIDE DEF S
    <2> QED BY <2>1, <2>2, <2>3 DEF Clients, Learns, Answers
  <1>2. CASE m \in LeftLines
    <2>1. m.line = "LEFT" /\ Stage(m) = "LEFT"
      BY <1>2 DEF LeftLines, Stage
    <2> DEFINE S == {e \in c.players : e.who # m.who}
    <2>2. S \in SUBSET Entries
      BY DEF Clients
    <2>3. d = [c EXCEPT !.players = S] /\ Shows(c, m) = S
      BY <2>1 DEF HandleServerLine, Refusals, Shows
    <2> HIDE DEF S
    <2> QED BY <2>1, <2>2, <2>3 DEF Clients, Learns, Answers
  <1> QED BY <1>1, <1>2

(* Belief by belief, what a line of the server does. *)
LEMMA LineTeaches ==
  ASSUME NEW c \in Clients, NEW m \in ServerLines, NEW d,
         d = HandleServerLine(c, m, MaxPlayers)
  PROVE  d \in Clients /\ Learns(c, d, m)
  BY PlainTeaches, StateTeaches, RosterTeaches DEF ServerLines

-----------------------------------------------------------------------------
(* Where in a stream there are messages of a kind. *)

At(q, M) == {k \in 1 .. Len(q) : q[k] \in M}

None(q, M) == At(q, M) = {}

AtMostOne(q, M) == \A j, k \in At(q, M) : j = k

LEMMA AtConcat ==
  ASSUME NEW T, NEW p \in Seq(T), NEW q \in Seq(T), NEW M
  PROVE  At(p \o q, M) = At(p, M) \cup {Len(p) + k : k \in At(q, M)}
  <1>1. /\ Len(p \o q) = Len(p) + Len(q)
        /\ \A k \in 1 .. Len(p) + Len(q) :
              (p \o q)[k] = IF k <= Len(p) THEN p[k] ELSE q[k - Len(p)]
    BY ConcatProperties
  <1>2. Len(p) \in Nat /\ Len(q) \in Nat
    BY LenProperties
  <1>3. ASSUME NEW k \in At(p \o q, M)
        PROVE  k \in At(p, M) \/ \E j \in At(q, M) : k = Len(p) + j
    <2>1. k \in 1 .. Len(p) + Len(q) /\ (p \o q)[k] \in M
      BY <1>1, <1>3 DEF At
    <2>2. CASE k <= Len(p)
      BY <1>1, <1>2, <2>1, <2>2 DEF At
    <2>3. CASE ~(k <= Len(p))
      <3>1. k - Len(p) \in 1 .. Len(q) /\ q[k - Len(p)] \in M /\ k = Len(p) + (k - Len(p))
        BY <1>1, <1>2, <2>1, <2>3
      <3> QED BY <3>1 DEF At
    <2> QED BY <2>2, <2>3
  <1>4. ASSUME NEW k \in At(p, M) PROVE k \in At(p \o q, M)
    BY <1>1, <1>2, <1>4 DEF At
  <1>5. ASSUME NEW j \in At(q, M) PROVE Len(p) + j \in At(p \o q, M)
    <2>1. j \in 1 .. Len(q) /\ q[j] \in M
      BY <1>5 DEF At
    <2>2. /\ Len(p) + j \in 1 .. Len(p) + Len(q) /\ ~(Len(p) + j <= Len(p))
          /\ (Len(p) + j) - Len(p) = j
      BY <1>2, <2>1
    <2>3. (p \o q)[Len(p) + j] = q[j]
      BY <1>1, <2>2
    <2> QED BY <1>1, <2>1, <2>2, <2>3 DEF At
  <1> QED BY <1>3, <1>4, <1>5

LEMMA MarksOfConcat ==
  ASSUME NEW T, NEW p \in Seq(T), NEW q \in Seq(T), NEW M
  PROVE  /\ None(p \o q, M) <=> None(p, M) /\ None(q, M)
         /\ AtMostOne(p \o q, M) <=>
               /\ AtMostOne(p, M) /\ AtMostOne(q, M)
               /\ None(p, M) \/ None(q, M)
  <1> DEFINE A == At(p, M)
             B == At(q, M)
             C == At(p \o q, M)
             n == Len(p)
  <1>1. C = A \cup {n + k : k \in B}
    BY AtConcat
  <1>2. n \in Nat /\ Len(q) \in Nat /\ A \subseteq 1 .. n /\ B \subseteq 1 .. Len(q)
    BY LenProperties DEF At
  <1> HIDE DEF A, B, C, n
  <1>3. (C = {}) <=> (A = {}) /\ (B = {})
    BY <1>1
  <1>4. ASSUME \A j, k \in C : j = k
        PROVE  (\A j, k \in A : j = k) /\ (\A j, k \in B : j = k) /\ (A = {} \/ B = {})
    <2>1. \A j, k \in B : n + j = n + k
      BY <1>1, <1>4
    <2>2. \A j, k \in B : j = k
      BY <1>2, <2>1
    <2>3. ASSUME NEW j \in A, NEW k \in B PROVE FALSE
      <3>1. j = n + k
        BY <1>1, <1>4, <2>3
      <3> QED BY <1>2, <2>3, <3>1
    <2> QED BY <1>1, <1>4, <2>2, <2>3
  <1>5. ASSUME \A j, k \in A : j = k, \A j, k \in B : j = k, A = {} \/ B = {}
        PROVE  \A j, k \in C : j = k
    BY <1>1, <1>5
  <1> QED BY <1>3, <1>4, <1>5 DEF None, AtMostOne, A, B, C

LEMMA MarksOfNothing == ASSUME NEW M PROVE None(<<>>, M) /\ AtMostOne(<<>>, M)
  BY DEF None, AtMostOne, At

LEMMA MarksOfOne ==
  ASSUME NEW m, NEW M
  PROVE  AtMostOne(<<m>>, M) /\ (None(<<m>>, M) <=> m \notin M)
  <1>1. Len(<<m>>) = 1 /\ <<m>>[1] = m
    OBVIOUS
  <1>2. At(<<m>>, M) = {k \in {1} : m \in M}
    BY <1>1 DEF At
  <1> QED BY <1>2 DEF None, AtMostOne

(* A stream cut in two. *)
LEMMA Cut ==
  ASSUME NEW T, NEW q \in Seq(T), NEW n \in 0 .. Len(q)
  PROVE  /\ SubSeq(q, 1, n) \in Seq(T) /\ SubSeq(q, n + 1, Len(q)) \in Seq(T)
         /\ q = SubSeq(q, 1, n) \o SubSeq(q, n + 1, Len(q))
  <1>1. Len(q) \in Nat /\ \A i \in 1 .. Len(q) : q[i] \in T
    BY LenProperties, ElementOfSeq
  <1>2. /\ SubSeq(q, 1, n) \in Seq(T) /\ SubSeq(q, n + 1, Len(q)) \in Seq(T)
    <2>1. /\ 1 \in Int /\ n \in Int /\ n + 1 \in Int /\ Len(q) \in Int
          /\ \A i \in 1 .. n : q[i] \in T
          /\ \A i \in n + 1 .. Len(q) : q[i] \in T
      BY <1>1
    <2> QED BY <2>1, SubSeqProperties
  <1>3. 1 \in 1 .. Len(q) + 1 /\ n \in 1 - 1 .. Len(q) /\ Len(q) \in n .. Len(q)
    BY <1>1
  <1>4. SubSeq(q, 1, n) \o SubSeq(q, n + 1, Len(q)) = SubSeq(q, 1, Len(q))
    BY <1>3, ConcatAdjacentSubSeq
  <1> QED BY <1>2, <1>4, SubSeqFull

LEMMA CutHead ==
  ASSUME NEW T, NEW q \in Seq(T), q # <<>>
  PROVE  Head(q) \in T /\ Tail(q) \in Seq(T) /\ q = <<Head(q)>> \o Tail(q)
  <1>1. Head(q) \in T /\ Tail(q) \in Seq(T)
    BY HeadTailProperties
  <1>2. Len(q) \in Nat \ {0}
    BY EmptySeq
  <1>3. SubSeq(q, 1, Len(q)) = <<q[1]>> \o SubSeq(q, 1 + 1, Len(q))
    <2>1. 1 \in 1 .. Len(q) /\ Len(q) \in 1 .. Len(q)
      BY <1>2
    <2> QED BY <2>1, SubSeqRecursiveFirst
  <1>4. Tail(q) = SubSeq(q, 1 + 1, Len(q))
    BY TailIsSubSeq
  <1>5. Head(q) = q[1]
    OBVIOUS
  <1> QED BY <1>1, <1>3, <1>4, <1>5, SubSeqFull

(* A message without which the stream is marked less. *)
LEMMA CutAt ==
  ASSUME NEW T, NEW q \in Seq(T), NEW k \in 1 .. Len(q)
  PROVE  /\ SubSeq(q, 1, k - 1) \in Seq(T) /\ SubSeq(q, k + 1, Len(q)) \in Seq(T)
         /\ q[k] \in T
         /\ q = (SubSeq(q, 1, k - 1) \o <<q[k]>>) \o SubSeq(q, k + 1, Len(q))
  <1>1. Len(q) \in Nat /\ k \in 0 .. Len(q) /\ k - 1 \in 0 .. Len(q) /\ q[k] \in T
    BY LenProperties, ElementOfSeq
  <1>2. SubSeq(q, 1, k) = SubSeq(q, 1, k - 1) \o <<q[k]>>
    <2>1. 1 \in 1 .. Len(q) /\ k \in 1 .. Len(q)
      BY <1>1
    <2> QED BY <2>1, SubSeqRecursiveSecond
  <1> QED BY <1>1, <1>2, Cut

LEMMA WithoutMarks ==
  ASSUME NEW T, NEW q \in Seq(T), NEW M, None(q, M)
  PROVE  q \in Seq(T \ M)
  <1>1. \A k \in 1 .. Len(q) : q[k] \in T \ M
    BY ElementOfSeq DEF None, At
  <1>2. Len(q) \in Nat /\ q \in [1 .. Len(q) -> T]
    BY LenProperties
  <1>3. q \in [1 .. Len(q) -> T \ M]
    BY <1>1, <1>2
  <1> QED BY <1>2, <1>3, SeqDef

-----------------------------------------------------------------------------
(* What clients make of several lines. *)

AnswerLines == [line : Answers]

LEMMA AnswerOrNot ==
  ASSUME NEW m \in ServerLines PROVE m.line \in Answers <=> m \in AnswerLines
  BY DEF ServerLines, PlainLines, StateLines, PlayerLines, LeftLines, AnswerLines, Answers,
         Spoken

LEMMA LineKeeps ==
  ASSUME NEW c \in Clients, NEW m \in ServerLines
  PROVE  /\ HandleServerLine(c, m, MaxPlayers) \in Clients
         /\ HandleServerLine(c, m, MaxPlayers).name_input = c.name_input
         /\ HandleServerLine(c, m, MaxPlayers).pending_name = c.pending_name
         /\ HandleServerLine(c, m, MaxPlayers).state_request_sent = c.state_request_sent
  <1> DEFINE d == HandleServerLine(c, m, MaxPlayers)
  <1>1. d \in Clients /\ Learns(c, d, m)
    BY LineTeaches
  <1> HIDE DEF d
  <1>2. /\ d.name_input = c.name_input /\ d.pending_name = c.pending_name
        /\ d.state_request_sent = c.state_request_sent
    BY <1>1 DEF Learns
  <1> QED BY <1>1, <1>2 DEF d

LEMMA LinesTeach ==
  ASSUME NEW c \in Clients, NEW lines \in Seq(ServerLines), NEW d, d = Believes(c, lines)
  PROVE  /\ d \in Clients
         /\ d.name_input = c.name_input /\ d.pending_name = c.pending_name
         /\ d.state_request_sent = c.state_request_sent
  <1> DEFINE S == {x \in Clients : /\ x.name_input = c.name_input
                                   /\ x.pending_name = c.pending_name
                                   /\ x.state_request_sent = c.state_request_sent}
  <1>1. c \in S
    OBVIOUS
  <1>2. \A x \in S : \A m \in ServerLines : HandleServerLine(x, m, MaxPlayers) \in S
    BY LineKeeps
  <1> HIDE DEF S
  <1>3. Believes(c, lines) \in S
    BY <1>1, <1>2, BelievesWithin
  <1> QED BY <1>3 DEF S

(* A question stays open until the line that answers it. *)
LEMMA LinesAnswer ==
  ASSUME NEW c \in Clients, NEW lines \in Seq(ServerLines)
  PROVE  Believes(c, lines).name_check_pending
            <=> c.name_check_pending /\ None(lines, AnswerLines)
  <1>1. ASSUME NEW x \in Clients, ~x.name_check_pending, NEW q \in Seq(ServerLines)
        PROVE  ~Believes(x, q).name_check_pending
    <2> DEFINE S == {y \in Clients : ~y.name_check_pending}
    <2>1. x \in S
      BY <1>1
    <2>2. \A y \in S : \A m \in ServerLines : HandleServerLine(y, m, MaxPlayers) \in S
      BY LineTeaches DEF Learns
    <2> HIDE DEF S
    <2>3. Believes(x, q) \in S
      BY <2>1, <2>2, BelievesWithin
    <2> QED BY <2>3 DEF S
  <1>2. ASSUME c.name_check_pending, None(lines, AnswerLines)
        PROVE  Believes(c, lines).name_check_pending
    <2> DEFINE S == {y \in Clients : y.name_check_pending}
               T == ServerLines \ AnswerLines
    <2>1. c \in S /\ lines \in Seq(T)
      BY <1>2, WithoutMarks
    <2>2. \A y \in S : \A m \in T : HandleServerLine(y, m, MaxPlayers) \in S
      BY LineTeaches, AnswerOrNot DEF Learns
    <2> HIDE DEF S, T
    <2>3. Believes(c, lines) \in S
      BY <2>1, <2>2, BelievesWithin
    <2> QED BY <2>3 DEF S
  <1>3. ASSUME ~None(lines, AnswerLines)
        PROVE  ~Believes(c, lines).name_check_pending
    <2>1. PICK k \in 1 .. Len(lines) : lines[k] \in AnswerLines
      BY <1>3 DEF None, At
    <2> DEFINE p == SubSeq(lines, 1, k - 1)
               r == SubSeq(lines, k + 1, Len(lines))
               m == lines[k]
    <2>2. /\ p \in Seq(ServerLines) /\ r \in Seq(ServerLines) /\ m \in ServerLines
          /\ lines = (p \o <<m>>) \o r
      BY CutAt
    <2>3. m \in AnswerLines
      BY <2>1
    <2> HIDE DEF p, r, m
    <2>4. <<m>> \in Seq(ServerLines) /\ p \o <<m>> \in Seq(ServerLines)
      BY <2>2
    <2> DEFINE x == Believes(c, p)
               y == HandleServerLine(x, m, MaxPlayers)
    <2>5. Believes(c, lines) = Believes(Believes(c, p \o <<m>>), r)
      <3> DEFINE pm == p \o <<m>>
      <3>1. lines = pm \o r /\ pm \in Seq(ServerLines)
        BY <2>2, <2>4
      <3> HIDE DEF pm
      <3>2. Believes(c, pm \o r) = Believes(Believes(c, pm), r)
        BY <2>2, <3>1, BelievesConcat
      <3> QED BY <3>1, <3>2 DEF pm
    <2>6. Believes(c, p \o <<m>>) = Believes(x, <<m>>)
      <3> DEFINE s == <<m>>
      <3>1. s \in Seq(ServerLines)
        BY <2>4
      <3> HIDE DEF s
      <3>2. Believes(c, p \o s) = Believes(Believes(c, p), s)
        BY <2>2, <3>1, BelievesConcat
      <3> QED BY <3>2 DEF s
    <2>7. Believes(x, <<m>>) = y
      BY BelievesOne
    <2>8. x \in Clients
      BY <2>2, LinesTeach
    <2>9. y \in Clients /\ ~y.name_check_pending
      BY <2>2, <2>3, <2>8, LineTeaches, AnswerOrNot DEF Learns
    <2> HIDE DEF x, y
    <2> QED BY <1>1, <2>2, <2>5, <2>6, <2>7, <2>9
  <1> QED BY <1>1, <1>2, <1>3

(* Two clients that differ in nothing but what they have typed and asked for. *)
Same(c, d) ==
    /\ d.name_registered = c.name_registered /\ d.my_name = c.my_name
    /\ d.joined_match = c.joined_match /\ d.can_attempt_join = c.can_attempt_join
    /\ d.choice_confirmed = c.choice_confirmed /\ d.repick_phase = c.repick_phase
    /\ d.game_over = c.game_over /\ d.match_result = c.match_result
    /\ d.players = c.players

LEMMA SameLine ==
  ASSUME NEW c \in Clients, NEW d \in Clients, Same(c, d), NEW m \in ServerLines,
         m \in AnswerLines => d.pending_name = c.pending_name,
         NEW x, NEW y,
         x = HandleServerLine(c, m, MaxPlayers), y = HandleServerLine(d, m, MaxPlayers)
  PROVE  Same(x, y)
  <1>1. Learns(c, x, m) /\ Learns(d, y, m)
    BY LineTeaches
  <1>2. m.line = "WELCOME" => d.pending_name = c.pending_name
    BY AnswerOrNot DEF Answers
  <1>3. Shows(d, m) = Shows(c, m)
    BY DEF Shows, Same
  <1> QED BY <1>1, <1>2, <1>3 DEF Learns, Same

LEMMA SameLines ==
  ASSUME NEW c \in Clients, NEW d \in Clients, Same(c, d), NEW lines \in Seq(ServerLines),
         None(lines, AnswerLines) \/ d.pending_name = c.pending_name
  PROVE  Same(Believes(c, lines), Believes(d, lines))
  <1>1. CASE None(lines, AnswerLines)
    <2> DEFINE R == {s \in Clients \X Clients : Same(s[1], s[2])}
               T == ServerLines \ AnswerLines
    <2>1. <<c, d>> \in R /\ lines \in Seq(T)
      BY <1>1, WithoutMarks
    <2>2. ASSUME NEW x, NEW y, NEW m \in T, <<x, y>> \in R
          PROVE  <<HandleServerLine(x, m, MaxPlayers), HandleServerLine(y, m, MaxPlayers)>> \in R
      <3>1. x \in Clients /\ y \in Clients /\ Same(x, y)
        BY <2>2
      <3> DEFINE v == HandleServerLine(x, m, MaxPlayers)
                 w == HandleServerLine(y, m, MaxPlayers)
      <3>2. v \in Clients /\ w \in Clients
        BY <3>1, LineTeaches
      <3>3. Same(v, w)
        BY <3>1, SameLine
      <3> HIDE DEF v, w
      <3>4. <<v, w>> \in R
        BY <3>2, <3>3
      <3> QED BY <3>4 DEF v, w
    <2> HIDE DEF R, T
    <2>3. <<Believes(c, lines), Believes(d, lines)>> \in R
      BY <2>1, <2>2, BelievesRelated
    <2> QED BY <2>3 DEF R
  <1>2. CASE d.pending_name = c.pending_name
    <2> DEFINE R == {s \in Clients \X Clients : /\ Same(s[1], s[2])
                                                /\ s[2].pending_name = s[1].pending_name}
    <2>1. <<c, d>> \in R
      BY <1>2
    <2>2. ASSUME NEW x, NEW y, NEW m \in ServerLines, <<x, y>> \in R
          PROVE  <<HandleServerLine(x, m, MaxPlayers), HandleServerLine(y, m, MaxPlayers)>> \in R
      <3>1. x \in Clients /\ y \in Clients /\ Same(x, y) /\ y.pending_name = x.pending_name
        BY <2>2
      <3> DEFINE v == HandleServerLine(x, m, MaxPlayers)
                 w == HandleServerLine(y, m, MaxPlayers)
      <3>2. v \in Clients /\ w \in Clients /\ w.pending_name = v.pending_name
        BY <3>1, LineKeeps
      <3>3. Same(v, w)
        BY <3>1, SameLine
      <3> HIDE DEF v, w
      <3>4. <<v, w>> \in R
        BY <3>2, <3>3
      <3> QED BY <3>4 DEF v, w
    <2> HIDE DEF R
    <2>3. <<Believes(c, lines), Believes(d, lines)>> \in R
      BY <2>1, <2>2, BelievesRelated
    <2> QED BY <2>3 DEF R
  <1> QED BY <1>1, <1>2

-----------------------------------------------------------------------------
(* The session keeps the server calm. *)

LEMMA CalmAtRest ==
  ASSUME Calm, Idle
  PROVE  phase # "SETUP" /\ lagging = {} /\ admitted \subseteq registered
  <1>1. ~Shutting
    BY Tails DEF Idle, Shutting, ClosingStacks
  <1> QED BY <1>1 DEF Calm, Settled, Admitting, Placing

LEMMA SettlesCalmly ==
  ASSUME lagging' = {}, (admitted \subseteq registered)', phase' # "SETUP",
         \/ todo' \in {<<>>, <<Reevaluation>>} \cup TimerStacks \cup NewsStacks
         \/ \E i \in registered' : todo' = <<Admission(i)>>
  PROVE  Calm'
  BY DEF Calm, Settled

LEMMA GetsState ==
  ASSUME TypeOK, Calm, NEW i \in Slots, GetState(i)
  PROVE  SamePeople /\ lagging' = {} /\ todo' = <<>>
  <1>1. PICK lost \in SUBSET ({i} \cap lagging) :
           /\ Queue([j \in {i} |-> StateLine(j)], lost)
           /\ todo' = After(lost)
    BY DEF GetState
  <1>2. lagging = {} /\ lost \in SUBSET (Slots \cap lagging) /\ lost = {}
    BY <1>1, CalmAtRest DEF GetState
  <1>3. lagging' = {} /\ UNCHANGED <<connected, registered, admitted, alive, waiting>>
    BY <1>1, <1>2, NobodyLost
  <1> QED BY <1>1, <1>2, <1>3 DEF After, GetState, match, SamePeople

LEMMA Rematches ==
  ASSUME TypeOK, Calm, NEW i \in Slots, Rematch(i)
  PROVE  /\ phase' = "LOBBY_OPEN" /\ lagging' = {} /\ todo' = <<>> /\ Registered = registered
         /\ admitted' = {} /\ UNCHANGED <<connected, registered>>
  <1>1. lagging = {} /\ admitted \subseteq registered /\ todo = <<>>
    BY CalmAtRest DEF Rematch, Idle
  <1>2. ResetSlots = registered /\ Registered = registered
    BY DEF ResetSlots, Registered, TypeOK
  <1>3. PICK lost \in SUBSET (ResetSlots \cap lagging) :
           /\ connected' = connected \ lost
           /\ registered' = registered \ lost
           /\ lagging' = lagging \ lost
    BY DEF Rematch
  <1>4. lost = {}
    BY <1>1, <1>3
  <1>5. admitted' = admitted \ ResetSlots /\ phase' = "LOBBY_OPEN" /\ UNCHANGED todo
    BY DEF Rematch, ResetProgress, FreshMatch
  <1> QED BY <1>1, <1>2, <1>3, <1>4, <1>5

LEMMA Leaves ==
  ASSUME TypeOK, Calm, NEW i \in Slots, Leave(i)
  PROVE  /\ lagging' = {} /\ phase' = phase
         /\ \/ todo' \in NewsStacks
            \/ i \notin registered /\ todo' = <<Reevaluation>>
         /\ connected' = connected \ {i} /\ registered' = registered \ {i}
         /\ admitted' = admitted \ {i} /\ alive' = alive \ {i} /\ waiting' = waiting \ {i}
  <1>1. lagging = {}
    BY CalmAtRest DEF Leave
  <1>2. /\ connected' = connected \ {i} /\ registered' = registered \ {i}
        /\ admitted' = admitted \ {i} /\ alive' = alive \ {i} /\ waiting' = waiting \ {i}
        /\ lagging' = lagging \ {i} /\ phase' = phase
        /\ todo' = Farewell(i) \o <<Reevaluation>>
    BY DEF Leave, DropLoudly, Queue, match, Reevaluation
  <1>3. CASE i \in registered
    <2> DEFINE a == Broadcast("LEFT")
               T == {a, SnapshotCall, Reevaluation}
    <2>1. /\ <<a, SnapshotCall>> \in Seq(T) /\ <<Reevaluation>> \in Seq(T)
          /\ <<a, SnapshotCall, Reevaluation>> \in Seq(T)
      OBVIOUS
    <2>2. Farewell(i) = <<a, SnapshotCall>>
      BY <1>3 DEF Farewell, SnapshotCall
    <2> DEFINE q == <<a, SnapshotCall>> \o <<Reevaluation>>
               r == <<a, SnapshotCall, Reevaluation>>
    <2>3. /\ q \in Seq(T) /\ Len(q) = 3 /\ q[1] = a /\ q[2] = SnapshotCall
          /\ q[3] = Reevaluation
      BY <2>1
    <2>4. Len(r) = 3 /\ r \in Seq(T) /\ \A k \in 1 .. 3 : q[k] = r[k]
      BY <2>1, <2>3
    <2> HIDE DEF q, r
    <2>5. q = r
      BY <2>3, <2>4, SeqEqual
    <2>6. todo' = r
      BY <1>2, <2>2, <2>5 DEF q
    <2>7. r \in NewsStacks
      BY DEF r, NewsStacks
    <2> QED BY <1>1, <1>2, <2>6, <2>7
  <1>4. CASE i \notin registered
    <2>1. Farewell(i) = <<>> /\ <<Reevaluation>> \in Seq({Reevaluation})
      BY <1>4 DEF Farewell
    <2> QED BY <1>1, <1>2, <1>4, <2>1, ConcatEmptySeq
  <1> QED BY <1>3, <1>4

LEMMA CalmServes ==
  ASSUME TypeOK, Calm, NEW i \in Slots, Serve(i)
  PROVE  Calm'
  <1>1. Idle /\ phase # "SETUP" /\ lagging = {} /\ admitted \subseteq registered /\ todo = <<>>
    BY CalmAtRest DEF Serve, Idle
  <1>2. ASSUME NEW error, Refuse(i, error) PROVE Calm'
    BY <1>1, <1>2, SettlesCalmly DEF Refuse, vars, players, match
  <1>3. ASSUME NEW n, Hello(i) PROVE Calm'
    BY <1>1, <1>3, SettlesCalmly DEF Hello, ResetProgress, match
  <1>4. ASSUME MaySetUp(i), \/ \E c : Choose(i, c)
                            \/ Spawn(i)
        PROVE  Calm'
    <2>1. /\ todo' = <<Admission(i)>> /\ UNCHANGED <<registered, admitted, lagging, phase>>
          /\ i \in registered
      BY <1>4 DEF Choose, Spawn, MaySetUp, Registered, Admission, match
    <2> QED BY <1>1, <2>1, SettlesCalmly
  <1>5. GetState(i) => Calm'
    BY <1>1, GetsState, SettlesCalmly DEF SamePeople
  <1>6. Rematch(i) => Calm'
    BY <1>1, Rematches, SettlesCalmly
  <1>7. Dispatch(i, Head(outbox[i]))
    BY DEF Serve
  <1> QED BY <1>2, <1>3, <1>4, <1>5, <1>6, <1>7
       DEF Dispatch, ServeHello, ServeChoice, ServeSpawn, ServeGetState, ServeRematch

LEMMA CalmLeaves ==
  ASSUME TypeOK, Calm, NEW i \in Slots, ServeQuit(i)
  PROVE  Calm'
  <1>1. Leave(i) /\ phase # "SETUP" /\ admitted \subseteq registered
    BY CalmAtRest DEF ServeQuit, Leave
  <1>2. /\ lagging' = {} /\ phase' = phase
        /\ todo' \in {<<>>, <<Reevaluation>>} \cup TimerStacks \cup NewsStacks
        /\ (admitted \subseteq registered)'
    BY <1>1, Leaves
  <1> QED BY <1>1, <1>2, SettlesCalmly

LEMMA CalmStarts ==
  ASSUME TypeOK, Calm, NEW i \in Slots, Accept(i)
  PROVE  Calm'
  <1>1. phase # "SETUP" /\ lagging = {} /\ admitted \subseteq registered /\ todo = <<>>
    BY CalmAtRest DEF Accept, Idle
  <1>2. /\ lagging' = {} /\ (admitted \subseteq registered)' /\ phase' = phase /\ todo' = todo
    BY <1>1 DEF Accept, ResetProgress, match
  <1> QED BY <1>1, <1>2, SettlesCalmly

LEMMA CalmTicks ==
  ASSUME TypeOK, Calm, Timers \/ JoinWindowEnds
  PROVE  /\ Calm' /\ todo = <<>> /\ todo' \in TimerStacks \cup {<<>>} /\ SamePeople
  <1>1. phase # "SETUP" /\ lagging = {} /\ admitted \subseteq registered /\ todo = <<>>
    BY CalmAtRest DEF Timers, JoinWindowEnds, Idle
  <1>2. SamePeople /\ lagging' = lagging
    BY DEF Timers, JoinWindowEnds, players, match, SamePeople
  <1>3. todo' \in TimerStacks \cup {<<>>}
    BY <1>1 DEF Timers, JoinWindowEnds, TimerStacks, ExpireCall, ChaseCall
  <1> QED BY <1>1, <1>2, <1>3, SettlesCalmly DEF SamePeople

LEMMA CalmInit == SInit => Calm
  BY DEF SInit, Init, Calm, Settled

LEMMA CalmNext == TypeOK /\ IInv /\ Calm /\ [SNext]_svars => Calm'
  <1> SUFFICES ASSUME TypeOK, IInv, Calm, [SNext]_svars PROVE Calm'
    OBVIOUS
  <1>1. UNCHANGED vars => Calm'
    BY DEF Calm, Settled, Admitting, Shutting, Placing, Admitted, vars, players, match
  <1>2. CASE Handle
    BY <1>2, CalmSteps DEF Handle
  <1>3. CASE Tick
    BY <1>3, CalmTicks DEF Tick
  <1>4. ASSUME NEW i \in Slots,
               \/ Serve(i) \/ ServeQuit(i) \/ Start(i) \/ Iterate(i) \/ Stop(i)
               \/ PressHello(i) \/ PressChoice(i) \/ PressSpawn(i) \/ PressRematch(i)
        PROVE  Calm'
    <2>1. CASE Serve(i)
      BY <2>1, CalmServes
    <2>2. CASE ServeQuit(i)
      BY <2>2, CalmLeaves
    <2>3. CASE Start(i)
      BY <2>3, CalmStarts DEF Start
    <2>4. CASE Iterate(i) \/ Stop(i)
      BY <1>1, <2>4 DEF Iterate, Stop
    <2>5. CASE PressHello(i) \/ PressChoice(i) \/ PressSpawn(i) \/ PressRematch(i)
      BY <1>1, <2>5 DEF PressHello, PressChoice, PressSpawn, PressRematch, Press
    <2> QED BY <1>4, <2>1, <2>2, <2>3, <2>4, <2>5
  <1>5. CASE UNCHANGED svars
    BY <1>1, <1>5 DEF svars
  <1> QED BY <1>2, <1>3, <1>4, <1>5 DEF SNext

-----------------------------------------------------------------------------
(* The types of the session. *)

Quits == [cmd : {"QUIT"}]

(* The last two make SessionTypeOK inductive: who runs has not said QUIT, and
   has a name to say HELLO with. *)
SessionOK ==
    /\ name \in [Slots -> SomeName] /\ tile \in [Slots -> Tiles \cup {NoTile}]
    /\ leaving \in SomeName
    /\ client \in [Slots -> Clients]
    /\ inbox \in [Slots -> Seq(ServerLines)] /\ outbox \in [Slots -> Seq(Commands)]
    /\ auto_join \in [Slots -> AutoJoinConfigs]
    /\ \A i \in Slots : auto_join[i].enabled => /\ auto_join[i].choice \in Picks
                                                /\ auto_join[i].tile \in Tiles
    /\ \A i \in Slots : i \in Registered <=> name[i] # NoName
    /\ running \subseteq connected
    /\ \A i \in running : client[i].name_input \in Names /\ None(outbox[i], Quits)

LEMMA NamesAreNames == NoName \notin Names
  BY SessionAssumption

LEMMA RosterType ==
  ASSUME TypeOK, SessionOK
  PROVE  /\ \A i \in Registered : i \in Slots /\ name[i] \in Names
         /\ \A i : Life(i) \in Lives
         /\ \A i \in Registered : Entry(name[i], Life(i)) \in Entries
         /\ Roster \in SUBSET Entries
  <1>1. \A i \in Registered : i \in Slots /\ name[i] \in Names
    BY DEF TypeOK, Registered, SessionOK, SomeName
  <1>2. \A i : Life(i) \in Lives
    BY DEF Life, Lives
  <1>3. \A i \in Registered : Entry(name[i], Life(i)) \in Entries
    BY <1>1, <1>2 DEF Entry, Entries
  <1>4. Admitted \subseteq Registered
    BY DEF Admitted, Registered
  <1> QED BY <1>1, <1>2, <1>3, <1>4 DEF Roster

LEMMA VerdictStage ==
  ASSUME NEW i \in Registered
  PROVE  /\ Verdict(i) = IF WonMatch(i) THEN "WIN" ELSE IF i \in Admitted THEN "LOSE"
                         ELSE "GAME_OVER"
         /\ Verdict(i) \in {"WIN", "LOSE", "GAME_OVER"}
  BY DEF Verdict

LEMMA SnapshotType ==
  ASSUME TypeOK, SessionOK, NEW i
  PROVE  SnapshotFor(i) \in StateLines
  <1> DEFINE p == IF phase = "GAME_OVER" /\ i \notin Registered THEN "" ELSE StateLine(i)
  <1>1. phase \in Phases
    BY DEF TypeOK
  <1>2. CASE phase = "GAME_OVER"
    <2>1. i \in Registered => p = Verdict(i) /\ Verdict(i) \in {"WIN", "LOSE", "GAME_OVER"}
      BY <1>2, VerdictStage DEF StateLine
    <2>2. i \notin Registered => p = ""
      BY <1>2
    <2> QED BY <2>1, <2>2, RosterType DEF SnapshotFor, StateLines, Stages
  <1>3. CASE phase # "GAME_OVER"
    <2>1. p = StateLine(i) /\ StateLine(i) \in {"LOBBY_WAITING", "LOBBY_OPEN", "SETUP_OPEN",
                                                "ROUND_START"}
      BY <1>1, <1>3 DEF StateLine, LobbyLine, Phases
    <2> QED BY <2>1, RosterType DEF SnapshotFor, StateLines, Stages
  <1> QED BY <1>2, <1>3

LEMMA LineTypes ==
  /\ \A l \in Spoken : Line(l) \in ServerLines
  /\ StateLines \subseteq ServerLines
  /\ \A m \in ServerLines : <<m>> \in Seq(ServerLines)
  /\ \A l, m \in ServerLines : <<l, m>> \in Seq(ServerLines)
  /\ <<>> \in Seq(ServerLines)
  <1>1. \A l \in Spoken : Line(l) \in PlainLines
    BY DEF Line, PlainLines
  <1>2. PlainLines \subseteq ServerLines /\ StateLines \subseteq ServerLines
    BY DEF ServerLines
  <1> QED BY <1>1, <1>2

-----------------------------------------------------------------------------
(* What is heard of a call. *)

(* Everybody hears that one line. *)
Says(m) == \A i \in Slots : Said(i) = IF i \in connected THEN <<m>> ELSE <<>>

Quietly == \A i \in Slots : Said(i) = <<>>

LEMMA SecondOnTop ==
  ASSUME NEW T, NEW a \in T, NEW b \in T, NEW rest \in Seq(T)
  PROVE  (<<a, b>> \o rest)[2] = b
  <1> DEFINE top == <<a, b>>
  <1>1. top \in Seq(T) /\ Len(top) = 2 /\ top[2] = b
    OBVIOUS
  <1> HIDE DEF top
  <1>2. Len(rest) \in Nat
    BY LenProperties
  <1>3. \A j \in 1 .. Len(top) + Len(rest) :
           (top \o rest)[j] = IF j <= Len(top) THEN top[j] ELSE rest[j - Len(top)]
    BY <1>1, ConcatProperties
  <1>4. Len(top) \in 1 .. Len(top) + Len(rest) /\ Len(top) <= Len(top)
    BY <1>1, <1>2
  <1>5. (top \o rest)[Len(top)] = top[Len(top)]
    BY <1>3, <1>4
  <1>6. (top \o rest)[2] = b
    BY <1>1, <1>5
  <1> QED BY <1>6 DEF top

LEMMA AnnouncementIsHeard ==
  ASSUME TypeOK, NEW line, Announces(line)
  PROVE  \/ line \in Unheeded /\ Quietly
         \/ line \in {"LOBBY_OPEN", "LOBBY_CLOSED", "ROUND_START"} /\ Says(Line(line))
         \/ line = "LEFT" /\ Says([line |-> "LEFT", who |-> leaving])
         \/ /\ line = "PLAYER"
            /\ \E k \in Admitted, rest \in Afterwards :
                  /\ todo = <<Broadcast("PLAYER"), Positions(k + 1)>> \o rest
                  /\ todo' = <<Positions(k + 1)>> \o rest
                  /\ Says([line |-> "PLAYER", entry |-> Entry(name[k], Life(k))])
  <1>1. /\ todo # <<>> /\ Head(todo).fn = "queue_broadcast" /\ Head(todo).line = line
        /\ Due(line)
    BY DEF Announces, Broadcast
  <1>2. \A l : BroadcastOf(l) <=> line = l
    BY <1>1 DEF BroadcastOf, Running
  <1>3. \A i \in Slots : Said(i) = IF i \in connected /\ line \notin Unheeded
                                   THEN <<BroadcastLine>> ELSE <<>>
    BY <1>1 DEF Said
  <1>4. CASE line \in Unheeded
    BY <1>3, <1>4 DEF Quietly
  <1>5. CASE line \in {"LOBBY_OPEN", "LOBBY_CLOSED", "ROUND_START"}
    <2>1. BroadcastLine = Line(line) /\ line \notin Unheeded
      BY <1>1, <1>2, <1>5 DEF BroadcastLine, Unheeded
    <2> QED BY <1>3, <1>5, <2>1 DEF Says
  <1>6. CASE line = "LEFT"
    <2>1. BroadcastLine = [line |-> "LEFT", who |-> leaving] /\ line \notin Unheeded
      BY <1>1, <1>2, <1>6 DEF BroadcastLine, Unheeded
    <2> QED BY <1>3, <1>6, <2>1 DEF Says
  <1>7. CASE line = "PLAYER"
    <2>1. PICK k \in Admitted, rest \in Afterwards :
             /\ todo = <<Broadcast("PLAYER"), Positions(k + 1)>> \o rest
             /\ todo' = <<Positions(k + 1)>> \o rest
      BY <1>1, <1>7 DEF Due
    <2>2. todo[2] = Positions(k + 1)
      <3>1. k + 1 \in 0 .. MaxPlayers
        BY MatchServerAssumption DEF TypeOK, Admitted, Slots
      <3>2. Broadcast("PLAYER") \in Calls /\ Positions(k + 1) \in Calls /\ rest \in Seq(Calls)
        BY <3>1, AfterwardsTypes DEF Broadcast, Calls, Lines
      <3> QED BY <2>1, <3>2, SecondOnTop
    <2>3. todo[2].slot - 1 = k
      <3>1. k \in Int
        BY MatchServerAssumption DEF TypeOK, Admitted, Slots
      <3> QED BY <2>2, <3>1 DEF Positions, CallOn
    <2>4. BroadcastLine = [line |-> "PLAYER", entry |-> Entry(name[k], Life(k))]
          /\ line \notin Unheeded
      BY <1>2, <1>7, <2>3 DEF BroadcastLine, Unheeded
    <2>5. Says([line |-> "PLAYER", entry |-> Entry(name[k], Life(k))])
      BY <1>3, <2>4 DEF Says
    <2> QED BY <1>7, <2>1, <2>5
  <1> QED BY <1>1, <1>4, <1>5, <1>6, <1>7 DEF Due, Unheeded

LEMMA SnapshotIsHeard ==
  ASSUME Snapshots
  PROVE  \A i \in Slots : Said(i) = IF i \in Registered THEN <<SnapshotFor(i)>> ELSE <<>>
  <1>1. Head(todo).fn = "broadcast_game_state"
    BY DEF Snapshots, SnapshotCall, Call
  <1> QED BY <1>1 DEF Said

LEMMA AdmissionIsHeard ==
  ASSUME NEW i \in Slots, Considers(i)
  PROVE  /\ \A j \in Slots : j # i => Said(j) = <<>>
         /\ Said(i) \in {<<>>, <<Line("ERROR lobby_closed")>>}
  <1>1. Head(todo) = Admission(i)
    BY Tails DEF Considers
  <1>2. Head(todo).fn = "maybe_admit_player" /\ Head(todo).slot = i
    BY <1>1 DEF Admission, CallOn
  <1> QED BY <1>2 DEF Said

LEMMA AdmittedIsHeard ==
  ASSUME NEW i \in Slots, Admits(i)
  PROVE  /\ \A j \in Slots : j # i => Said(j) = <<>>
         /\ Said(i) = <<Line("JOINED_MATCH")>>
  <1>1. Head(todo) = AdmissionTail(i)
    BY Tails DEF Admits
  <1>2. Head(todo).fn = "maybe_admit_player.tail" /\ Head(todo).slot = i
    BY <1>1 DEF AdmissionTail, CallOn
  <1> QED BY <1>2 DEF Said

LEMMA EndIsHeard ==
  ASSUME Ends
  PROVE  \A i \in Slots : Said(i) = IF i \in Registered THEN <<Line(Verdict(i))>> ELSE <<>>
  <1>1. Head(todo).fn \in {"close_lobby_if_needed.tail", "reevaluate_state"}
    BY DEF Ends, TailCall, Reevaluation, Call
  <1>2. phase # phase' /\ phase' = "GAME_OVER"
    BY DEF Ends
  <1> QED BY <1>1, <1>2 DEF Said

LEMMA RestIsQuiet ==
  ASSUME TypeOK, Shuts \/ Begins \/ Catches \/ Places \/ Passes
  PROVE  Quietly
  <1>1. /\ phase' # phase => phase' # "GAME_OVER"
        /\ Head(todo).fn \notin {"queue_broadcast", "broadcast_game_state",
                                 "maybe_admit_player", "maybe_admit_player.tail"}
    <2>1. CASE Shuts
      BY <2>1, Tails DEF Shuts, Call
    <2>2. CASE Begins
      BY <2>2, Tails DEF Begins, TailCall, Call
    <2>3. CASE Catches
      BY <2>3, Tails DEF Catches, ChaseCall, Call
    <2>4. CASE Places
      <3>1. PICK k \in 0 .. MaxPlayers, rest \in Afterwards :
               todo = <<Positions(k)>> \o rest /\ SamePeople
        BY <2>4 DEF Places
      <3>2. Head(todo) = Positions(k)
        BY <3>1, AfterwardsTypes, OneOnTop
      <3> QED BY <3>1, <3>2 DEF Positions, CallOn, SamePeople
    <2>5. CASE Passes
      BY <2>5 DEF Passes, Reevaluation, ExpireCall, ChaseCall, Call, SamePeople
    <2> QED BY <2>1, <2>2, <2>3, <2>4, <2>5
  <1> QED BY <1>1 DEF Quietly, Said

-----------------------------------------------------------------------------
(* SessionOK is inductive. *)

LEMMA CalmPeople == CalmMove => UNCHANGED <<connected, registered>>
  BY DEF CalmMove, Announces, Snapshots, Shuts, Ends, Begins, Catches, Places, Passes,
         Considers, Admits, SamePeople

(* Nothing, or one line that answers no question. *)
Tidings(q) == q = <<>> \/ \E m \in ServerLines \ AnswerLines : q = <<m>>

LEMMA NoAnswers ==
  /\ {Line(l) : l \in Spoken \ Answers} \subseteq ServerLines \ AnswerLines
  /\ StateLines \cup PlayerLines \cup LeftLines \subseteq ServerLines \ AnswerLines
  <1>1. ASSUME NEW l \in Spoken \ Answers PROVE Line(l) \in ServerLines \ AnswerLines
    <2>1. Line(l).line = l
      BY DEF Line
    <2> QED BY <2>1, LineTypes, AnswerOrNot
  <1>2. \A m \in StateLines \cup PlayerLines \cup LeftLines :
           m \in ServerLines /\ m.line \notin Answers
    BY DEF ServerLines, StateLines, PlayerLines, LeftLines, Answers
  <1> QED BY <1>1, <1>2, AnswerOrNot

LEMMA SaidKinds ==
  ASSUME TypeOK, SessionOK, CalmMove
  PROVE  \A i \in Slots : Tidings(Said(i))
  <1> USE DEF Tidings
  <1>1. ASSUME NEW m \in ServerLines \ AnswerLines, Says(m)
        PROVE  \A i \in Slots : Tidings(Said(i))
    BY <1>1 DEF Says
  <1>2. CASE Quietly
    BY <1>2 DEF Quietly
  <1>3. ASSUME NEW line, Announces(line)
        PROVE  \A i \in Slots : Tidings(Said(i))
    <2>1. CASE line \in {"LOBBY_OPEN", "LOBBY_CLOSED", "ROUND_START"} /\ Says(Line(line))
      <3>1. line \in Spoken \ Answers
        BY <2>1 DEF Spoken, Answers
      <3> QED BY <1>1, <2>1, <3>1, NoAnswers
    <2>2. CASE Says([line |-> "LEFT", who |-> leaving])
      <3>1. [line |-> "LEFT", who |-> leaving] \in LeftLines
        BY DEF SessionOK, LeftLines
      <3> QED BY <1>1, <2>2, <3>1, NoAnswers
    <2>3. ASSUME NEW k \in Admitted,
                 Says([line |-> "PLAYER", entry |-> Entry(name[k], Life(k))])
          PROVE  \A i \in Slots : Tidings(Said(i))
      <3>1. Entry(name[k], Life(k)) \in Entries
        BY RosterType DEF Admitted, Registered
      <3>2. [line |-> "PLAYER", entry |-> Entry(name[k], Life(k))] \in PlayerLines
        BY <3>1 DEF PlayerLines
      <3> QED BY <1>1, <2>3, <3>2, NoAnswers
    <2> QED BY <1>2, <1>3, <2>1, <2>2, <2>3, AnnouncementIsHeard
  <1>4. CASE Snapshots
    <2>1. \A i \in Slots : SnapshotFor(i) \in ServerLines \ AnswerLines
      BY SnapshotType, NoAnswers
    <2> QED BY <1>4, <2>1, SnapshotIsHeard
  <1>5. CASE Ends
    <2>1. \A i \in Registered : Verdict(i) \in Spoken \ Answers
      BY VerdictStage DEF Spoken, Answers
    <2> QED BY <1>5, <2>1, EndIsHeard, NoAnswers
  <1>6. ASSUME NEW i \in Slots, Considers(i) \/ Admits(i)
        PROVE  \A j \in Slots : Tidings(Said(j))
    <2>1. "ERROR lobby_closed" \in Spoken \ Answers /\ "JOINED_MATCH" \in Spoken \ Answers
      BY DEF Spoken, Answers
    <2> QED BY <1>6, <2>1, AdmissionIsHeard, AdmittedIsHeard, NoAnswers
  <1>7. CASE Shuts \/ Begins \/ Catches \/ Places \/ Passes
    BY <1>2, <1>7, RestIsQuiet
  <1> QED BY <1>3, <1>4, <1>5, <1>6, <1>7 DEF CalmMove

LEMMA TidingsType ==
  ASSUME NEW q, Tidings(q) PROVE q \in Seq(ServerLines) /\ None(q, AnswerLines)
  <1>1. CASE q = <<>>
    BY <1>1, LineTypes, MarksOfNothing
  <1>2. ASSUME NEW m \in ServerLines \ AnswerLines, q = <<m>>
        PROVE  q \in Seq(ServerLines) /\ None(q, AnswerLines)
    <2>1. m \in ServerLines /\ m \notin AnswerLines
      OBVIOUS
    <2>2. <<m>> \in Seq(ServerLines)
      BY <2>1, LineTypes
    <2>3. None(<<m>>, AnswerLines)
      BY <2>1, MarksOfOne
    <2> QED BY <1>2, <2>2, <2>3
  <1> QED BY <1>1, <1>2 DEF Tidings

LEMMA SaidType ==
  ASSUME TypeOK, SessionOK, CalmMove
  PROVE  \A i \in Slots : Said(i) \in Seq(ServerLines) /\ None(Said(i), AnswerLines)
  BY SaidKinds, TidingsType

LEMMA PutLines ==
  ASSUME SessionOK, NEW said, Put(said),
         \A i \in running \cap DOMAIN said : said[i] \in Seq(ServerLines)
  PROVE  /\ inbox' \in [Slots -> Seq(ServerLines)]
         /\ \A i \in Slots : inbox'[i] = IF i \in running /\ i \in DOMAIN said
                                         THEN inbox[i] \o said[i] ELSE inbox[i]
  <1>1. inbox' = [i \in Slots |-> IF i \in running /\ i \in DOMAIN said
                                  THEN inbox[i] \o said[i] ELSE inbox[i]]
    BY DEF Put
  <1>2. \A i \in Slots : i \in running /\ i \in DOMAIN said =>
                            inbox[i] \o said[i] \in Seq(ServerLines)
    BY ConcatProperties DEF SessionOK
  <1> QED BY <1>1, <1>2 DEF SessionOK

(* The server and its streams move, the clients do not. *)
LEMMA ServerTypes ==
  ASSUME SessionOK, UNCHANGED <<running, client, auto_join>>,
         inbox' \in [Slots -> Seq(ServerLines)], outbox' \in [Slots -> Seq(Commands)],
         name' \in [Slots -> SomeName], tile' \in [Slots -> Tiles \cup {NoTile}],
         leaving' \in SomeName, running \subseteq connected',
         \A i \in Slots : i \in Registered' <=> name'[i] # NoName,
         \A i \in running : None(outbox'[i], Quits)
  PROVE  SessionOK'
  <1>1. \A i \in running : client[i].name_input \in Names
    BY DEF SessionOK
  <1>2. \A i \in running' : client'[i].name_input \in Names /\ None(outbox'[i], Quits)
    BY <1>1
  <1> QED BY <1>2 DEF SessionOK

LEMMA HandleTypes ==
  ASSUME TypeOK, IInv, Calm, SessionOK, Handle
  PROVE  SessionOK'
  <1>1. CalmMove /\ UNCHANGED <<connected, registered>>
    BY CalmSteps, CalmPeople DEF Handle
  <1> DEFINE said == [i \in Slots |-> Said(i)]
  <1>2. \A i \in running \cap DOMAIN said : said[i] \in Seq(ServerLines)
    BY <1>1, SaidType
  <1>3. Put(said)
    BY DEF Handle
  <1> HIDE DEF said
  <1>4. inbox' \in [Slots -> Seq(ServerLines)]
    BY <1>2, <1>3, PutLines
  <1>5. /\ name' = [i \in Slots |-> IF i \in connected' THEN name[i] ELSE NoName]
        /\ tile' = [i \in Slots |-> IF i \in connected' THEN tile[i] ELSE NoTile]
    BY DEF Handle, ForgetDropped
  <1>6. name' \in [Slots -> SomeName] /\ tile' \in [Slots -> Tiles \cup {NoTile}]
    BY <1>5 DEF SessionOK, SomeName
  <1>7. \A i \in Slots : i \in Registered' <=> name'[i] # NoName
    BY <1>1, <1>5 DEF SessionOK, Registered
  <1>8. leaving' \in SomeName /\ UNCHANGED <<running, client, auto_join, outbox>>
    BY DEF Handle, SessionOK, SomeName
  <1>9. \A i \in running : None(outbox'[i], Quits)
    BY <1>8 DEF SessionOK
  <1>10. running \subseteq connected' /\ outbox' \in [Slots -> Seq(Commands)]
    BY <1>1, <1>8 DEF SessionOK
  <1> QED BY <1>4, <1>6, <1>7, <1>8, <1>9, <1>10, ServerTypes

LEMMA StatusStage == LobbyStatus \in {"LOBBY_WAITING", "LOBBY_OPEN", "LOBBY_CLOSED"}
  BY DEF LobbyStatus, LobbyLine

LEMMA CommandFields ==
  ASSUME NEW m \in Commands
  PROVE  /\ m.cmd = "HELLO" => m.name \in Names
         /\ m.cmd = "CHOICE" => m.choice \in Picks
         /\ m.cmd = "SPAWN" => m.tile \in Tiles
         /\ m.cmd = "QUIT" <=> m \in Quits
         /\ m.cmd \in {"HELLO", "CHOICE", "SPAWN", "GET_STATE", "REMATCH", "QUIT"}
  BY DEF Commands, Quits

(* The replies to a command. *)
LEMMA ReplyLines ==
  ASSUME SessionOK, NEW i \in Slots, NEW lines \in Seq(ServerLines), Reply(i, lines)
  PROVE  /\ inbox' \in [Slots -> Seq(ServerLines)]
         /\ \A j \in Slots : j # i => inbox'[j] = inbox[j]
         /\ i \in running => inbox'[i] = inbox[i] \o lines
  <1> DEFINE said == [j \in {i} |-> lines]
  <1>1. DOMAIN said = {i} /\ said[i] = lines /\ Put(said)
    BY DEF Reply
  <1> HIDE DEF said
  <1>2. /\ inbox' \in [Slots -> Seq(ServerLines)]
        /\ \A j \in Slots : inbox'[j] = IF j \in running /\ j \in DOMAIN said
                                        THEN inbox[j] \o said[j] ELSE inbox[j]
    BY <1>1, PutLines
  <1> QED BY <1>1, <1>2

(* What is left of a stream whose first command has been served. *)
LEMMA ServedStream ==
  ASSUME TypeOK, SessionOK, NEW i \in Slots, outbox[i] # <<>>,
         outbox' = [outbox EXCEPT ![i] = Tail(@)]
  PROVE  /\ outbox' \in [Slots -> Seq(Commands)] /\ outbox'[i] = Tail(outbox[i])
         /\ \A j \in Slots : j # i => outbox'[j] = outbox[j]
         /\ \A j \in running : None(outbox'[j], Quits)
         /\ Head(outbox[i]) \in Commands
         /\ Tail(outbox[i]) \in Seq(Commands)
         /\ outbox[i] = <<Head(outbox[i])>> \o Tail(outbox[i])
  <1> DEFINE q == outbox[i]
             m == Head(q)
             r == Tail(q)
  <1>1. q \in Seq(Commands) /\ q # <<>>
    BY DEF SessionOK
  <1>2. m \in Commands /\ r \in Seq(Commands) /\ q = <<m>> \o r
    BY <1>1, CutHead
  <1>3. outbox' = [outbox EXCEPT ![i] = r]
    OBVIOUS
  <1> HIDE DEF q, m, r
  <1>4. /\ outbox' \in [Slots -> Seq(Commands)] /\ outbox'[i] = r
        /\ \A j \in Slots : j # i => outbox'[j] = outbox[j]
    BY <1>2, <1>3 DEF SessionOK
  <1>5. None(q, Quits) => None(r, Quits)
    <2>1. <<m>> \in Seq(Commands)
      BY <1>2
    <2> QED BY <1>2, <2>1, MarksOfConcat
  <1>6. \A j \in running : j \in Slots /\ None(outbox[j], Quits)
    BY DEF SessionOK, TypeOK
  <1>7. \A j \in running : None(outbox'[j], Quits)
    BY <1>4, <1>5, <1>6 DEF q
  <1> QED BY <1>2, <1>4, <1>7 DEF q, m, r

LEMMA ServeTypes ==
  ASSUME TypeOK, Calm, SessionOK, NEW i \in Slots, Serve(i)
  PROVE  SessionOK'
  <1> DEFINE m == Head(outbox[i])
  <1>1. /\ outbox' \in [Slots -> Seq(Commands)]
        /\ \A j \in running : None(outbox'[j], Quits)
        /\ m \in Commands
    BY ServedStream DEF Serve
  <1>2. UNCHANGED <<leaving, running, client, auto_join>> /\ Dispatch(i, m)
    BY DEF Serve
  <1> HIDE DEF m
  <1>3. ASSUME NEW lines \in Seq(ServerLines), Reply(i, lines),
               UNCHANGED <<connected, registered, name>>,
               tile' \in [Slots -> Tiles \cup {NoTile}]
        PROVE  SessionOK'
    <2>1. inbox' \in [Slots -> Seq(ServerLines)]
      BY <1>3, ReplyLines
    <2>2. \A j \in Slots : j \in Registered' <=> name'[j] # NoName
      BY <1>3 DEF SessionOK, Registered
    <2> QED BY <1>1, <1>2, <1>3, <2>1, <2>2, ServerTypes DEF SessionOK
  <1>4. ASSUME NEW l \in Spoken, Refuse(i, l)
        PROVE  SessionOK'
    <2>1. <<Line(l)>> \in Seq(ServerLines)
      BY LineTypes
    <2>2. Reply(i, <<Line(l)>>) /\ UNCHANGED <<connected, registered, name, tile>>
      BY <1>4 DEF Refuse, vars, players
    <2> HIDE <1>4
    <2> QED BY <1>3, <2>1, <2>2 DEF SessionOK
  <1>5. SetUpError(i) \in Spoken
    BY DEF SetUpError, Spoken
  <1>6. CASE m.cmd = "HELLO" /\ ServeHello(i, m.name)
    <2> DEFINE n == m.name
    <2>1. n \in Names
      BY <1>1, <1>6, CommandFields
    <2>2. CASE Refuse(i, "ERROR already_registered") \/ Refuse(i, "ERROR duplicate_name")
      BY <1>4, <2>2 DEF Spoken
    <2>3. CASE /\ Hello(i)
               /\ name' = [name EXCEPT ![i] = n]
               /\ tile' = [tile EXCEPT ![i] = NoTile]
               /\ Reply(i, <<Line("WELCOME"), Line(LobbyStatus)>>)
      <3>1. <<Line("WELCOME"), Line(LobbyStatus)>> \in Seq(ServerLines)
        BY LineTypes, StatusStage DEF Spoken
      <3>2. inbox' \in [Slots -> Seq(ServerLines)]
        BY <2>3, <3>1, ReplyLines
      <3>3. name' \in [Slots -> SomeName] /\ tile' \in [Slots -> Tiles \cup {NoTile}]
        BY <2>1, <2>3 DEF SessionOK, SomeName
      <3>4. connected' = connected /\ Registered' = Registered \cup {i}
        BY <2>3 DEF Hello, Registered
      <3>5. \A j \in Slots : j \in Registered' <=> name'[j] # NoName
        BY <2>1, <2>3, <3>4, NamesAreNames DEF SessionOK
      <3> HIDE DEF n
      <3> QED BY <1>1, <1>2, <3>2, <3>3, <3>4, <3>5, ServerTypes DEF SessionOK
    <2> QED BY <1>6, <2>2, <2>3 DEF ServeHello
  <1>7. CASE m.cmd = "CHOICE" /\ ServeChoice(i, m.choice)
    <2>1. CASE Refuse(i, SetUpError(i))
      BY <1>4, <1>5, <2>1
    <2>2. CASE Choose(i, m.choice) /\ Reply(i, <<Line("CHOICE_OK")>>) /\ UNCHANGED <<name, tile>>
      <3>1. <<Line("CHOICE_OK")>> \in Seq(ServerLines)
        BY LineTypes DEF Spoken
      <3>2. UNCHANGED <<connected, registered>>
        BY <2>2 DEF Choose
      <3> QED BY <1>3, <2>2, <3>1, <3>2 DEF SessionOK
    <2> QED BY <1>7, <2>1, <2>2 DEF ServeChoice
  <1>8. CASE m.cmd = "SPAWN" /\ ServeSpawn(i, m.tile)
    <2>1. CASE Refuse(i, SetUpError(i)) \/ Refuse(i, "ERROR spawn_taken")
      BY <1>4, <1>5, <2>1 DEF Spoken
    <2>2. CASE /\ Spawn(i)
               /\ tile' = [tile EXCEPT ![i] = m.tile]
               /\ UNCHANGED <<name, inbox>>
      <3>1. m.tile \in Tiles
        BY <1>1, <1>8, CommandFields
      <3>2. tile' \in [Slots -> Tiles \cup {NoTile}] /\ UNCHANGED <<connected, registered>>
        BY <2>2, <3>1 DEF Spawn, SessionOK
      <3>3. \A j \in Slots : j \in Registered' <=> name'[j] # NoName
        BY <2>2, <3>2 DEF SessionOK, Registered
      <3> QED BY <1>1, <1>2, <2>2, <3>2, <3>3, ServerTypes DEF SessionOK
    <2> QED BY <1>8, <2>1, <2>2 DEF ServeSpawn
  <1>9. CASE ServeGetState(i)
    <2>1. <<SnapshotFor(i)>> \in Seq(ServerLines)
      BY SnapshotType, LineTypes
    <2>2. UNCHANGED <<connected, registered, name, tile>> /\ Reply(i, <<SnapshotFor(i)>>)
      BY <1>9, GetsState DEF ServeGetState, SamePeople
    <2> QED BY <1>3, <2>1, <2>2 DEF SessionOK
  <1>10. CASE ServeRematch(i)
    <2>1. CASE Refuse(i, "ERROR rematch_not_available")
      BY <1>4, <2>1 DEF Spoken
    <2>2. CASE /\ Rematch(i)
               /\ tile' = [j \in Slots |-> IF j \in ResetSlots THEN NoTile ELSE tile[j]]
               /\ Put([j \in ResetSlots |-> <<Line("MATCH_RESET")>>])
               /\ UNCHANGED name
      <3> DEFINE said == [j \in ResetSlots |-> <<Line("MATCH_RESET")>>]
      <3>1. \A j \in running \cap DOMAIN said : said[j] \in Seq(ServerLines)
        BY LineTypes DEF Spoken
      <3>2. inbox' \in [Slots -> Seq(ServerLines)]
        <4> HIDE DEF said
        <4>1. Put(said)
          BY <2>2 DEF said
        <4> QED BY <3>1, <4>1, PutLines
      <3>3. tile' \in [Slots -> Tiles \cup {NoTile}]
        BY <2>2 DEF SessionOK
      <3>4. UNCHANGED <<connected, registered>>
        BY <2>2, Rematches
      <3>5. \A j \in Slots : j \in Registered' <=> name'[j] # NoName
        BY <2>2, <3>4 DEF SessionOK, Registered
      <3> QED BY <1>1, <1>2, <2>2, <3>2, <3>3, <3>4, <3>5, ServerTypes DEF SessionOK
    <2> QED BY <1>10, <2>1, <2>2 DEF ServeRematch
  <1> QED BY <1>2, <1>6, <1>7, <1>8, <1>9, <1>10 DEF Dispatch

LEMMA ServeQuitTypes ==
  ASSUME TypeOK, Calm, SessionOK, NEW i \in Slots, ServeQuit(i)
  PROVE  SessionOK' /\ i \notin running
  <1>1. /\ outbox[i] # <<>> /\ Head(outbox[i]).cmd = "QUIT" /\ Leave(i) /\ ForgetDropped
        /\ leaving' = name[i] /\ outbox' = [outbox EXCEPT ![i] = <<>>]
        /\ UNCHANGED <<running, client, auto_join, inbox>>
    BY DEF ServeQuit
  <1>2. i \notin running
    <2>1. Head(outbox[i]) \in Commands /\ Len(outbox[i]) \in Nat /\ Len(outbox[i]) # 0
          /\ Head(outbox[i]) = outbox[i][1]
      BY <1>1, EmptySeq, CutHead DEF SessionOK
    <2>2. Head(outbox[i]) \in Quits
      BY <1>1, <2>1, CommandFields
    <2>3. 1 \in At(outbox[i], Quits)
      BY <2>1, <2>2 DEF At
    <2> QED BY <2>3 DEF SessionOK, None
  <1>3. connected' = connected \ {i} /\ registered' = registered \ {i}
    BY <1>1, Leaves
  <1>4. /\ outbox' \in [Slots -> Seq(Commands)]
        /\ \A j \in running : None(outbox'[j], Quits)
    <2>1. <<>> \in Seq(Commands)
      OBVIOUS
    <2>2. \A j \in running : outbox'[j] = outbox[j]
      BY <1>1, <1>2 DEF SessionOK, TypeOK
    <2> QED BY <1>1, <2>1, <2>2 DEF SessionOK
  <1>5. /\ name' = [j \in Slots |-> IF j \in connected' THEN name[j] ELSE NoName]
        /\ tile' = [j \in Slots |-> IF j \in connected' THEN tile[j] ELSE NoTile]
    BY <1>1 DEF ForgetDropped
  <1>6. /\ name' \in [Slots -> SomeName] /\ tile' \in [Slots -> Tiles \cup {NoTile}]
        /\ leaving' \in SomeName
    BY <1>1, <1>5 DEF SessionOK, SomeName
  <1>7. \A j \in Slots : j \in Registered' <=> name'[j] # NoName
    BY <1>3, <1>5 DEF SessionOK, Registered
  <1> QED BY <1>1, <1>2, <1>3, <1>4, <1>6, <1>7, ServerTypes DEF SessionOK

-----------------------------------------------------------------------------
(* The steps of the clients keep the types. *)

(* One client and its streams move. *)
LEMMA OneSlotMoves ==
  ASSUME TypeOK, SessionOK, NEW i \in Slots,
         NEW c \in Clients, client' = [client EXCEPT ![i] = c],
         NEW q \in Seq(ServerLines), inbox' = [inbox EXCEPT ![i] = q],
         NEW o \in Seq(Commands), outbox' = [outbox EXCEPT ![i] = o],
         NEW a \in AutoJoinConfigs, auto_join' = [auto_join EXCEPT ![i] = a],
         a.enabled => a.choice \in Picks /\ a.tile \in Tiles,
         UNCHANGED fields, Registered' = Registered,
         running' \subseteq running \cup {i}, running' \subseteq connected',
         i \in running' => c.name_input \in Names /\ None(o, Quits)
  PROVE  SessionOK'
  <1>1. /\ client' \in [Slots -> Clients] /\ inbox' \in [Slots -> Seq(ServerLines)]
        /\ outbox' \in [Slots -> Seq(Commands)] /\ auto_join' \in [Slots -> AutoJoinConfigs]
    BY DEF SessionOK
  <1>2. \A j \in Slots : j # i => /\ client'[j] = client[j] /\ outbox'[j] = outbox[j]
                                  /\ auto_join'[j] = auto_join[j]
    BY DEF SessionOK
  <1>3. client'[i] = c /\ outbox'[i] = o /\ auto_join'[i] = a
    BY DEF SessionOK
  <1>4. \A j \in Slots : auto_join'[j].enabled => /\ auto_join'[j].choice \in Picks
                                                  /\ auto_join'[j].tile \in Tiles
    BY <1>2, <1>3 DEF SessionOK
  <1>5. \A j \in running' : client'[j].name_input \in Names /\ None(outbox'[j], Quits)
    BY <1>2, <1>3 DEF SessionOK, TypeOK
  <1>6. /\ name' \in [Slots -> SomeName] /\ tile' \in [Slots -> Tiles \cup {NoTile}]
        /\ leaving' \in SomeName
    BY DEF fields, SessionOK, SomeName
  <1>7. \A j \in Slots : j \in Registered' <=> name'[j] # NoName
    BY DEF fields, SessionOK
  <1> QED BY <1>1, <1>4, <1>5, <1>6, <1>7 DEF SessionOK

Hellos == [cmd : {"HELLO"}, name : Names]

(* The greetings that do not give this name. *)
HellosBut(n) == {m \in Hellos : m.name # n}

(* The stream has been ended with a request of the state. *)
Asks(q) == q # <<>> => q[Len(q)] = GetStateCommand

LEMMA CommandKinds ==
  /\ \A n \in Names : LET m == [cmd |-> "HELLO", name |-> n]
                      IN  /\ m \in Commands \ Quits /\ m \in Hellos
                          /\ \A p : m \in HellosBut(p) <=> p # n
  /\ \A c \in Picks : [cmd |-> "CHOICE", choice |-> c] \in Commands \ (Quits \cup Hellos)
  /\ \A t \in Tiles : [cmd |-> "SPAWN", tile |-> t] \in Commands \ (Quits \cup Hellos)
  /\ GetStateCommand \in Commands \ (Quits \cup Hellos)
  /\ [cmd |-> "REMATCH"] \in Commands \ (Quits \cup Hellos)
  /\ [cmd |-> "QUIT"] \in Commands
  /\ \A p : HellosBut(p) \subseteq Hellos
  <1>1. \A n \in Names : LET m == [cmd |-> "HELLO", name |-> n]
                         IN  /\ m \in Commands \ Quits /\ m \in Hellos
                             /\ \A p : m \in HellosBut(p) <=> p # n
    BY DEF Commands, Quits, Hellos, HellosBut
  <1>2. \A c \in Picks : [cmd |-> "CHOICE", choice |-> c] \in Commands \ (Quits \cup Hellos)
    BY DEF Commands, Quits, Hellos
  <1>3. \A t \in Tiles : [cmd |-> "SPAWN", tile |-> t] \in Commands \ (Quits \cup Hellos)
    BY DEF Commands, Quits, Hellos
  <1>4. /\ GetStateCommand \in Commands \ (Quits \cup Hellos)
        /\ [cmd |-> "REMATCH"] \in Commands \ (Quits \cup Hellos)
        /\ [cmd |-> "QUIT"] \in Commands
    BY DEF Commands, Quits, Hellos, GetStateCommand
  <1> QED BY <1>1, <1>2, <1>3, <1>4 DEF HellosBut

(* A stream without a mark of a kind has none of a narrower kind. *)
LEMMA FewerMarks ==
  ASSUME NEW q, NEW M, NEW N, N \subseteq M, None(q, M) PROVE None(q, N)
  BY DEF None, At

(* One command more. *)
LEMMA OneMore ==
  ASSUME NEW T, NEW q \in Seq(T), NEW m \in T, NEW r, r = q \o <<m>>
  PROVE  /\ r \in Seq(T) /\ r # <<>> /\ r[Len(r)] = m
         /\ r = Append(q, m)
  <1>1. <<m>> \in Seq(T) /\ Len(<<m>>) = 1 /\ <<m>>[1] = m
    OBVIOUS
  <1>2. /\ r \in Seq(T) /\ Len(r) = Len(q) + 1
        /\ \A k \in 1 .. Len(q) + 1 : r[k] = IF k <= Len(q) THEN q[k] ELSE <<m>>[k - Len(q)]
    BY <1>1, ConcatProperties
  <1>3. Len(q) \in Nat
    BY LenProperties
  <1>4. r # <<>> /\ r[Len(r)] = m
    BY <1>1, <1>2, <1>3
  <1>5. r = Append(q, m)
    BY AppendIsConcat
  <1> QED BY <1>2, <1>4, <1>5

LEMMA MarksOfOneMore ==
  ASSUME NEW T, NEW q \in Seq(T), NEW m \in T, NEW r, r = q \o <<m>>, NEW M
  PROVE  /\ None(r, M) <=> None(q, M) /\ m \notin M
         /\ AtMostOne(r, M) <=> AtMostOne(q, M) /\ (None(q, M) \/ m \notin M)
  <1> DEFINE u == <<m>>
  <1>1. u \in Seq(T) /\ r = q \o u
    OBVIOUS
  <1>2. AtMostOne(u, M) /\ (None(u, M) <=> m \notin M)
    BY MarksOfOne
  <1> HIDE DEF u
  <1> QED BY <1>1, <1>2, MarksOfConcat

(* At most one command is at the right place in what an iteration sends. *)
LEMMA Perhaps ==
  ASSUME NEW P, NEW m, P => m \in Commands, NEW q, q = IF P THEN <<m>> ELSE <<>>
  PROVE  /\ q \in Seq(Commands)
         /\ \A M : AtMostOne(q, M) /\ (None(q, M) <=> ~P \/ m \notin M)
  <1>1. CASE P
    <2>1. <<m>> \in Seq(Commands)
      BY <1>1
    <2> QED BY <1>1, <2>1, MarksOfOne
  <1>2. CASE ~P
    <2>1. <<>> \in Seq(Commands)
      OBVIOUS
    <2> QED BY <1>2, <2>1, MarksOfNothing
  <1> QED BY <1>1, <1>2

LEMMA IterationCommands ==
  ASSUME NEW c \in Clients, NEW auto \in AutoJoinConfigs,
         auto.enabled => auto.choice \in Picks /\ auto.tile \in Tiles,
         NEW all, all = IterationSends(auto, c)
  PROVE  /\ all \in Seq(Commands) /\ None(all, Quits)
         /\ AtMostOne(all, Hellos) /\ (None(all, Hellos) <=> ~AutoHello(auto, c))
         /\ None(all, HellosBut(c.name_input))
         /\ HasToSend(auto, c) => all # <<>> /\ all[Len(all)] = GetStateCommand
         /\ ~HasToSend(auto, c) => all = <<>>
  <1> DEFINE hello == [cmd |-> "HELLO", name |-> c.name_input]
             choose == [cmd |-> "CHOICE", choice |-> auto.choice]
             spawn == [cmd |-> "SPAWN", tile |-> auto.tile]
             p == IF AutoHello(auto, c) THEN <<hello>> ELSE <<>>
             q == IF AutoChoice(auto, c) THEN <<choose>> ELSE <<>>
             r == IF AutoSpawn(auto, c) THEN <<spawn>> ELSE <<>>
             s == IF HasToSend(auto, c) THEN <<GetStateCommand>> ELSE <<>>
  <1>1. /\ AutoHello(auto, c) => c.name_input \in Names
        /\ AutoChoice(auto, c) => auto.choice \in Picks
        /\ AutoSpawn(auto, c) => auto.tile \in Tiles
    BY DEF AutoHello, MaySendHello, AutoChoice, AutoSpawn, Clients, SomeName
  <1>2. /\ AutoHello(auto, c) => /\ hello \in Commands \ Quits /\ hello \in Hellos
                                 /\ hello \notin HellosBut(c.name_input)
        /\ AutoChoice(auto, c) => choose \in Commands \ (Quits \cup Hellos)
        /\ AutoSpawn(auto, c) => spawn \in Commands \ (Quits \cup Hellos)
        /\ GetStateCommand \in Commands \ (Quits \cup Hellos)
        /\ HellosBut(c.name_input) \subseteq Hellos
    BY <1>1, CommandKinds
  <1>3. /\ AutoHello(auto, c) => HasToSend(auto, c)
        /\ AutoChoice(auto, c) => HasToSend(auto, c)
        /\ AutoSpawn(auto, c) => HasToSend(auto, c)
    BY DEF HasToSend
  <1>4. all = ((p \o q) \o r) \o s
    BY DEF IterationSends
  <1> HIDE DEF hello, choose, spawn
  <1>5. /\ p \in Seq(Commands)
        /\ \A M : AtMostOne(p, M) /\ (None(p, M) <=> ~AutoHello(auto, c) \/ hello \notin M)
    BY <1>2, Perhaps
  <1>6. /\ q \in Seq(Commands)
        /\ \A M : AtMostOne(q, M) /\ (None(q, M) <=> ~AutoChoice(auto, c) \/ choose \notin M)
    BY <1>2, Perhaps
  <1>7. /\ r \in Seq(Commands)
        /\ \A M : AtMostOne(r, M) /\ (None(r, M) <=> ~AutoSpawn(auto, c) \/ spawn \notin M)
    BY <1>2, Perhaps
  <1>8. /\ s \in Seq(Commands)
        /\ \A M : AtMostOne(s, M)
                  /\ (None(s, M) <=> ~HasToSend(auto, c) \/ GetStateCommand \notin M)
    BY <1>2, Perhaps
  <1> DEFINE pq == p \o q
             pqr == pq \o r
  <1>9. ~HasToSend(auto, c) => all = <<>>
    <2>1. <<>> \o <<>> = <<>>
      BY ConcatEmptySeq
    <2> QED BY <1>3, <1>4, <2>1
  <1>10. HasToSend(auto, c) => all = pqr \o <<GetStateCommand>>
    BY <1>4
  <1>11. all = pqr \o s
    BY <1>4
  <1> HIDE DEF p, q, r, s
  <1>12. pq \in Seq(Commands) /\ pqr \in Seq(Commands)
    BY <1>5, <1>6, <1>7, ConcatProperties
  <1>13. \A M : /\ None(pq, M) <=> None(p, M) /\ None(q, M)
                /\ AtMostOne(pq, M) <=> /\ AtMostOne(p, M) /\ AtMostOne(q, M)
                                        /\ None(p, M) \/ None(q, M)
    BY <1>5, <1>6, MarksOfConcat
  <1> HIDE DEF pq
  <1>14. \A M : /\ None(pqr, M) <=> None(pq, M) /\ None(r, M)
                /\ AtMostOne(pqr, M) <=> /\ AtMostOne(pq, M) /\ AtMostOne(r, M)
                                         /\ None(pq, M) \/ None(r, M)
    BY <1>7, <1>12, MarksOfConcat
  <1> HIDE DEF pqr
  <1>15. all \in Seq(Commands)
    BY <1>8, <1>11, <1>12, ConcatProperties
  <1>16. \A M : /\ None(all, M) <=> None(pqr, M) /\ None(s, M)
                /\ AtMostOne(all, M) <=> /\ AtMostOne(pqr, M) /\ AtMostOne(s, M)
                                         /\ None(pqr, M) \/ None(s, M)
    BY <1>8, <1>11, <1>12, MarksOfConcat
  <1>17. HasToSend(auto, c) => all # <<>> /\ all[Len(all)] = GetStateCommand
    BY <1>2, <1>10, <1>12, OneMore
  <1>18. None(all, Quits)
    BY <1>2, <1>5, <1>6, <1>7, <1>8, <1>13, <1>14, <1>16
  <1>19. None(all, Hellos) <=> ~AutoHello(auto, c)
    BY <1>2, <1>5, <1>6, <1>7, <1>8, <1>13, <1>14, <1>16
  <1>20. AtMostOne(all, Hellos)
    BY <1>2, <1>5, <1>6, <1>7, <1>8, <1>13, <1>14, <1>16
  <1>21. None(all, HellosBut(c.name_input))
    <2>1. None(p, HellosBut(c.name_input))
      BY <1>2, <1>5
    <2>2. /\ AutoChoice(auto, c) => choose \notin HellosBut(c.name_input)
          /\ AutoSpawn(auto, c) => spawn \notin HellosBut(c.name_input)
          /\ GetStateCommand \notin HellosBut(c.name_input)
      BY <1>2
    <2> QED BY <1>6, <1>7, <1>8, <1>13, <1>14, <1>16, <2>1, <2>2
  <1> QED BY <1>9, <1>15, <1>17, <1>18, <1>19, <1>20, <1>21
-----------------------------------------------------------------------------
(* The steps of a client. *)

(* An iteration reads the first of the lines and leaves the rest. *)
LEMMA Iterates ==
  ASSUME SessionOK, NEW i \in Slots, Iterate(i)
  PROVE  \E first \in Seq(ServerLines), rest \in Seq(ServerLines) :
            LET c == Believes(client[i], first)
                auto == auto_join[i]
            IN  /\ inbox[i] = first \o rest
                /\ inbox' = [inbox EXCEPT ![i] = rest]
                /\ outbox' = [outbox EXCEPT ![i] = outbox[i] \o IterationSends(auto, c)]
                /\ client' = [client EXCEPT ![i] = AfterIteration(auto, c)]
                /\ auto_join' = [auto_join EXCEPT ![i] = AutoAfterIteration(auto, c)]
  <1>1. PICK n \in 0 .. Len(inbox[i]) :
           /\ inbox' = [inbox EXCEPT ![i] = SubSeq(inbox[i], n + 1, Len(inbox[i]))]
           /\ outbox' = [outbox EXCEPT
                            ![i] = outbox[i] \o IterationSends(auto_join[i], Read(i, n))]
           /\ client' = [client EXCEPT ![i] = AfterIteration(auto_join[i], Read(i, n))]
           /\ auto_join' = [auto_join EXCEPT
                               ![i] = AutoAfterIteration(auto_join[i], Read(i, n))]
    BY DEF Iterate
  <1> DEFINE first == SubSeq(inbox[i], 1, n)
             rest == SubSeq(inbox[i], n + 1, Len(inbox[i]))
  <1>2. Read(i, n) = Believes(client[i], first)
    BY DEF Read, Believes
  <1>3. inbox[i] \in Seq(ServerLines)
    BY DEF SessionOK
  <1>4. first \in Seq(ServerLines) /\ rest \in Seq(ServerLines) /\ inbox[i] = first \o rest
    BY <1>3, Cut
  <1>5. inbox' = [inbox EXCEPT ![i] = rest]
    BY <1>1
  <1> HIDE DEF first, rest
  <1> QED BY <1>1, <1>2, <1>4, <1>5

(* The client after an iteration is the one before that has asked. *)
LEMMA IteratedClient ==
  ASSUME NEW c \in Clients, NEW auto, NEW d, d = AfterIteration(auto, c)
  PROVE  /\ d \in Clients /\ Same(c, d) /\ d.state_request_sent
         /\ d.name_input = c.name_input
         /\ AutoHello(auto, c) =>
               /\ d.pending_name = c.name_input /\ d.name_check_pending
               /\ ~c.name_check_pending /\ c.name_input \in Names
         /\ ~AutoHello(auto, c) =>
               /\ d.pending_name = c.pending_name
               /\ d.name_check_pending = c.name_check_pending
  <1>1. CASE AutoHello(auto, c)
    <2>1. d = [c EXCEPT !.pending_name = c.name_input, !.name_check_pending = TRUE,
                        !.state_request_sent = TRUE]
      BY <1>1 DEF AfterIteration, SendingHello, Clients
    <2>2. ~c.name_check_pending /\ c.name_input \in Names
      BY <1>1 DEF AutoHello, MaySendHello, Clients, SomeName
    <2> QED BY <1>1, <2>1, <2>2 DEF Clients, Same
  <1>2. CASE ~AutoHello(auto, c)
    <2>1. d = [c EXCEPT !.state_request_sent = TRUE]
      BY <1>2 DEF AfterIteration
    <2> QED BY <1>2, <2>1 DEF Clients, Same
  <1> QED BY <1>1, <1>2

LEMMA IterateTypes ==
  ASSUME TypeOK, SessionOK, NEW i \in Slots, Iterate(i)
  PROVE  SessionOK'
  <1> DEFINE auto == auto_join[i]
  <1>1. PICK first \in Seq(ServerLines), rest \in Seq(ServerLines) :
           LET c == Believes(client[i], first)
           IN  /\ inbox' = [inbox EXCEPT ![i] = rest]
               /\ outbox' = [outbox EXCEPT ![i] = outbox[i] \o IterationSends(auto, c)]
               /\ client' = [client EXCEPT ![i] = AfterIteration(auto, c)]
               /\ auto_join' = [auto_join EXCEPT ![i] = AutoAfterIteration(auto, c)]
    BY Iterates
  <1> DEFINE c == Believes(client[i], first)
             d == AfterIteration(auto, c)
             a == AutoAfterIteration(auto, c)
             s == IterationSends(auto, c)
  <1>2. /\ auto \in AutoJoinConfigs
        /\ auto.enabled => auto.choice \in Picks /\ auto.tile \in Tiles
    BY DEF SessionOK
  <1>3. c \in Clients /\ c.name_input = client[i].name_input
    BY LinesTeach DEF SessionOK
  <1>4. a \in AutoJoinConfigs /\ a.enabled = auto.enabled /\ a.choice = auto.choice
        /\ a.tile = auto.tile
    <2>1. /\ (auto.hello_sent \/ AutoHello(auto, c)) \in BOOLEAN
          /\ (auto.choice_sent \/ AutoChoice(auto, c)) \in BOOLEAN
          /\ (auto.spawn_sent \/ AutoSpawn(auto, c)) \in BOOLEAN
      OBVIOUS
    <2>2. a = [auto EXCEPT !.hello_sent = auto.hello_sent \/ AutoHello(auto, c),
                           !.choice_sent = auto.choice_sent \/ AutoChoice(auto, c),
                           !.spawn_sent = auto.spawn_sent \/ AutoSpawn(auto, c)]
      BY DEF AutoAfterIteration
    <2> HIDE DEF a, c
    <2> QED BY <1>2, <2>1, <2>2 DEF AutoJoinConfigs
  <1>5. s \in Seq(Commands) /\ None(s, Quits)
    BY <1>2, <1>3, IterationCommands
  <1>6. d \in Clients /\ d.name_input = client[i].name_input
    BY <1>3, IteratedClient
  <1>7. UNCHANGED <<vars, fields, running>> /\ i \in running
    BY DEF Iterate
  <1>8. Registered' = Registered /\ running' \subseteq connected'
    BY <1>7 DEF vars, players, Registered, SessionOK
  <1>9. outbox[i] \in Seq(Commands) /\ None(outbox[i], Quits) /\ client[i].name_input \in Names
    BY <1>7 DEF SessionOK
  <1>10. outbox[i] \o s \in Seq(Commands) /\ None(outbox[i] \o s, Quits)
    BY <1>5, <1>9, MarksOfConcat, ConcatProperties
  <1>11. /\ inbox' = [inbox EXCEPT ![i] = rest] /\ outbox' = [outbox EXCEPT ![i] = outbox[i] \o s]
         /\ client' = [client EXCEPT ![i] = d] /\ auto_join' = [auto_join EXCEPT ![i] = a]
    BY <1>1
  <1> HIDE DEF a, c, d, s, auto
  <1> QED BY <1>2, <1>4, <1>6, <1>7, <1>8, <1>9, <1>10, <1>11, OneSlotMoves

(* What a key sends is a command, and leaves the client in its place. *)
LEMMA Presses ==
  ASSUME SessionOK, NEW i \in Slots,
         PressHello(i) \/ PressChoice(i) \/ PressSpawn(i) \/ PressRematch(i)
  PROVE  \E m \in Commands \ Quits, d \in Clients :
            /\ Press(i, m, d) /\ d.name_input \in Names \cup {client[i].name_input}
            /\ Same(client[i], d) /\ ~d.state_request_sent
            /\ \/ /\ m \in Hellos /\ \A p : m \in HellosBut(p) <=> p # d.pending_name
                  /\ ~client[i].name_check_pending /\ d.name_check_pending
               \/ /\ m \notin Hellos /\ d.pending_name = client[i].pending_name
                  /\ d.name_check_pending = client[i].name_check_pending
  <1> DEFINE c == client[i]
  <1>1. c \in Clients
    BY DEF SessionOK
  <1>2. CASE PressHello(i)
    <2> DEFINE d(n) == [c EXCEPT !.name_input = n, !.pending_name = n,
                                 !.name_check_pending = TRUE, !.state_request_sent = FALSE]
    <2>1. PICK n \in User[i].names :
             /\ MaySendHello([c EXCEPT !.name_input = n])
             /\ Press(i, [cmd |-> "HELLO", name |-> n], SendingHello([c EXCEPT !.name_input = n]))
      BY <1>2 DEF PressHello
    <2>2. n \in Names
      BY DEF Names
    <2>3. SendingHello([c EXCEPT !.name_input = n]) = d(n)
      BY <1>1 DEF SendingHello, Clients
    <2>4. ~c.name_check_pending
      BY <1>1, <2>1 DEF MaySendHello, Clients
    <2>5. /\ d(n) \in Clients /\ d(n).name_input = n /\ d(n).pending_name = n
          /\ d(n).name_check_pending /\ ~d(n).state_request_sent /\ Same(c, d(n))
      BY <1>1, <2>2 DEF Clients, SomeName, Same
    <2> DEFINE m == [cmd |-> "HELLO", name |-> n]
    <2>6. m \in Commands \ Quits /\ m \in Hellos /\ \A p : m \in HellosBut(p) <=> p # n
      BY <2>2, CommandKinds
    <2>7. Press(i, m, d(n))
      BY <2>1, <2>3
    <2> HIDE DEF d, m
    <2> QED BY <2>2, <2>4, <2>5, <2>6, <2>7
  <1>3. ASSUME NEW m \in Commands \ (Quits \cup Hellos), Press(i, m, Asking(c))
        PROVE  \E k \in Commands \ Quits, d \in Clients :
                  /\ Press(i, k, d) /\ d.name_input \in Names \cup {c.name_input}
                  /\ Same(c, d) /\ ~d.state_request_sent
                  /\ k \notin Hellos /\ d.pending_name = c.pending_name
                  /\ d.name_check_pending = c.name_check_pending
    <2> DEFINE d == Asking(c)
    <2>1. /\ d \in Clients /\ d.name_input = c.name_input /\ Same(c, d) /\ ~d.state_request_sent
          /\ d.pending_name = c.pending_name /\ d.name_check_pending = c.name_check_pending
      BY <1>1 DEF Asking, Clients, Same
    <2> HIDE DEF d, c
    <2> QED BY <1>3, <2>1 DEF d
  <1>4. CASE PressChoice(i)
    <2>1. PICK k \in User[i].picks : Press(i, [cmd |-> "CHOICE", choice |-> k], Asking(c))
      BY <1>4 DEF PressChoice
    <2>2. [cmd |-> "CHOICE", choice |-> k] \in Commands \ (Quits \cup Hellos)
      BY CommandKinds, SessionAssumption
    <2> QED BY <1>3, <2>1, <2>2
  <1>5. CASE PressSpawn(i)
    <2>1. PICK t \in User[i].tiles : Press(i, [cmd |-> "SPAWN", tile |-> t], Asking(c))
      BY <1>5 DEF PressSpawn
    <2>2. [cmd |-> "SPAWN", tile |-> t] \in Commands \ (Quits \cup Hellos)
      BY CommandKinds DEF Tiles
    <2> QED BY <1>3, <2>1, <2>2
  <1>6. CASE PressRematch(i)
    BY <1>3, <1>6, CommandKinds DEF PressRematch
  <1> QED BY <1>2, <1>4, <1>5, <1>6

LEMMA PressTypes ==
  ASSUME TypeOK, SessionOK, NEW i \in Slots,
         PressHello(i) \/ PressChoice(i) \/ PressSpawn(i) \/ PressRematch(i)
  PROVE  SessionOK'
  <1>1. PICK m \in Commands \ Quits, d \in Clients :
           Press(i, m, d) /\ d.name_input \in Names \cup {client[i].name_input}
    BY Presses
  <1>2. i \in running /\ UNCHANGED <<vars, fields, running, auto_join, inbox>>
        /\ client' = [client EXCEPT ![i] = d] /\ outbox' = [outbox EXCEPT ![i] = Append(outbox[i], m)]
    BY <1>1 DEF Press
  <1> DEFINE q == inbox[i]
             o == outbox[i] \o <<m>>
             a == auto_join[i]
  <1>3. /\ q \in Seq(ServerLines) /\ outbox[i] \in Seq(Commands) /\ None(outbox[i], Quits)
        /\ a \in AutoJoinConfigs /\ (a.enabled => a.choice \in Picks /\ a.tile \in Tiles)
        /\ client[i].name_input \in Names
    BY <1>2 DEF SessionOK
  <1>4. o \in Seq(Commands) /\ None(o, Quits) /\ o = Append(outbox[i], m)
    <2>1. m \in Commands /\ m \notin Quits
      OBVIOUS
    <2>2. /\ o \in Seq(Commands) /\ o = Append(outbox[i], m)
          /\ None(o, Quits) <=> None(outbox[i], Quits) /\ m \notin Quits
      <3> DEFINE p == outbox[i]
      <3>1. p \in Seq(Commands)
        BY <1>3
      <3> HIDE DEF p, o
      <3>2. o = p \o <<m>>
        BY DEF p, o
      <3>3. o \in Seq(Commands) /\ o = Append(p, m)
        BY <2>1, <3>1, <3>2, OneMore
      <3>4. None(o, Quits) <=> None(p, Quits) /\ m \notin Quits
        BY <2>1, <3>1, <3>2, MarksOfOneMore
      <3> QED BY <3>3, <3>4 DEF p
    <2> QED BY <1>3, <2>1, <2>2
  <1>5. inbox' = [inbox EXCEPT ![i] = q] /\ auto_join' = [auto_join EXCEPT ![i] = a]
    BY <1>2 DEF SessionOK
  <1>6. outbox' = [outbox EXCEPT ![i] = o]
    BY <1>2, <1>4
  <1>7. Registered' = Registered /\ running' \subseteq connected'
    BY <1>2 DEF vars, players, Registered, SessionOK
  <1> HIDE DEF q, o, a
  <1> QED BY <1>1, <1>2, <1>3, <1>4, <1>5, <1>6, <1>7, OneSlotMoves

LEMMA NewClientType == ASSUME NEW n \in SomeName PROVE NewClient(n) \in Clients
  BY DEF NewClient, Clients, SomeName

LEMMA StopTypes ==
  ASSUME TypeOK, SessionOK, NEW i \in Slots, Stop(i)
  PROVE  SessionOK'
  <1>1. PICK n \in {0, Len(outbox[i])} :
           outbox' = [outbox EXCEPT ![i] = Append(SubSeq(outbox[i], 1, n), [cmd |-> "QUIT"])]
    BY DEF Stop
  <1> DEFINE o == Append(SubSeq(outbox[i], 1, n), [cmd |-> "QUIT"])
  <1>2. o \in Seq(Commands)
    <2>1. outbox[i] \in Seq(Commands)
      BY DEF SessionOK
    <2>2. n \in 0 .. Len(outbox[i])
      BY <2>1
    <2>3. SubSeq(outbox[i], 1, n) \in Seq(Commands)
      BY <2>1, <2>2, Cut
    <2> QED BY <2>3, CommandKinds, AppendProperties
  <1>3. NoClient \in Clients
    BY NewClientType DEF NoClient, SomeName
  <1>4. NoAutoJoin \in AutoJoinConfigs /\ ~NoAutoJoin.enabled
    BY DEF NoAutoJoin, AutoJoin, AutoJoinConfigs
  <1>5. <<>> \in Seq(ServerLines)
    OBVIOUS
  <1>6. /\ UNCHANGED <<vars, fields>> /\ running' = running \ {i}
        /\ client' = [client EXCEPT ![i] = NoClient] /\ inbox' = [inbox EXCEPT ![i] = <<>>]
        /\ auto_join' = [auto_join EXCEPT ![i] = NoAutoJoin]
        /\ outbox' = [outbox EXCEPT ![i] = o]
    BY <1>1 DEF Stop
  <1>7. Registered' = Registered /\ running' \subseteq connected'
    BY <1>6 DEF vars, players, Registered, SessionOK
  <1> HIDE DEF o
  <1> QED BY <1>2, <1>3, <1>4, <1>5, <1>6, <1>7, OneSlotMoves

LEMMA StartTypes ==
  ASSUME TypeOK, SessionOK, NEW i \in Slots, Start(i)
  PROVE  SessionOK'
  <1>1. PICK n \in User[i].names : client' = [client EXCEPT ![i] = NewClient(n)]
    BY DEF Start
  <1>2. n \in Names /\ NewClient(n) \in Clients /\ NewClient(n).name_input = n
    BY NewClientType DEF Names, SomeName, NewClient
  <1>3. /\ <<>> \in Seq(ServerLines) /\ <<GetStateCommand>> \in Seq(Commands)
        /\ None(<<GetStateCommand>>, Quits)
    BY CommandKinds, MarksOfOne
  <1>4. \E a \in AutoJoinConfigs : /\ a.enabled => a.choice \in Picks /\ a.tile \in Tiles
                                   /\ auto_join' = [auto_join EXCEPT ![i] = a]
    <2>1. CASE UNCHANGED auto_join
      <3> DEFINE a == auto_join[i]
      <3>1. /\ a \in AutoJoinConfigs /\ (a.enabled => a.choice \in Picks /\ a.tile \in Tiles)
            /\ auto_join' = [auto_join EXCEPT ![i] = a]
        BY <2>1 DEF SessionOK
      <3> HIDE DEF a
      <3> QED BY <3>1
    <2>2. ASSUME NEW c \in User[i].picks, NEW t \in User[i].tiles,
                 auto_join' = [auto_join EXCEPT ![i] = AutoJoin(TRUE, c, t)]
          PROVE  \E a \in AutoJoinConfigs :
                    /\ a.enabled => a.choice \in Picks /\ a.tile \in Tiles
                    /\ auto_join' = [auto_join EXCEPT ![i] = a]
      <3>1. c \in Picks /\ t \in Tiles
        BY SessionAssumption DEF Tiles
      <3> DEFINE a == AutoJoin(TRUE, c, t)
      <3>2. a \in AutoJoinConfigs /\ a.choice = c /\ a.tile = t
        BY <3>1 DEF AutoJoin, AutoJoinConfigs
      <3>3. auto_join' = [auto_join EXCEPT ![i] = a]
        BY <2>2
      <3> HIDE DEF a
      <3> QED BY <3>1, <3>2, <3>3
    <2> QED BY <2>1, <2>2 DEF Start
  <1>5. PICK a \in AutoJoinConfigs : /\ a.enabled => a.choice \in Picks /\ a.tile \in Tiles
                                     /\ auto_join' = [auto_join EXCEPT ![i] = a]
    BY <1>4
  <1>6. /\ Accept(i) /\ UNCHANGED fields /\ running' = running \cup {i}
        /\ inbox' = [inbox EXCEPT ![i] = <<>>]
        /\ outbox' = [outbox EXCEPT ![i] = <<GetStateCommand>>]
    BY DEF Start
  <1>7. Registered' = Registered /\ running' \subseteq connected'
    BY <1>6 DEF Accept, Registered, SessionOK, TypeOK
  <1> QED BY <1>1, <1>2, <1>3, <1>5, <1>6, <1>7, OneSlotMoves

LEMMA SessionTypesInit == SInit => SessionOK
  <1> SUFFICES ASSUME SInit PROVE SessionOK
    OBVIOUS
  <1>1. NoClient \in Clients
    BY NewClientType DEF NoClient, SomeName
  <1>2. NoAutoJoin \in AutoJoinConfigs /\ ~NoAutoJoin.enabled
    BY DEF NoAutoJoin, AutoJoin, AutoJoinConfigs
  <1>3. <<>> \in Seq(ServerLines) /\ <<>> \in Seq(Commands)
    OBVIOUS
  <1>4. /\ name \in [Slots -> SomeName] /\ tile \in [Slots -> Tiles \cup {NoTile}]
        /\ leaving \in SomeName
    BY DEF SInit, SomeName
  <1>5. /\ client \in [Slots -> Clients] /\ auto_join \in [Slots -> AutoJoinConfigs]
        /\ inbox \in [Slots -> Seq(ServerLines)] /\ outbox \in [Slots -> Seq(Commands)]
    BY <1>1, <1>2, <1>3 DEF SInit
  <1>6. \A i \in Slots : auto_join[i].enabled => /\ auto_join[i].choice \in Picks
                                                /\ auto_join[i].tile \in Tiles
    BY <1>2 DEF SInit
  <1>7. \A i \in Slots : i \in Registered <=> name[i] # NoName
    BY DEF SInit, Init, Registered
  <1>8. running = {}
    BY DEF SInit
  <1> QED BY <1>4, <1>5, <1>6, <1>7, <1>8 DEF SessionOK

LEMMA SessionTypesStep ==
  TypeOK /\ IInv /\ Calm /\ SessionOK /\ [SNext]_svars => SessionOK'
  <1> SUFFICES ASSUME TypeOK, IInv, Calm, SessionOK, [SNext]_svars PROVE SessionOK'
    OBVIOUS
  <1>1. UNCHANGED <<session, connected, registered>> => SessionOK'
    BY DEF session, fields, wires, SessionOK, Registered
  <1>2. CASE Handle
    BY <1>2, HandleTypes
  <1>3. CASE Tick
    <2>1. UNCHANGED <<connected, registered>>
      BY <1>3 DEF Tick, Timers, JoinWindowEnds, players
    <2> QED BY <1>1, <1>3, <2>1 DEF Tick
  <1>4. ASSUME NEW i \in Slots,
               \/ Serve(i) \/ ServeQuit(i) \/ Start(i) \/ Iterate(i) \/ Stop(i)
               \/ PressHello(i) \/ PressChoice(i) \/ PressSpawn(i) \/ PressRematch(i)
        PROVE  SessionOK'
    BY <1>4, ServeTypes, ServeQuitTypes, StartTypes, IterateTypes, StopTypes, PressTypes
  <1>5. CASE UNCHANGED svars
    BY <1>1, <1>5 DEF svars, vars, players
  <1> QED BY <1>2, <1>3, <1>4, <1>5 DEF SNext

(* What the session's server is proved to do without the clients. *)
LEMMA ServerInvariant == SSpec => [](TypeOK /\ IInv)
  BY SessionIsMatchServer, TypeCorrect, Invariant, PTL

LEMMA CalmAlways == SSpec => []Calm
  <1> QED BY CalmInit, CalmNext, ServerInvariant, PTL DEF SSpec

LEMMA SessionTypesInvariant == SSpec => []SessionOK
  <1> QED BY SessionTypesInit, SessionTypesStep, ServerInvariant, CalmAlways, PTL DEF SSpec

(* The streams of a slot hold commands the clients can send, whoever runs is
   connected, and a slot has a name as long as somebody registered is in it:
   HELLO gives it, and every way out of the slot forgets it. *)
THEOREM SessionTypesAlways == SSpec => []SessionTypeOK
  <1>1. SessionOK => SessionTypeOK
    BY DEF SessionOK, SessionTypeOK, SomeName
  <1> QED BY <1>1, SessionTypesInvariant, PTL
=============================================================================
