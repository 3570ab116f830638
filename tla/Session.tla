------------------------------ MODULE Session ------------------------------
(***************************************************************************)
(* The match server and the terminal clients connected to it: MatchServer   *)
(* with the names and tiles of its players, TextClient for the process at   *)
(* the other end of every slot, and between them two TCP streams per slot,  *)
(* whose lines arrive in order and late.                                   *)
(*                                                                         *)
(* Every server step is a step of MatchServer that also queues its lines.   *)
(* A handler queues and returns before anything is flushed (server.c:233),  *)
(* so that a client's step in the middle of a handler would be one after    *)
(* it: clients move while the server is idle.  No output buffer fills here  *)
(* (MayLag = {}).  That is an abstraction and not a fact about terminal      *)
(* clients: one that is stopped, or many commands served in one pass before *)
(* anything is flushed (server.c:142-193), can fill a buffer of OUTBUF_SIZE. *)
(* What the drops that follow do to the match is MatchServer's subject.     *)
(***************************************************************************)
EXTENDS MatchServer, TextClient

CONSTANTS
    User,        \* slot -> what its user may type, press and click
    AutoJoining, \* slots whose client was given its choice and tile to join with
    Hands,       \* slots with somebody at the keyboard
    MaxUnread,   \* bound: the server moves while no client has more lines unread
    MaxUnserved  \* bound: a user waits while that many commands are unserved

Names == UNION {User[i].names : i \in Slots}
Tiles == UNION {User[i].tiles : i \in Slots}

(* A place is a number of half tiles, along one of the two axes: text clients
   send whole tiles, even numbers.  A slot never used holds 0 in the code, which
   nobody reads: only places that were chosen are compared. *)
NoTile == -1

ASSUME SessionAssumption ==
    /\ MayLag = {}
    /\ \A i \in Slots : User[i].picks \subseteq Picks
    /\ NoName \notin Names /\ Tiles \subseteq Nat
    /\ AutoJoining \subseteq Slots /\ Hands \subseteq Slots
    /\ MaxUnread \in Nat /\ MaxUnserved \in Nat \ {0}

VARIABLES
    name, tile,   \* of the player in a slot: the fields MatchServer leaves out
    leaving,      \* the name drop_player announces while LEFT is being queued
    running,      \* the slots whose client process is there
    client,       \* the state of the client in a slot
    auto_join,    \* what it was started with, and has sent of that
    inbox,        \* slot -> lines on their way to the client
    outbox        \* slot -> commands on their way to the server

fields == <<name, tile, leaving>>
wires == <<inbox, outbox>>
session == <<fields, running, client, auto_join, wires>>
svars == <<vars, session>>

-----------------------------------------------------------------------------
(* What the server says. *)

Life(i) == IF i \in alive THEN "alive" ELSE IF i \in waiting THEN "waiting" ELSE "out"

Roster == {Entry(name[i], Life(i)) : i \in Admitted}

(* queue_game_state_for_player; somebody without a name gets no verdict. *)
SnapshotFor(i) ==
    [line |-> "STATE", players |-> Roster,
     progress |-> IF phase = "GAME_OVER" /\ i \notin Registered THEN "" ELSE StateLine(i)]

(* Lines that change nothing but texts and countdowns
   (client_text_messages.c:263-268, 299-303, 354-361). *)
Unheeded == {"JOINED", "WAITING_FOR_OTHERS", "SETUP_OPEN"}

BroadcastOf(l) == Running("queue_broadcast") /\ Head(todo).line = l

(* The line of the broadcast that runs; broadcast_positions has put its next
   iteration behind it. *)
BroadcastLine ==
    IF BroadcastOf("PLAYER")
    THEN LET i == todo[2].slot - 1
         IN  [line |-> "PLAYER", entry |-> Entry(name[i], Life(i))]
    ELSE IF BroadcastOf("LEFT") THEN [line |-> "LEFT", who |-> leaving]
    ELSE Line(Head(todo).line)

Put(said) ==
    inbox' = [i \in Slots |-> IF i \in running /\ i \in DOMAIN said
                              THEN inbox[i] \o said[i] ELSE inbox[i]]

Reply(i, lines) == Put([j \in {i} |-> lines])

(* What the call that runs queues to slot i; end_game's verdicts are not
   repeated by a caller, the phase changes with them. *)
Said(i) ==
    LET call == Head(todo)
    IN  CASE call.fn = "queue_broadcast" ->
                IF i \in connected /\ call.line \notin Unheeded
                THEN <<BroadcastLine>> ELSE <<>>
          [] call.fn = "broadcast_game_state" ->
                IF i \in Registered THEN <<SnapshotFor(i)>> ELSE <<>>
          [] call.fn = "maybe_admit_player" ->
                IF call.slot = i /\ Complete(i) /\ Refuses
                THEN <<Line("ERROR lobby_closed")>> ELSE <<>>
          [] call.fn = "maybe_admit_player.tail" ->
                IF call.slot = i THEN <<Line("JOINED_MATCH")>> ELSE <<>>
          [] OTHER ->
                IF phase # phase' /\ phase' = "GAME_OVER" /\ i \in Registered
                THEN <<Line(Verdict(i))>> ELSE <<>>

(* Mutant: a name stays behind in a slot that nobody is connected to. *)
ForgetTiles ==
    /\ tile' = [i \in Slots |-> IF i \in connected' THEN tile[i] ELSE NoTile]
    /\ UNCHANGED name

(* The fields of a slot go with its connection. *)
ForgetDropped ==
    /\ name' = [i \in Slots |-> IF i \in connected' THEN name[i] ELSE NoName]
    /\ tile' = [i \in Slots |-> IF i \in connected' THEN tile[i] ELSE NoTile]

Handle ==
    /\ Step
    /\ Put([i \in Slots |-> Said(i)])
    /\ ForgetDropped
    /\ leaving' = IF BroadcastOf("LEFT") THEN NoName ELSE leaving
    /\ UNCHANGED <<running, client, auto_join, outbox>>

-----------------------------------------------------------------------------
(* server_commands.c: one command of one client. *)

(* Mutant: a name is looked for among the admitted players. *)
NameOfAdmitted(n) == \E j \in Admitted : name[j] = n

(* find_name *)
NameTaken(n) == \E j \in Registered : name[j] = n

(* spawn_taken: the whole part of what is asked for, against the places as they
   were stored. *)
SpawnTaken(t, i) ==
    \E j \in Admitted \ {i} : j \in spawn_chosen /\ tile[j] = 2 * (t \div 2)

Refuse(i, error) ==
    /\ Reply(i, <<Line(error)>>)
    /\ UNCHANGED <<vars, name, tile>>

ServeHello(i, n) ==
    IF i \in registered THEN Refuse(i, "ERROR already_registered")
    ELSE IF NameTaken(n) THEN Refuse(i, "ERROR duplicate_name")
    ELSE /\ Hello(i)
         /\ name' = [name EXCEPT ![i] = n]
         /\ tile' = [tile EXCEPT ![i] = NoTile]
         /\ Reply(i, <<Line("WELCOME"), Line(LobbyStatus)>>)

(* require_registered_not_admitted *)
SetUpError(i) == IF i \in registered THEN "ERROR already_joined" ELSE "ERROR register_first"

ServeChoice(i, c) ==
    IF ~MaySetUp(i) THEN Refuse(i, SetUpError(i))
    ELSE /\ Choose(i, c)
         /\ Reply(i, <<Line("CHOICE_OK")>>)
         /\ UNCHANGED <<name, tile>>

ServeSpawn(i, t) ==
    IF ~MaySetUp(i) THEN Refuse(i, SetUpError(i))
    ELSE IF SpawnTaken(t, i) THEN Refuse(i, "ERROR spawn_taken")
    ELSE /\ Spawn(i)
         /\ tile' = [tile EXCEPT ![i] = t]
         /\ UNCHANGED <<name, inbox>>

ServeGetState(i) ==
    /\ GetState(i)
    /\ Reply(i, <<SnapshotFor(i)>>)
    /\ UNCHANGED <<name, tile>>

ServeRematch(i) ==
    IF phase # "GAME_OVER" THEN Refuse(i, "ERROR rematch_not_available")
    ELSE /\ Rematch(i)
         /\ tile' = [j \in Slots |-> IF j \in ResetSlots THEN NoTile ELSE tile[j]]
         /\ Put([j \in ResetSlots |-> <<Line("MATCH_RESET")>>])
         /\ UNCHANGED name

(* No REPICK: no client sends it, the server never gets into PHASE_REPICK. *)
Dispatch(i, m) ==
    \/ m.cmd = "HELLO" /\ ServeHello(i, m.name)
    \/ m.cmd = "CHOICE" /\ ServeChoice(i, m.choice)
    \/ m.cmd = "SPAWN" /\ ServeSpawn(i, m.tile)
    \/ m.cmd = "GET_STATE" /\ ServeGetState(i)
    \/ m.cmd = "REMATCH" /\ ServeRematch(i)

Received == \A j \in Slots : Len(inbox[j]) <= MaxUnread

Serve(i) ==
    /\ Idle /\ Received
    /\ outbox[i] # <<>> /\ Head(outbox[i]).cmd # "QUIT"
    /\ Dispatch(i, Head(outbox[i]))
    /\ outbox' = [outbox EXCEPT ![i] = Tail(@)]
    /\ UNCHANGED <<leaving, running, client, auto_join>>

(* QUIT, or the end of the stream of a client that is gone. *)
ServeQuit(i) ==
    /\ Received
    /\ outbox[i] # <<>> /\ Head(outbox[i]).cmd = "QUIT"
    /\ Leave(i)
    /\ ForgetDropped
    /\ leaving' = name[i]
    /\ outbox' = [outbox EXCEPT ![i] = <<>>]
    /\ UNCHANGED <<running, client, auto_join, inbox>>

-----------------------------------------------------------------------------
(* client_text.c: the process in slot i.  Its key G, one more GET_STATE, is left
   out. *)

NoClient == NewClient(NoName)
NoAutoJoin == AutoJoin(FALSE, NoChoice, NoTile)

(* connect, and the server's accept; the client is given its name, and perhaps
   its choice and tile, on its command line. *)
Start(i) ==
    /\ Accept(i)
    /\ \E n \in User[i].names : client' = [client EXCEPT ![i] = NewClient(n)]
    /\ \/ /\ i \in AutoJoining
          /\ \E c \in User[i].picks, t \in User[i].tiles :
                auto_join' = [auto_join EXCEPT ![i] = AutoJoin(TRUE, c, t)]
       \/ i \notin AutoJoining /\ UNCHANGED auto_join
    /\ running' = running \cup {i}
    /\ inbox' = [inbox EXCEPT ![i] = <<>>]
    /\ outbox' = [outbox EXCEPT ![i] = <<GetStateCommand>>]
    /\ UNCHANGED fields

(* The first n lines on the way have arrived. *)
Read(i, n) == AfterLines(client[i], SubSeq(inbox[i], 1, n), MaxPlayers)

(* One iteration of the client's loop that does something, but for the keys. *)
Iterate(i) ==
    /\ Idle
    /\ i \in running
    /\ \E n \in 0 .. Len(inbox[i]) :
          LET c == Read(i, n)
              auto == auto_join[i]
          IN  /\ n > 0 \/ HasToSend(auto, c)
              /\ inbox' = [inbox EXCEPT ![i] = SubSeq(@, n + 1, Len(@))]
              /\ outbox' = [outbox EXCEPT ![i] = @ \o IterationSends(auto, c)]
              /\ client' = [client EXCEPT ![i] = AfterIteration(auto, c)]
              /\ auto_join' = [auto_join EXCEPT ![i] = AutoAfterIteration(auto, c)]
    /\ UNCHANGED <<vars, fields, running>>

Press(i, m, after) ==
    /\ Idle
    /\ i \in running \cap Hands /\ Len(outbox[i]) < MaxUnserved
    /\ outbox' = [outbox EXCEPT ![i] = Append(@, m)]
    /\ client' = [client EXCEPT ![i] = after]
    /\ UNCHANGED <<vars, fields, running, auto_join, inbox>>

Asking(c) == [c EXCEPT !.state_request_sent = FALSE]

(* Enter or H, the name having been edited before. *)
PressHello(i) ==
    \E n \in User[i].names :
        LET c == [client[i] EXCEPT !.name_input = n]
        IN  MaySendHello(c) /\ Press(i, [cmd |-> "HELLO", name |-> n], SendingHello(c))

PressChoice(i) ==
    /\ MayJoin(client[i])
    /\ \E c \in User[i].picks : Press(i, [cmd |-> "CHOICE", choice |-> c], Asking(client[i]))

PressSpawn(i) ==
    /\ MaySpawn(client[i])
    /\ \E t \in User[i].tiles : Press(i, [cmd |-> "SPAWN", tile |-> t], Asking(client[i]))

PressRematch(i) ==
    client[i].game_over /\ Press(i, [cmd |-> "REMATCH"], Asking(client[i]))

(* Q, or the end of the process, when a reset may take with it what the server
   has not read yet. *)
Stop(i) ==
    /\ Idle
    /\ i \in running
    /\ \E n \in {0, Len(outbox[i])} :
          outbox' = [outbox EXCEPT ![i] = Append(SubSeq(@, 1, n), [cmd |-> "QUIT"])]
    /\ running' = running \ {i}
    /\ client' = [client EXCEPT ![i] = NoClient]
    /\ auto_join' = [auto_join EXCEPT ![i] = NoAutoJoin]
    /\ inbox' = [inbox EXCEPT ![i] = <<>>]
    /\ UNCHANGED <<vars, fields>>

-----------------------------------------------------------------------------
(* The timers, as in MatchServer; PHASE_SETUP is never waited in (NoSetupAtRest),
   and its deadline means nothing elsewhere. *)

Tick ==
    /\ Received
    /\ Timers \/ JoinWindowEnds
    /\ UNCHANGED session

SInit ==
    /\ Init
    /\ name = [i \in Slots |-> NoName] /\ tile = [i \in Slots |-> NoTile]
    /\ leaving = NoName
    /\ running = {}
    /\ client = [i \in Slots |-> NoClient]
    /\ auto_join = [i \in Slots |-> NoAutoJoin]
    /\ inbox = [i \in Slots |-> <<>>] /\ outbox = [i \in Slots |-> <<>>]

SNext ==
    \/ Handle \/ Tick
    \/ \E i \in Slots :
          \/ Serve(i) \/ ServeQuit(i)
          \/ Start(i) \/ Iterate(i) \/ Stop(i)
          \/ PressHello(i) \/ PressChoice(i) \/ PressSpawn(i) \/ PressRematch(i)

SSpec == SInit /\ [][SNext]_svars

(* The server's loop comes round to every connection that has a command waiting,
   and every client's loop to its socket: neither waits for a person. *)
SFairness ==
    /\ WF_svars(Handle)
    /\ \A i \in Slots : /\ SF_svars(Serve(i) \/ ServeQuit(i))
                       /\ SF_svars(Iterate(i))

SFairSpec == SSpec /\ SFairness

-----------------------------------------------------------------------------
(* Properties. *)

Commands ==
    [cmd : {"HELLO"}, name : Names] \cup [cmd : {"CHOICE"}, choice : Picks]
        \cup [cmd : {"SPAWN"}, tile : Tiles]
        \cup [cmd : {"GET_STATE", "REMATCH", "QUIT"}]

(* The types of what Session adds: the streams of a slot hold commands, and only
   the named slots have a name. *)
SessionTypeOK ==
    /\ name \in [Slots -> Names \cup {NoName}]
    /\ tile \in [Slots -> Tiles \cup {NoTile}]
    /\ leaving \in Names \cup {NoName}
    /\ running \subseteq connected
    /\ outbox \in [Slots -> Seq(Commands)]
    /\ \A i \in Slots : i \in Registered <=> name[i] # NoName

(* No two registered players share a name, however the answers to their HELLOs,
   departures and re-used slots follow one another (server_commands.c:120-131,
   211-219): rosters, LEFT and PLAYER lines know a player by its name alone. *)
NamesUnique ==
    \A i, j \in Registered : name[i] = name[j] => i = j

(* Nothing is on its way between the server and the client in slot i. *)
Quiet(i) ==
    /\ Idle
    /\ i \in running
    /\ inbox[i] = <<>> /\ outbox[i] = <<>> /\ client[i].state_request_sent

(* When nothing is on its way, a client that has given its name has the picture
   the server has of it: that it is registered, and as whom, whether it is in
   the match, that the lobby is there to be joined, and how the match ended
   (client_text_messages.c:210-390 against server_state.c). *)
BeliefsHold ==
    \A i \in Slots :
        Quiet(i) =>
            LET c == client[i]
            IN  /\ c.name_registered <=> i \in registered
                /\ ~c.name_check_pending
                /\ i \in registered =>
                      /\ c.my_name = name[i]
                      /\ c.joined_match <=> i \in admitted
                      /\ MayJoin(c) <=> phase = "LOBBY_OPEN" /\ i \notin admitted
                /\ i \in Admitted =>
                      /\ c.game_over <=> phase = "GAME_OVER"
                      /\ c.match_result = 1 <=> phase = "GAME_OVER" /\ WonMatch(i)

(* scripts.txt:77, "all clients receive consistent live updates": then it also
   lists the players that are in the match, each as alive, waiting or out as it
   is, although some of them were announced by broadcasts before it had a name
   and others have left since (client_text_messages.c:80-101, 363-372). *)
RostersHold ==
    \A i \in Slots : Quiet(i) /\ i \in registered => client[i].players = Roster

(* A client started with its choice and tile gets into the match it finds open,
   with nobody at its keyboard, unless its name or tile is somebody else's, the
   lobby stops admitting, or it is stopped (client_text.c:382-410).  It sends each
   command once: refused in the moment between the deadline and the closing, it
   stays outside even if the lobby then opens again. *)
Rejected(i) ==
    \/ auto_join[i].hello_sent /\ ~client[i].name_registered
       /\ ~client[i].name_check_pending
    \/ \E j \in Admitted \ {i} : tile[j] = auto_join[i].tile

AutoJoins ==
    \A i \in AutoJoining :
        (i \in running /\ ~auto_join[i].choice_sent) ~>
            \/ i \in Admitted
            \/ Rejected(i) \/ i \notin running \/ Refuses

(* Every HELLO is answered: a client does not wait for its name for ever, in
   which time it would refuse to send another one (client_text.c:152-167). *)
NamesAreAnswered ==
    \A i \in Slots : client[i].name_check_pending ~>
                        ~client[i].name_check_pending \/ i \notin running

-----------------------------------------------------------------------------
(* What the documents and tests of the repository say and the code does not do. *)

(* client_text.c:29, "M: rematch after game over": whoever watched a match to
   its end, and has nothing unread, is at the game's end on its screen too, and
   may press M. *)
SpectatorsSeeTheEnd ==
    \A i \in Slots : Quiet(i) /\ i \in Registered /\ phase = "GAME_OVER" =>
                        client[i].game_over

(* A taken tile is refused, wants test_runner.c:344: no two admitted players stand
   on one.  The tile is compared at SPAWN with those of the admitted, and not
   again when the player is admitted (server_commands.c:272).  The terminal client
   sends SPAWN only after CHOICE_OK (client_text.c:536-547), but a SPAWN that finds
   the lobby closed keeps its tile, and a CHOICE in the next lobby admits with it
   (server_state.c:309-330). *)
TilesDistinct ==
    \A i, j \in Admitted : tile[i] = tile[j] => i = j
=============================================================================
