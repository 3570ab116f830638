---------------------------- MODULE MatchServer ----------------------------
(***************************************************************************)
(* The match server: every function of server_state.c and server_commands.c *)
(* that the server program reaches, over the player slots of game.c.       *)
(*                                                                         *)
(* The server has one thread, but its functions are not atomic.  Queueing  *)
(* a line fails when the output buffer of its client is full;              *)
(* queue_broadcast and broadcast_game_state then drop that client and      *)
(* call reevaluate_state, which may start or end the match and broadcast   *)
(* again, in the middle of the function that called them.  That function   *)
(* goes on with what it decided before.  The control stack is therefore    *)
(* part of the state: todo is the sequence of calls still to be made, the   *)
(* one being executed first, and a function that broadcasts is one action  *)
(* up to the broadcast and another one, its tail, after it.                *)
(*                                                                         *)
(* A client whose output buffer may be too full for the next line is in    *)
(* lagging; the bytes are not counted (protocol.c:70-93).                  *)
(***************************************************************************)
EXTENDS Integers, Sequences, FiniteSets, Rps

CONSTANTS
    MaxPlayers,   \* MAX_PLAYERS, the number of slots (common.h:24)
    Picks,        \* the choices the clients of this instance send
    MayLag        \* the slots whose output buffer may fill: the client reads
                  \* too slowly, or is sent too much before a flush

Slots == 0 .. MaxPlayers - 1

ASSUME MatchServerAssumption ==
    /\ MaxPlayers \in Nat \ {0}
    /\ Picks \subseteq Choice
    /\ MayLag \subseteq Slots

VARIABLES
    connected, registered, admitted,   \* lifecycle flags: sets of slots
    alive, waiting,                    \* round participation flags
    spawn_chosen, choice,              \* setup; choice_chosen iff # NoChoice
    told,          \* the last line on the match's progress queued to a slot
    lagging,       \* slots whose output buffer may be too full for a line
    phase, join_deadline, setup_deadline, round_no,
    todo           \* the calls still to be made, the running one first

players == <<connected, registered, admitted, alive, waiting, spawn_chosen,
             choice, told, lagging>>
match == <<phase, join_deadline, setup_deadline, round_no>>
vars == <<players, match, todo>>

-----------------------------------------------------------------------------
(* Predicates over slots (game.h:13-26, game.c:32-78). *)

Registered == connected \cap registered
Admitted == connected \cap registered \cap admitted
Alive == Admitted \cap alive

FewerThanTwo(S) == \A i, j \in S : i = j

Ready(i) == choice[i] # NoChoice /\ i \in spawn_chosen

(* Mutants: the count alone decides; a spectator without a choice counts. *)
TwoAdmitted == ~FewerThanTwo(Admitted)
AllRegisteredReady == ~FewerThanTwo(Admitted) /\ \A i \in Registered : Ready(i)

AllAdmittedReady == ~FewerThanTwo(Admitted) /\ \A i \in Admitted : Ready(i)

WonMatch(i) == i \in Admitted /\ (i \in alive \/ i \in waiting)

(* Mutant: an off-by-one in the number of types left. *)
OneTypeGone == FewerThanTwo(Alive) \/ \E c \in Choice : \A i \in Alive : choice[i] # c

(* reevaluate_round_active's condition *)
RoundDecided == FewerThanTwo(Alive) \/ AtMostOneType(Alive, choice)

(* Mutant: a lobby is not closed before it has two players. *)
CrowdedLobbyExpired ==
    phase = "LOBBY_OPEN" /\ join_deadline = "passed" /\ ~FewerThanTwo(Admitted)

LobbyExpired == phase = "LOBBY_OPEN" /\ join_deadline = "passed"

SetupExpired == phase = "SETUP" /\ setup_deadline = "passed"

(* Mutant: one of the two commands is enough. *)
HalfComplete(i) ==
    i \in Registered \ admitted /\ (choice[i] # NoChoice \/ i \in spawn_chosen)

(* Every precondition of admission that maybe_admit_player checks first. *)
Complete(i) == i \in Registered \ admitted /\ choice[i] # NoChoice /\ i \in spawn_chosen

(* Mutant: only a match that is over is closed to newcomers. *)
RefusesWhenOver == phase = "GAME_OVER"

(* The lobby does not take i in any more: maybe_admit_player's two refusals. *)
Refuses == phase # "LOBBY_OPEN" \/ join_deadline = "passed"

-----------------------------------------------------------------------------
(* Calls and the control stack. *)

Broadcast(line) == [fn |-> "queue_broadcast", line |-> line]
Call(f) == [fn |-> f]
CallOn(f, i) == [fn |-> f, slot |-> i]

Idle == todo = <<>>
Running(f) == todo # <<>> /\ Head(todo).fn = f
Return(calls) == todo' = calls \o Tail(todo)

(* Lines that tell a client how far the match is; the others leave told alone. *)
ProgressLines == {"LOBBY_WAITING", "LOBBY_OPEN", "LOBBY_CLOSED", "SETUP_OPEN",
                  "ROUND_START", "REPICK_START", "WIN", "LOSE", "GAME_OVER"}

Heard(i, line) == IF line \in ProgressLines THEN line ELSE told[i]

(* queue_game_over_result *)
Verdict(i) ==
    IF i \notin Registered THEN told[i]
    ELSE IF WonMatch(i) THEN "WIN"
    ELSE IF i \in Admitted THEN "LOSE"
    ELSE "GAME_OVER"

LobbyLine == IF join_deadline = "unset" THEN "LOBBY_WAITING" ELSE "LOBBY_OPEN"

(* The progress line of a snapshot, queue_game_state_for_player. *)
StateLine(i) ==
    CASE phase = "LOBBY_OPEN" -> LobbyLine
      [] phase = "SETUP" -> "SETUP_OPEN"
      [] phase = "ROUND_ACTIVE" -> "ROUND_START"
      [] phase = "REPICK" -> "REPICK_START"
      [] phase = "GAME_OVER" -> Verdict(i)

(* Mutant: drop_player closes the connection and leaves the name behind. *)
QueueKeepingNames(said, lost) ==
    /\ connected' = connected \ lost
    /\ admitted' = admitted \ lost
    /\ alive' = alive \ lost
    /\ waiting' = waiting \ lost
    /\ spawn_chosen' = spawn_chosen \ lost
    /\ lagging' = lagging \ lost
    /\ choice' = [i \in Slots |-> IF i \in lost THEN NoChoice ELSE choice[i]]
    /\ told' = [i \in DOMAIN told |-> IF i \in DOMAIN said THEN said[i] ELSE told[i]]
    /\ UNCHANGED registered

(* Queue said[i] to each i in the domain of said, and drop_player(.., 0) the
   slots of lost, whose line did not fit. *)
Queue(said, lost) ==
    /\ connected' = connected \ lost
    /\ registered' = registered \ lost
    /\ admitted' = admitted \ lost
    /\ alive' = alive \ lost
    /\ waiting' = waiting \ lost
    /\ spawn_chosen' = spawn_chosen \ lost
    /\ lagging' = lagging \ lost
    /\ choice' = [i \in Slots |-> IF i \in lost THEN NoChoice ELSE choice[i]]
    /\ told' = [i \in Slots |-> IF i \in lost THEN "nothing"
                                ELSE IF i \in DOMAIN said THEN said[i] ELSE told[i]]

Silence == [i \in {} |-> "nothing"]

(* Mutants: nobody is told that players were dropped; every broadcast is followed
   by a reevaluation. *)
Nothing(lost) == <<>>
Regardless(lost) == <<Call("reevaluate_state")>>

(* reevaluate_state follows a failed line. *)
After(lost) == IF lost = {} THEN <<>> ELSE <<Call("reevaluate_state")>>

(* drop_player(s, i, 1); then is what the caller does next. *)
DropLoudly(i) == Queue(Silence, {i})
Farewell(i) == IF i \in registered
               THEN <<Broadcast("LEFT"), Call("broadcast_game_state")>>
               ELSE <<>>

-----------------------------------------------------------------------------
(* Functions that broadcast: actions of the running call. *)

QueueBroadcast ==
    /\ Running("queue_broadcast")
    /\ \E lost \in SUBSET (connected \cap lagging) :
          /\ Queue([i \in connected |-> Heard(i, Head(todo).line)], lost)
          /\ Return(After(lost))
    /\ UNCHANGED match

BroadcastGameState ==
    /\ Running("broadcast_game_state")
    /\ \E lost \in SUBSET (Registered \cap lagging) :
          /\ Queue([i \in Registered |-> StateLine(i)], lost)
          /\ Return(After(lost))
    /\ UNCHANGED match

(* Mutant: the search goes on at the slot it has found, which is still admitted
   unless its own line dropped it. *)
BroadcastPositionsAgain ==
    /\ Running("broadcast_positions")
    /\ LET rest == {i \in Admitted : i >= Head(todo).slot}
       IN  IF rest = {}
           THEN Return(<<>>)
           ELSE \E i \in rest :
                  /\ \A j \in rest : i <= j
                  /\ Return(<<Broadcast("PLAYER"), CallOn("broadcast_positions", i)>>)
    /\ UNCHANGED <<players, match>>

(* One iteration of the loop of broadcast_positions: the next admitted slot is
   looked for in the state the previous queue_broadcast left. *)
BroadcastPositions ==
    /\ Running("broadcast_positions")
    /\ LET rest == {i \in Admitted : i >= Head(todo).slot}
       IN  IF rest = {}
           THEN Return(<<>>)
           ELSE \E i \in rest :
                  /\ \A j \in rest : i <= j
                  /\ Return(<<Broadcast("PLAYER"),
                              CallOn("broadcast_positions", i + 1)>>)
    /\ UNCHANGED <<players, match>>

(* end_game: drops the clients whose verdict does not fit and does not
   reevaluate, the match being over. *)
EndGame ==
    /\ phase' = "GAME_OVER"
    /\ \E lost \in SUBSET (Registered \cap lagging) :
          Queue([i \in Registered |-> Verdict(i)], lost)
    /\ Return(<<>>)
    /\ UNCHANGED <<join_deadline, setup_deadline, round_no>>

StartRound ==
    /\ phase' = "ROUND_ACTIVE"
    /\ round_no' = round_no + 1
    /\ alive' = alive \cup (Admitted \cap waiting)
    /\ waiting' = waiting \ Admitted

StartActiveRound ==
    /\ StartRound
    /\ Return(<<Broadcast("ROUND_START"), CallOn("broadcast_positions", 0)>>)
    /\ UNCHANGED <<connected, registered, admitted, spawn_chosen, choice, told,
                   lagging, join_deadline, setup_deadline>>

ReevaluateLobby ==
    /\ join_deadline' = IF Admitted = {} THEN "unset" ELSE join_deadline
    /\ Return(<<>>)
    /\ UNCHANGED <<players, phase, setup_deadline, round_no>>

(* The end of reevaluate_setup, and of expire_unready_setup_players. *)
SettleSetup ==
    IF FewerThanTwo(Admitted) THEN EndGame
    ELSE IF AllAdmittedReady THEN StartActiveRound
    ELSE Return(<<>>) /\ UNCHANGED <<players, match>>

ReevaluateRound ==
    IF RoundDecided THEN EndGame ELSE Return(<<>>) /\ UNCHANGED <<players, match>>

Reevaluate ==
    /\ Running("reevaluate_state")
    /\ CASE phase = "LOBBY_OPEN" -> ReevaluateLobby
         [] phase = "SETUP" -> SettleSetup
         [] phase = "ROUND_ACTIVE" -> ReevaluateRound
         [] phase = "GAME_OVER" -> Return(<<>>) /\ UNCHANGED <<players, match>>

-----------------------------------------------------------------------------
(* Admission: maybe_admit_player up to its first broadcast, and its tail. *)

MaybeAdmit ==
    /\ Running("maybe_admit_player")
    /\ LET i == Head(todo).slot
       IN  IF ~Complete(i)
           THEN Return(<<>>) /\ UNCHANGED <<players, match>>
           ELSE IF Refuses
           THEN /\ \E lost \in SUBSET ({i} \cap lagging) :
                      Queue(Silence, lost) /\ Return(After(lost))
                /\ UNCHANGED match
           ELSE /\ join_deadline' = IF join_deadline = "unset" THEN "pending"
                                    ELSE join_deadline
                /\ Return((IF join_deadline = "unset" THEN <<Broadcast("LOBBY_OPEN")>>
                           ELSE <<>>) \o <<CallOn("maybe_admit_player.tail", i)>>)
                /\ UNCHANGED <<players, phase, setup_deadline, round_no>>

(* Does not look again whether the broadcast has dropped the joiner: its slot,
   cleared by then, is marked too. *)
AdmitTail ==
    /\ Running("maybe_admit_player.tail")
    /\ LET i == Head(todo).slot
       IN  \/ /\ admitted' = admitted \cup {i}
              /\ waiting' = waiting \cup {i}
              /\ Return(<<Broadcast("JOINED"), Call("broadcast_game_state")>>)
              /\ UNCHANGED <<connected, registered, alive, spawn_chosen, choice,
                             told, lagging>>
           \/ /\ i \in lagging
              /\ Queue(Silence, {i})
              /\ Return(<<Call("reevaluate_state")>>)
    /\ UNCHANGED match

-----------------------------------------------------------------------------
(* The timers of one iteration of the server's loop: advance_match_timers calls
   close_lobby_if_needed, expire_unready_setup_players and the chase tick. *)

CloseLobby ==
    /\ Running("close_lobby_if_needed")
    /\ IF LobbyExpired
       THEN /\ phase' = "SETUP"
            /\ setup_deadline' = "pending"
            /\ Return(<<Broadcast("LOBBY_CLOSED"), Broadcast("SETUP_OPEN"),
                        Call("close_lobby_if_needed.tail")>>)
            /\ UNCHANGED <<players, join_deadline, round_no>>
       ELSE Return(<<>>) /\ UNCHANGED <<players, match>>

(* Mutant: looks again, and leaves SETUP_OPEN the last line it has queued. *)
CloseLobbyTailIfSetup ==
    /\ Running("close_lobby_if_needed.tail")
    /\ IF phase # "SETUP" THEN Return(<<>>) /\ UNCHANGED <<players, match>>
       ELSE IF FewerThanTwo(Admitted) THEN EndGame
       ELSE StartActiveRound

(* Does not look again which phase the two broadcasts have left. *)
CloseLobbyTail ==
    /\ Running("close_lobby_if_needed.tail")
    /\ IF FewerThanTwo(Admitted) THEN EndGame
       ELSE IF AllAdmittedReady THEN StartActiveRound
       ELSE /\ Return(<<Broadcast("WAITING_FOR_OTHERS")>>)
            /\ UNCHANGED <<players, match>>

Expire ==
    /\ Running("expire_unready_setup_players")
    /\ Return(IF SetupExpired
              THEN [k \in 1 .. MaxPlayers |-> CallOn("expire_unready.slot", k - 1)]
                     \o <<Call("expire_unready.tail")>>
              ELSE <<>>)
    /\ UNCHANGED <<players, match>>

ExpireSlot ==
    /\ Running("expire_unready.slot")
    /\ LET i == Head(todo).slot
       IN  IF i \in Admitted /\ ~Ready(i)
           THEN DropLoudly(i) /\ Return(Farewell(i))
           ELSE Return(<<>>) /\ UNCHANGED players
    /\ UNCHANGED match

(* Mutant: the players that were ready all along are not started. *)
ExpireTailEndsOnly ==
    /\ Running("expire_unready.tail")
    /\ IF FewerThanTwo(Admitted) THEN EndGame
       ELSE Return(<<>>) /\ UNCHANGED <<players, match>>

ExpireTail == Running("expire_unready.tail") /\ SettleSetup

(* Mutant: all the captures of a tick are decided before any is made. *)
CapturableAtOnce(S) ==
    \E hunter \in [S -> Alive] :
        /\ \A p, q \in S : hunter[p] = hunter[q] => p = q
        /\ \A p \in S : CanEat(choice[hunter[p]], choice[p])

(* One tick may capture the players of S: each is caught by a hunter of its
   own, and a hunter that is caught as well was caught by somebody whose turn
   came later (chase_simulation.c:98-153, by slot number). *)
Capturable(S) ==
    \E hunter \in [S -> Alive] :
        /\ \A p, q \in S : hunter[p] = hunter[q] => p = q
        /\ \A p \in S : /\ CanEat(choice[hunter[p]], choice[p])
                        /\ hunter[p] \in S => hunter[hunter[p]] > hunter[p]

(* The tick is not due less than CHASE_TICK_SECONDS after the one before. *)
Chase ==
    /\ Running("chase")
    /\ IF phase = "ROUND_ACTIVE"
       THEN \/ \E S \in SUBSET Alive :
                  /\ Capturable(S)
                  /\ alive' = alive \ S
                  /\ Return(<<CallOn("broadcast_positions", 0)>> \o
                            (IF AtMostOneType(Alive \ S, choice)
                             THEN <<Call("reevaluate_state")>> ELSE <<>>))
            \/ Return(<<>>) /\ UNCHANGED alive
       ELSE Return(<<>>) /\ UNCHANGED alive
    /\ UNCHANGED <<connected, registered, admitted, waiting, spawn_chosen, choice,
                   told, lagging, match>>

Step ==
    \/ QueueBroadcast \/ BroadcastGameState \/ BroadcastPositions \/ Reevaluate
    \/ MaybeAdmit \/ AdmitTail
    \/ CloseLobby \/ CloseLobbyTail \/ Expire \/ ExpireSlot \/ ExpireTail \/ Chase

-----------------------------------------------------------------------------
(* What the idle server may be asked to do: connections, commands, timers. *)

(* The fields that connecting, registering and a reset clear. *)
ResetProgress(S) ==
    /\ admitted' = admitted \ S
    /\ alive' = alive \ S
    /\ waiting' = waiting \ S
    /\ spawn_chosen' = spawn_chosen \ S
    /\ choice' = [i \in Slots |-> IF i \in S THEN NoChoice ELSE choice[i]]

(* accept_new_clients, add_player: the first free slot, cleared.  The greeting
   always fits into the empty buffer; a client too many is turned away. *)
Accept(i) ==
    /\ Idle
    /\ i \notin connected
    /\ \A j \in Slots : j < i => j \in connected
    /\ connected' = connected \cup {i}
    /\ registered' = registered \ {i}
    /\ lagging' = lagging \ {i}
    /\ ResetProgress({i})
    /\ told' = [told EXCEPT ![i] = "nothing"]
    /\ UNCHANGED <<match, todo>>

(* queue_lobby_status_for_player *)
LobbyStatus == IF phase = "LOBBY_OPEN" THEN LobbyLine ELSE "LOBBY_CLOSED"

(* HELLO with a fresh name.  Replies to a command are queued unchecked: they
   are lost, and nothing more, when they do not fit. *)
Hello(i) ==
    /\ Idle
    /\ i \in connected \ registered
    /\ registered' = registered \cup {i}
    /\ ResetProgress({i})
    /\ \/ told' = [told EXCEPT ![i] = LobbyStatus]
       \/ i \in lagging /\ UNCHANGED told
    /\ UNCHANGED <<connected, lagging, match, todo>>

(* require_registered_not_admitted: the others are answered with an error. *)
MaySetUp(i) == i \in Registered \ admitted

Choose(i, c) ==
    /\ Idle
    /\ MaySetUp(i)
    /\ choice' = [choice EXCEPT ![i] = c]
    /\ todo' = <<CallOn("maybe_admit_player", i)>>
    /\ UNCHANGED <<connected, registered, admitted, alive, waiting, spawn_chosen,
                   told, lagging, match>>

(* SPAWN x y on a free tile; the tiles are not kept here. *)
Spawn(i) ==
    /\ Idle
    /\ MaySetUp(i)
    /\ spawn_chosen' = spawn_chosen \cup {i}
    /\ todo' = <<CallOn("maybe_admit_player", i)>>
    /\ UNCHANGED <<connected, registered, admitted, alive, waiting, choice, told,
                   lagging, match>>

GetState(i) ==
    /\ Idle
    /\ i \in connected
    /\ \E lost \in SUBSET ({i} \cap lagging) :
          /\ Queue([j \in {i} |-> StateLine(j)], lost)
          /\ todo' = After(lost)
    /\ UNCHANGED match

(* reset_match clears the match, and the slots of registered players.
   Mutants: the count of rounds goes on; the survivors are not cleared. *)
NextMatch ==
    phase' = "LOBBY_OPEN" /\ join_deadline' = "unset" /\ setup_deadline' = "unset"
    /\ UNCHANGED round_no

FreshMatch ==
    phase' = "LOBBY_OPEN" /\ join_deadline' = "unset" /\ setup_deadline' = "unset"
    /\ round_no' = 0

Fallen == Registered \ alive

ResetSlots == Registered

(* REMATCH, from any connected client. *)
Rematch(i) ==
    /\ Idle
    /\ i \in connected
    /\ phase = "GAME_OVER"
    /\ FreshMatch
    /\ ResetProgress(ResetSlots)
    /\ \E lost \in SUBSET (ResetSlots \cap lagging) :
          /\ connected' = connected \ lost
          /\ registered' = registered \ lost
          /\ lagging' = lagging \ lost
          /\ told' = [j \in Slots |-> IF j \in lost THEN "nothing"
                                      ELSE IF j \in ResetSlots THEN "LOBBY_WAITING"
                                      ELSE told[j]]
    /\ UNCHANGED todo

(* Mutant: the departure is announced and its consequences are not drawn. *)
LeaveUnseen(i) ==
    /\ Idle
    /\ i \in connected
    /\ DropLoudly(i)
    /\ todo' = Farewell(i)
    /\ UNCHANGED match

(* QUIT, a closed or failed connection, an overfull input buffer. *)
Leave(i) ==
    /\ Idle
    /\ i \in connected
    /\ DropLoudly(i)
    /\ todo' = Farewell(i) \o <<Call("reevaluate_state")>>
    /\ UNCHANGED match

(* The end of every iteration of the loop; taken only where it does something. *)
Timers ==
    /\ Idle
    /\ LobbyExpired \/ SetupExpired \/ phase = "ROUND_ACTIVE"
    /\ todo' = <<Call("close_lobby_if_needed"), Call("expire_unready_setup_players"),
                 Call("chase")>>
    /\ UNCHANGED <<players, match>>

-----------------------------------------------------------------------------
(* The environment: the clock and the clients' sockets. *)

JoinWindowEnds ==
    /\ Idle
    /\ join_deadline = "pending"
    /\ join_deadline' = "passed"
    /\ UNCHANGED <<players, phase, setup_deadline, round_no, todo>>

(* setup_deadline is compared with the clock in PHASE_SETUP only. *)
SetupWindowEnds ==
    /\ Idle
    /\ phase = "SETUP"
    /\ setup_deadline = "pending"
    /\ setup_deadline' = "passed"
    /\ UNCHANGED <<players, phase, join_deadline, round_no, todo>>

FallBehind(i) ==
    /\ Idle
    /\ i \in (connected \cap MayLag) \ lagging
    /\ lagging' = lagging \cup {i}
    /\ UNCHANGED <<connected, registered, admitted, alive, waiting, spawn_chosen,
                   choice, told, match, todo>>

(* flush_player_output gets rid of what the client had not read. *)
CatchUp(i) ==
    /\ Idle
    /\ i \in lagging
    /\ lagging' = lagging \ {i}
    /\ UNCHANGED <<connected, registered, admitted, alive, waiting, spawn_chosen,
                   choice, told, match, todo>>

Command(i) ==
    Hello(i) \/ (\E c \in Picks : Choose(i, c)) \/ Spawn(i) \/ GetState(i) \/ Rematch(i)

(* init_server_state *)
Init ==
    /\ connected = {} /\ registered = {} /\ admitted = {}
    /\ alive = {} /\ waiting = {} /\ spawn_chosen = {} /\ lagging = {}
    /\ choice = [i \in Slots |-> NoChoice]
    /\ told = [i \in Slots |-> "nothing"]
    /\ phase = "LOBBY_OPEN"
    /\ join_deadline = "unset" /\ setup_deadline = "unset"
    /\ round_no = 0
    /\ todo = <<>>

Next ==
    \/ Step
    \/ Timers \/ JoinWindowEnds \/ SetupWindowEnds
    \/ \E i \in Slots :
          Accept(i) \/ Command(i) \/ Leave(i) \/ FallBehind(i) \/ CatchUp(i)

Spec == Init /\ [][Next]_vars

(* The functions return: they contain no wait.  The clock runs and every
   iteration of the loop ends with the timers, however often the clients'
   commands keep the server busy in between: hence strong fairness. *)
Fairness ==
    /\ WF_vars(Step) /\ SF_vars(Timers)
    /\ SF_vars(JoinWindowEnds) /\ SF_vars(SetupWindowEnds)

FairSpec == Spec /\ Fairness

(* PHASE_SETUP as test_runner.c:383-406 builds it: players that were admitted
   without a choice or a spawn, or with both, and have not got alive yet or are
   already.  The server itself never rests there (NoSetupAtRest). *)
InSetup ==
    /\ connected \in SUBSET Slots \ {{}} /\ registered = connected /\ admitted = connected
    /\ alive \in {{}, connected} /\ waiting = connected \ alive
    /\ spawn_chosen \in SUBSET connected
    /\ choice \in {f \in [Slots -> Picks \cup {NoChoice}] :
                    \A i \in Slots \ connected : f[i] = NoChoice}
    /\ told = [i \in Slots |-> IF i \in connected THEN "SETUP_OPEN" ELSE "nothing"]
    /\ phase = "SETUP" /\ join_deadline = "unset" /\ setup_deadline = "pending"
    /\ round_no = 0
    /\ lagging = {} /\ todo = <<>>

-----------------------------------------------------------------------------
(* Properties. *)

Phases == {"LOBBY_OPEN", "SETUP", "ROUND_ACTIVE", "GAME_OVER"}
Deadlines == {"unset", "pending", "passed"}
Lines == {"LOBBY_OPEN", "LOBBY_CLOSED", "SETUP_OPEN", "ROUND_START",
          "WAITING_FOR_OTHERS", "PLAYER", "JOINED", "LEFT"}
Procedures == {"reevaluate_state", "broadcast_game_state", "close_lobby_if_needed",
               "close_lobby_if_needed.tail", "expire_unready_setup_players",
               "expire_unready.tail", "chase"}
SlotProcedures == {"maybe_admit_player", "maybe_admit_player.tail",
                   "expire_unready.slot"}
Calls == [fn : {"queue_broadcast"}, line : Lines]
            \cup [fn : Procedures]
            \cup [fn : SlotProcedures, slot : Slots]
            \cup [fn : {"broadcast_positions"}, slot : 0 .. MaxPlayers]

(* The types of the state: the flags are sets of slots, REPICK is never
   entered, the stack holds calls of the functions modelled here. *)
TypeOK ==
    /\ connected \subseteq Slots /\ registered \subseteq connected
    /\ admitted \subseteq Slots /\ alive \subseteq Slots /\ waiting \subseteq Slots
    /\ spawn_chosen \subseteq Slots /\ lagging \subseteq Slots
    /\ choice \in [Slots -> Choice \cup {NoChoice}]
    /\ told \in [Slots -> ProgressLines \cup {"nothing"}]
    /\ phase \in Phases
    /\ join_deadline \in Deadlines /\ setup_deadline \in Deadlines
    /\ round_no \in Nat
    /\ todo \in Seq(Calls)

(* Every admitted player has a choice and a spawn, whatever is dropped, reset
   or re-used between its commands and the tail of its admission
   (server_state.c:309-356).  all_admitted_ready and the chase read both. *)
AdmittedReady == \A i \in Admitted : Ready(i)

(* PHASE_SETUP is over before the iteration that entered it ends: the broadcasts
   of close_lobby_if_needed and its tail leave no path that stays in it
   (server_state.c:519-548).  The setup deadline is never waited for. *)
NoSetupAtRest == Idle => phase # "SETUP"

(* A round at rest has two players alive: every drop, wherever it happens in the
   stack, is followed by a reevaluation before the server waits again. *)
RoundHasRivals == Idle /\ phase = "ROUND_ACTIVE" => ~FewerThanTwo(Alive)

(* Nobody is alive before a match starts, everybody admitted waits for it, and
   when it runs nobody admitted waits: start_round, reset_match, the admission
   and the re-use of slots agree on the two flags (game.c:105-133). *)
FlagsFollowPhase ==
    /\ phase \in {"LOBBY_OPEN", "SETUP"} => Alive = {} /\ Admitted \subseteq waiting
    /\ phase = "ROUND_ACTIVE" => Admitted \cap waiting = {}

(* Those who win a match hold one choice, by whatever path of elimination,
   departures and nested calls it ended: end_game is called from four places
   and trusts each (server_state.c:203-206, 398-415). *)
Winners == {i \in Slots : WonMatch(i)}

OneTypeWins == phase = "GAME_OVER" => AtMostOneType(Winners, choice)

(* At rest every admitted player has been told, last, what the match is at: that
   the round runs, or whether it has won or lost.  The nested broadcasts of a
   dropped client reach it in an order nobody planned. *)
Informed ==
    Idle => /\ phase = "ROUND_ACTIVE" => \A i \in Admitted : told[i] = "ROUND_START"
            /\ phase = "GAME_OVER" => \A i \in Admitted : told[i] = Verdict(i)

(* An empty lobby at rest is not counting down: the last admitted player's
   departure is always seen by reevaluate_lobby_open (server_state.c:448-454). *)
EmptyLobbyWaits ==
    Idle /\ phase = "LOBBY_OPEN" /\ Admitted = {} => join_deadline = "unset"

(* One match starts its round at most twice, however the starts are nested. *)
AtMostTwoStarts == round_no <= 2

(* Nobody joins a match outside its lobby, although the tail of the admission
   does not look at the phase again (server_state.c:345-346). *)
AdmissionOnlyInLobby ==
    [][~(Admitted' \subseteq Admitted) => phase = "LOBBY_OPEN" /\ phase' = "LOBBY_OPEN"]_vars

(* Nobody plays that has not finished its setup, whoever leaves while the others
   are still setting up and however the setup deadline is met
   (server_state.c:456-468, 550-581). *)
UnreadyNeverPlay == phase = "ROUND_ACTIVE" => \A i \in Alive : Ready(i)

(* A setup ends, though the players in it can send nothing that the server
   would take: by their departure or by its deadline. *)
SetupResolves == phase = "SETUP" ~> phase # "SETUP"

(* The calls of reevaluate_state, queue_broadcast and broadcast_game_state to
   one another end: each nested call has dropped a client or changed phase. *)
HandlersReturn == ~Idle ~> Idle

(* What a call may still cost: it is more than the calls it may make.  Starting a
   round is the dearest of them, and each client that may still be dropped by a
   broadcast may bring about one more reevaluation, which may start one. *)
StartCost == 2 * MaxPlayers + 3

Cost(c) ==
    CASE c.fn \in {"queue_broadcast", "broadcast_game_state"} -> 1
      [] c.fn = "broadcast_positions" -> 2 * (MaxPlayers - c.slot) + 1
      [] c.fn \in {"reevaluate_state", "close_lobby_if_needed.tail",
                   "expire_unready.tail"} -> StartCost
      [] c.fn \in {"maybe_admit_player.tail", "expire_unready.slot"} -> 3
      [] c.fn = "maybe_admit_player" -> 5
      [] c.fn = "close_lobby_if_needed" -> StartCost + 3
      [] c.fn = "expire_unready_setup_players" -> StartCost + 3 * MaxPlayers + 1
      [] c.fn = "chase" -> 2 * StartCost - 1

CostOf(calls) ==
    LET sum[k \in 0 .. Len(calls)] == IF k = 0 THEN 0 ELSE sum[k - 1] + Cost(calls[k])
    IN  sum[Len(calls)]

Outstanding == CostOf(todo) + StartCost * Cardinality(lagging)

(* Every step of a running handler brings it nearer to its return: the calls of
   reevaluate_state, queue_broadcast and broadcast_game_state to one another go
   on only at the expense of the clients still connected, and the loops of
   broadcast_positions and expire_unready_setup_players advance
   (server_state.c:41-111, 492-517, 550-581). *)
NestedCallsRunOut == [][~Idle => Outstanding' < Outstanding]_vars

(* A running join window ends: the lobby closes, or it is unset. *)
LobbyCloses ==
    join_deadline = "pending" ~>
        Idle /\ (phase # "LOBBY_OPEN" \/ join_deadline = "unset")

-----------------------------------------------------------------------------
(* What the comments, tests and documents of the repository say and the code
   does not do. *)

(* common.h:74, "Match ended; rematch may reset back to lobby." *)
GameOverIsFinal ==
    [][phase = "GAME_OVER" => phase' \in {"GAME_OVER", "LOBBY_OPEN"}]_vars

(* test_runner.c:237 checks that the join window runs once a player has been
   admitted to the lobby. *)
JoinWindowRuns ==
    Idle /\ phase = "LOBBY_OPEN" /\ Admitted # {} => join_deadline # "unset"
=============================================================================
