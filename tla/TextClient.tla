----------------------------- MODULE TextClient -----------------------------
(***************************************************************************)
(* The terminal client as a value: what it believes of the match            *)
(* (ClientState, client_state.h), how a line of the server changes that     *)
(* (client_text_messages.c), and which commands its loop sends for it       *)
(* (client_text.c).  Session runs one of these per connection.              *)
(*                                                                         *)
(* Left out: what is only drawn (texts, countdowns, coordinates, the        *)
(* highlighted choice, SPAWN_OK), and PAIR and BYE, which no server sends.  *)
(* A snapshot, STATE_BEGIN to STATE_END, is one line of the model.          *)
(***************************************************************************)
EXTENDS Integers, Sequences, FiniteSets, Rps

NoName == ""

Line(l) == [line |-> l]

(* The order of a roster is only drawn: it is a set of entries. *)
Entry(who, life) == [who |-> who, life |-> life]

(* init_client_state, after which main has sent GET_STATE. *)
NewClient(n) ==
    [name_input |-> n, pending_name |-> NoName, my_name |-> NoName,
     name_registered |-> FALSE, name_check_pending |-> FALSE,
     state_request_sent |-> TRUE,
     can_attempt_join |-> FALSE, joined_match |-> FALSE, choice_confirmed |-> FALSE,
     repick_phase |-> FALSE, game_over |-> FALSE, match_result |-> 0,
     players |-> {}]

(* AutoJoinConfig: the command line's choice and tile, if it has them. *)
AutoJoin(is_enabled, c, t) ==
    [enabled |-> is_enabled, choice |-> c, tile |-> t,
     hello_sent |-> FALSE, choice_sent |-> FALSE, spawn_sent |-> FALSE]

-----------------------------------------------------------------------------
(* client_text_messages.c: one operator per group of lines. *)

(* Mutant: a name that is known already gets a second entry. *)
AddPlayer(roster, entry, room) ==
    IF Cardinality(roster) < room THEN roster \cup {entry} ELSE roster

(* PLAYER: the entry of that name, or a free one, or none if there is none. *)
UpsertPlayer(roster, entry, room) ==
    LET others == {e \in roster : e.who # entry.who}
    IN  IF others # roster \/ Cardinality(roster) < room
        THEN others \cup {entry} ELSE roster

(* Mutant: the answer is taken for good and the question stays open. *)
WelcomedUnchecked(c) ==
    [c EXCEPT !.my_name = c.pending_name, !.name_registered = TRUE]

Welcomed(c) ==
    [c EXCEPT !.my_name = IF c.pending_name = NoName THEN @ ELSE c.pending_name,
              !.name_registered = TRUE, !.name_check_pending = FALSE]

(* Mutant: a client that was in the match thinks it still is. *)
ResetStillJoined(c) ==
    [c EXCEPT !.players = {}, !.repick_phase = FALSE, !.game_over = FALSE,
              !.can_attempt_join = TRUE, !.choice_confirmed = FALSE,
              !.match_result = 0]

ResetByServer(c) ==
    [c EXCEPT !.players = {}, !.repick_phase = FALSE, !.game_over = FALSE,
              !.can_attempt_join = TRUE, !.joined_match = FALSE,
              !.choice_confirmed = FALSE, !.match_result = 0]

Results == [WIN |-> 1, LOSE |-> -1]

(* GAME_OVER WIN and GAME_OVER LOSE; the bare GAME_OVER has no blank after it
   and matches no entry of the dispatch table. *)
Over(c, verdict) ==
    IF verdict \in DOMAIN Results
    THEN [c EXCEPT !.game_over = TRUE, !.match_result = Results[verdict]]
    ELSE c

(* The lines that say how far the match is, alone or in a snapshot. *)
Progress(c, l) ==
    CASE l \in {"LOBBY_WAITING", "LOBBY_OPEN"} -> [c EXCEPT !.can_attempt_join = TRUE]
      [] l = "LOBBY_CLOSED" -> [c EXCEPT !.can_attempt_join = FALSE]
      [] l \in {"ROUND_START", "REPICK_DONE"} -> [c EXCEPT !.repick_phase = FALSE]
      [] l = "REPICK_START" -> [c EXCEPT !.repick_phase = TRUE]
      [] OTHER -> Over(c, l)

(* LOBBY_CLOSED comes first in the snapshots of a match under way. *)
Snapshot(c, m) ==
    LET closed == IF m.progress \in {"SETUP_OPEN", "ROUND_START", "REPICK_START"}
                  THEN Progress(c, "LOBBY_CLOSED") ELSE c
    IN  [Progress(closed, m.progress) EXCEPT !.players = m.players]

Refused(c, l) ==
    CASE l = "ERROR lobby_closed" -> [c EXCEPT !.can_attempt_join = FALSE]
      [] l = "ERROR duplicate_name" ->
            [c EXCEPT !.name_check_pending = FALSE, !.name_registered = FALSE]
      [] l = "ERROR already_registered" ->
            [c EXCEPT !.name_check_pending = FALSE, !.name_registered = TRUE]
      [] l = "ERROR register_first" -> [c EXCEPT !.name_registered = FALSE]
      [] OTHER -> c

Refusals == {"ERROR lobby_closed", "ERROR duplicate_name", "ERROR already_registered",
             "ERROR register_first", "ERROR already_joined", "ERROR spawn_taken",
             "ERROR rematch_not_available", "ERROR not_in_repick_phase"}

(* handle_server_line; room is MAX_PLAYERS. *)
HandleServerLine(c, m, room) ==
    CASE m.line = "WELCOME" -> Welcomed(c)
      [] m.line = "MATCH_RESET" -> ResetByServer(c)
      [] m.line = "STATE" -> Snapshot(c, m)
      [] m.line = "PLAYER" -> [c EXCEPT !.players = UpsertPlayer(@, m.entry, room)]
      [] m.line = "LEFT" -> [c EXCEPT !.players = {e \in @ : e.who # m.who}]
      [] m.line = "CHOICE_OK" -> [c EXCEPT !.choice_confirmed = TRUE]
      [] m.line = "JOINED_MATCH" ->
            [c EXCEPT !.joined_match = TRUE, !.can_attempt_join = FALSE]
      [] m.line \in Refusals -> Refused(c, m.line)
      [] OTHER -> Progress(c, m.line)

(* pump_client_network hands over the complete lines it has, one after another. *)
AfterLines(c, lines, room) ==
    LET after[n \in 0 .. Len(lines)] ==
            IF n = 0 THEN c ELSE HandleServerLine(after[n - 1], lines[n], room)
    IN  after[Len(lines)]

-----------------------------------------------------------------------------
(* client_text.c: what may be sent, and what one iteration of the loop sends
   after the lines have been read. *)

GetStateCommand == [cmd |-> "GET_STATE"]

MaySendHello(c) == ~c.name_registered /\ ~c.name_check_pending /\ c.name_input # NoName

(* maybe_send_hello *)
SendingHello(c) ==
    [c EXCEPT !.pending_name = c.name_input, !.name_check_pending = TRUE,
              !.state_request_sent = FALSE]

MayJoin(c) ==
    /\ c.name_registered /\ ~c.game_over /\ c.can_attempt_join
    /\ ~c.joined_match /\ ~c.repick_phase

MaySpawn(c) == MayJoin(c) /\ c.choice_confirmed

AutoHello(auto, c) == auto.enabled /\ MaySendHello(c) /\ ~auto.hello_sent
AutoChoice(auto, c) == auto.enabled /\ MayJoin(c) /\ ~auto.choice_sent

(* Mutant: looks at the flag of the other command. *)
AutoSpawnUnlessChosen(auto, c) == auto.enabled /\ MaySpawn(c) /\ ~auto.choice_sent

AutoSpawn(auto, c) == auto.enabled /\ MaySpawn(c) /\ ~auto.spawn_sent

HasToSend(auto, c) ==
    AutoHello(auto, c) \/ AutoChoice(auto, c) \/ AutoSpawn(auto, c) \/ ~c.state_request_sent

(* The commands of one iteration, in the order of the loop; each of them asks
   for a new snapshot, which the same iteration requests. *)
IterationSends(auto, c) ==
       (IF AutoHello(auto, c) THEN <<[cmd |-> "HELLO", name |-> c.name_input]>> ELSE <<>>)
    \o (IF AutoChoice(auto, c) THEN <<[cmd |-> "CHOICE", choice |-> auto.choice]>> ELSE <<>>)
    \o (IF AutoSpawn(auto, c) THEN <<[cmd |-> "SPAWN", tile |-> auto.tile]>> ELSE <<>>)
    \o (IF HasToSend(auto, c) THEN <<GetStateCommand>> ELSE <<>>)

AfterIteration(auto, c) ==
    [(IF AutoHello(auto, c) THEN SendingHello(c) ELSE c) EXCEPT !.state_request_sent = TRUE]

AutoAfterIteration(auto, c) ==
    [auto EXCEPT !.hello_sent = @ \/ AutoHello(auto, c),
                 !.choice_sent = @ \/ AutoChoice(auto, c),
                 !.spawn_sent = @ \/ AutoSpawn(auto, c)]
=============================================================================
