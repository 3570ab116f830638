# Verification of the rock-paper-scissors battle royale

The repository is a small TCP game. A single-threaded server (`src/src/server.c`) keeps
up to `MAX_PLAYERS` clients in a table of slots, takes their text commands, closes a lobby
when its join window has passed, and then moves the players on a plane until those left
hold one choice. A terminal client (`client_text.c`) draws the match and sends the commands. This directory holds TLA+ modules translated from that code, the TLC
configurations that check them, and TLAPS proofs about them.

Sources are named below without their leading `src/src/`.

## 1. The system

### Components, their state and their operations

| Component | Source | State | Operations | What makes it correct |
|---|---|---|---|---|
| Match lifecycle and broadcasts | `server_state.c` | `ServerState`: phase, three deadlines, round number, the slots | `maybe_admit_player`, `close_lobby_if_needed`, `expire_unready_setup_players`, `advance_match_timers`, `reevaluate_state`, `end_game`, `reset_match`, `drop_player`, `queue_broadcast`, `broadcast_game_state`, `broadcast_positions`, `resolve_round`, `finish_repicks` | a match is entered only in its lobby, begins with two ready players, goes on only while it has rivals, ends once with one choice, and every player is told |
| Commands | `server_commands.c` | none of its own | `HELLO`, `CHOICE`, `SPAWN`, `REPICK`, `GET_STATE`, `REMATCH`, `QUIT` | a command is refused in a phase it does not belong to; names and tiles are unique |
| Game predicates and rounds | `game.c`, `game.h` | none of its own | `add_player`, the `player_is_*` predicates and counts, `all_admitted_ready`, `start_round`, `build_pairs`, `rps_result` | the flags of a slot agree with each other and with the phase; every alive player is paired once or has the bye |
| Chase simulation | `chase_simulation.c` | positions, `alive` | `simulate_chase_tick` | prey is caught by a hunter that is still alive; somebody is left; rounds end |
| Line protocol | `protocol.c` | `inbuf`, `outbuf` of a slot | `queue_line`, `flush_player_output`, `read_into_player_buffer`, `pop_line` | lines arrive whole, in order, or the client is dropped; a buffer is never overrun |
| Event loop | `server.c` | descriptor sets, time of the last tick | accept, reads, writes, timers | every iteration serves every ready socket and ends with the timers |
| Text client | `client_text.c`, `client_text_messages.c`, `client_network.c`, `client_state.h` | roster, phase seen, what may be sent | one handler per line of the server, one per prompt | its picture follows the server's; it sends what the server takes |
| Tests, scripts, build, prose | `tests/`, `scripts/`, `CMakeLists.txt`, `makefile`, `README.md`, `scripts.txt`, `video.txt` | | | not program logic; quoted where the code disagrees with them |

### How they interact

The event loop is the only caller. In each iteration it accepts at most one connection,
reads each ready client and executes the lines it has sent (commands), flushes each ready
client, and calls `advance_match_timers`. Commands and timers call the match lifecycle; the
lifecycle asks the game predicates, starts rounds, lets the chase move players and queues
lines into the slots' output buffers. Clients are separate processes: a stream of lines
in each direction is all that connects them to the server. A terminal client runs a loop of its own, which
reads what has arrived, sends what it was started with, and asks for a snapshot whenever it has
sent a command. Its picture of the match is made of the answers, the
broadcasts and the snapshots, in the order in which they arrive.

### What is hard

There are no threads, yet the server's functions are *not atomic*. `queue_line` fails when
the output buffer of a client is full: the client does not read, or one iteration queues more than
8192 bytes to it before anything is flushed. `queue_broadcast` and `broadcast_game_state` then
drop that client and call `reevaluate_state`, which may start or end the match and broadcast
again, which may drop another client. All of it happens inside the function that broadcast
first, and that function goes on with what it had decided before. So one call may
start a match that a nested one has started already, or has ended; mark a slot that
has been emptied; or leave a deadline unset that it has just set. Filling an 8192-byte
buffer at such a moment is out of reach of the repository's tests.

Client and server act on what they last heard of each other: a client sends commands that were
right when it pressed the key, and the server checks a tile when it is asked for and not when it is taken.

The other sources of trouble are the order in which lines are queued relative to the change
they report, the flags and choices that survive from one match to the next or from one
owner of a slot to the next, the order by slot number in which one tick of the chase moves
and catches, the seams
at which the two kernels cut the stream of bytes, and the two windows that have to end. `PROJECT.json` lists the hazards at
their lines, with the properties that watch them.

## 2. The modules

| Module | Role |
|---|---|
| `Rps` | choices, `CanEat` (`chase_simulation.c`, `can_eat`), `AtMostOneType` |
| `MatchServer` | the core: everything of `server_state.c` and `server_commands.c` that the server program reaches, over the slots of `game.c`; its properties |
| `Match` | abstract specification: what the server promises its players |
| `MCMatchServer` | values of the constants for TLC, the refinement mapping to `Match` |
| `Rounds`, `MCRounds` | on top of `MatchServer`: the functions only tests reach (`resolve_round`, `build_pairs`, `finish_repicks`, REPICK), from the states of the unit tests |
| `TextClient` | one terminal client as operators: how each line of the server changes its state, what it may send, what it sends by itself |
| `Session`, `MCSession` | `MatchServer` with names and tiles, composed with a `TextClient` in every slot over two streams per connection |
| `ChaseRow` | `simulate_chase_tick` hunter by hunter; its ticks implement the one-step chase of `MatchServer` |
| `LineStream` | abstract specification of a connection: lines arrive whole, once and in order, or it breaks |
| `Framing`, `MCFraming` | `protocol.c` byte by byte, shown to implement `LineStream` |
| `MatchServerProofs`, `AtRestProofs` | theorems of `MatchServer`: of every state, and that every handler returns; of states at rest, how often a match starts and who has been told |
| `MatchProofs` | `MatchServer` implements `Match`; how many slow clients each of the server's lapses takes |
| `RoundsProofs` | theorems of `Rounds` |
| `SessionProofs` | theorems of `Session`, among them that it implements `MatchServer`; its types, the fold of a client over the lines it reads |
| `BeliefProofs` | theorems of `Session` on what its clients believe |
| `ChaseProofs` | theorems of `ChaseRow` |
| `FramingProofs` | theorems of `Framing`, among them that it implements `LineStream` |

### `MatchServer` and the code

* **Slots.** A slot is a number below `MaxPlayers`. Each flag of `Player` (`connected`,
  `registered`, `admitted`, `alive`, `waiting`, `spawn_chosen`) is the set of the slots in
  which it is set. `choice[i]` is `NoChoice` where `choice_chosen` is 0. `Registered`,
  `Admitted`, `Alive` are the predicates of `game.c`, which conjoin flags: the variable
  `admitted` and the set `Admitted` differ exactly where the code's flag is set in a slot
  that is not connected.
* **Control stack.** `todo` is the sequence of calls still to be made, the running one
  first. A function that broadcasts is one action up to the broadcast (`MaybeAdmit`,
  `CloseLobby`) and another after it (`AdmitTail`, `CloseLobbyTail`); the loops that
  broadcast in their body (`BroadcastPositions`, `ExpireSlot`) take one action per
  iteration. Actions of `Step` run the head of the stack. Everything else needs
  `Idle`, the empty stack: the server takes no command and looks at no clock while a
  function runs. `end_game` and `reset_match` queue lines and drop clients, but neither
  announces nor reevaluates, so each stays within one action.
* **Slow clients.** `lagging` holds the slots whose output buffer may be too full for
  the next line, because the client is slow or because much is queued between two flushes; "slow" stands for both below. Whether a line fits is then a nondeterministic choice per line; bytes are
  not counted. Only the slots of `MayLag` ever fall behind. Where the code queues a reply
  without looking at the result, the reply is lost and nothing else happens (`Hello`).
* **Lines.** Only the lines that tell a client how far the match is are kept, and of these
  only the last one queued to a slot, in `told`. A snapshot (`broadcast_game_state`,
  `GET_STATE`) counts as its progress line.
* **Deadlines** are `"unset"`, `"pending"` or `"passed"`. `JoinWindowEnds` and
  `SetupWindowEnds` are the clock. `setup_deadline` is read in `PHASE_SETUP` only, and so
  it passes there only.
* **Chase.** Positions are left out. A tick catches nobody, or a set of players that
  one pass over the slots can catch (`Capturable`): each by a hunter of its own that beats
  it, and a hunter that is itself caught has been caught by somebody whose turn came later.
  `ChaseRow` shows that the code's loop does no more.
* **Event loop.** `Accept`, `Command`, `Leave` (QUIT, a closed or failed connection, an
  input buffer without a newline), `CatchUp` (a flush) and `Timers` are interleaved freely,
  which contains every order the loop can take. `Timers` is taken only
  where it has something to do.

`MatchServer` knows neither names nor tiles: its `Hello` is a HELLO with a free name, its
`Spawn` a SPAWN on a free tile, and the refusals of the others change nothing but replies.
`Session` adds both.

### `Match` and the mapping

`Match` knows a stage (lobby, playing, over), who is standing, who has fallen and each
player's pick. It allows: entering a lobby, leaving, beginning with two players, eliminating
players that somebody standing beats as long as somebody is left, finishing when there is
nobody to eat, and resetting. The mapping of `MCMatchServer` reads PHASE_SETUP as the
last moment of the lobby and "standing" as `player_won_match`: admitted, and alive or
waiting. Nested calls, deadlines and lines are stuttering steps.

### `Rounds`

`PHASE_REPICK` is entered by `resolve_round` only, which no function of the server program calls.
These functions are public and tested all the same. `Rounds` takes the steps of `MatchServer` as
they are and adds `in_round`, `repick_choice` and the calls of `resolve_round` and
`finish_repicks` on the same stack, so that dropped clients nest into them in the same way.
`build_pairs` prefers the nearest two; places are not kept, so any pairing may be the one: `Pairings` is the set of
the sets of disjoint pairs that leave at most one player over.
`Follow` is what the functions of `MatchServer` do to the added fields. The initial states are
those of `test_runner.c:383-406` (`InSetup` of `MatchServer`: PHASE_SETUP with players who are not ready, which the server
program cannot get into, since `AdmittedReady` and `NoSetupAtRest` are proved; it makes
`expire_unready_setup_players` dead code behind the public interface) and of
`test_runner.c:414-450` (`InRound`: a round with everybody in it).

### `TextClient` and `Session`

A client's state is a record with the fields of `ClientState` that decide something. The
fifteen or so lines of the server it knows are the cases of `HandleServerLine`
(`client_text_messages.c`); `IterationSends` and `AfterIteration` are one turn of its main loop.
Its picture of the other players is a set of entries (name, and alive, waiting or out).

`Session` extends `MatchServer`: a server step of `Session` is a step of `MatchServer` that also
appends lines to the streams of the clients (`Said`: which line a broadcast of the running call
puts where, with the names and the roster of that moment) and maintains `name` and `tile`.
`Serve` takes the first command off a stream and
is refused or not as in `server_commands.c`, names and tiles included. A client reads any
number of lines at a time (`Iterate`), its user presses keys whenever the client allows it, and the process may
stop at any time, leaving its commands unread or not. Two reductions keep the product small, and
neither hides an order of events: clients move only while the server is idle (a handler flushes
nothing, so nobody can see the middle of it), and the server takes its next command only once the clients have
at most `MaxUnread` lines unread, while its users wait with `MaxUnserved` commands unserved. With the first bound 0, as in the runs, a client is never more than one handler's output behind; its own commands
may still cross with that output. No output buffer fills (`MayLag = {}`). That is an abstraction, and nothing the code or its
clients guarantee: a terminal client that is stopped fills its buffer, and so may one that reads, when one pass over 32 slots serves many
commands, each with its broadcasts, before the first flush (`server.c:150-193`). What the drops that follow do to the match is
the subject of `MatchServer`; what they do to the pictures of the clients is not modelled. Left out of the client: key G (one more GET_STATE), drawing, the cursor, the editing of a
name (any name may be typed), and a server that goes away.

### `ChaseRow`

The loop of `simulate_chase_tick` takes one action per slot (`Turn`) and one for the end of the tick.
Players stand in one row, lengths are whole numbers, and a step is a fixed `Stride`: distance,
nearest prey with ties by slot, contact before and after the move, and a move that does not overshoot are those of
the code. The plane's diagonals and the rounding of floats are not modelled. `caught` and `catcher` are the history of
the tick; `Server` instantiates `MatchServer` at the beginning of the tick, so that `Capturable` is
the very definition that `MatchServer` uses.

### `Framing` and `LineStream`

One direction of one connection: `outbuf`, `wire` (both kernels), `inbuf`, and two
histories, the lines sent and the lines handed to the receiver. The sender is the server (`queue_line` and
`flush_player_output`), the terminal client (`send_line`) or a program of another make that writes what
it likes. `recv` returns any chunk, `send` takes any part, the connection may be closed or reset with
data on the way. `LineStream` is the promise; `Fit` is what `pop_line` makes of
a line too long for its buffer or ended in `\r\n`.

## 3. The runs

| Run | Instance | Distinct states | What it asks |
|---|---|---|---|
| `lag` | `MatchServer`, 4 slots, one pick, two clients may lag | 3.8 M | what stays true of the flags, the phase and the lines while dropped clients nest starts and ends in one another |
| `match` | `MatchServer`, 3 slots, all picks, one client may lag | 0.6 M | does the server implement `Match`; does one choice win |
| `live` | `MatchServer`, 2 slots, two picks, both may lag, also from the setups of the unit tests | 67 k | do nested calls return; does the join window end |
| `fixture` | `Rounds`, 4 slots, two picks, one client may lag, 2 rounds | 0.5 M | do the functions behind the public interface keep the game's rules, and does a setup end |
| `session` | `Session`, 3 slots: a client that joins by itself, one with a user, one that watches | 2.6 M | do the clients have the server's picture when nothing is on its way |
| `session_live` | `Session`, 2 slots, both clients join by themselves, with rival names and tiles | 33 k | is every HELLO answered; does every client get in; are names unique |
| `chase` | `ChaseRow`, 4 players on 4 tiles of 4 units, radius 2, stride 1 | 0.3 M | does a tick capture what `MatchServer` lets it; does a round end |
| `framing` | `Framing`, 4 lines of up to 7 bytes, `MAX_LINE` 5, chunks of 3, buffers of 8 and 5 | 0.2 M | does `protocol.c` implement `LineStream` |
| `game_over_final` | `MatchServer`, 4 slots, one pick, two may lag | | statements of the repository |
| `join_window` | `MatchServer`, 3 slots, two picks, two may lag | | that the code does |
| `spectators`, `tiles` | `Session`, 2 slots | | not keep |

Deadlock is checked in every run but two: a server that cannot move is never legitimate. `chase`
ends with its round, and `framing` with its connection or at `MaxSent`.

**Why the bounds are enough.** The deepest nesting known, a match that ends and is
resurrected, needs four slots: two lagging clients, one dropped by each of two nested
broadcasts, and two players left for the resurrected match. The `lag` run has exactly that,
and `game_over_final` shows that it reaches it. A third lagging client would repeat
what the second does. Which choice a player holds matters to what `lag` checks only through
"one type or more", so it has one pick (and then a round that begins ends at its first
reevaluation). The opposite case, rounds of several types, is the business of `match`, which
has all three. That run has one lagging client since with two the code does not
implement `Match`: that is the finding of `game_over_final`, and no weaker promise is
substituted for it. Liveness needs the fewest slots: recursion shrinks by one client
at each level. No state constraint is used; `round_no` needs none, being bounded by 2
(`AtMostTwoStarts`, proved). No symmetry is used, the slot order being significant.

`fixture` has four slots, since a round of two pairs is the first in which a drop
in one pair can disturb the other, and two rounds, so that a round follows a repick. `session` needs three clients for
somebody to learn of a departure from a broadcast while a match goes on between two others; each kind
of client occurs once, and the slots are re-used. `chase` has four players, of all 81
combinations of choices: the smallest number at which a cycle of three, a bystander and two hunters of one prey occur;
moves
fall short of contact and reach it. They never come to the limit at the prey's place, as in the program: a step (0.8 a second at 60 ticks,
or 0.05 s in the tests) is smaller than the radius of 0.5, within which prey is caught before the move. The proofs hold of every
stride, with that limit. In `framing` the input buffer has room for a longest line and a chunk, as in
`common.h` (256 and 256 of 1024), and the output buffer for one longest line but not for two, so that it is often
full; at this size every seam between two chunks is tried.

**Fairness.** `FairSpec` of `MatchServer`: `WF Step`, as the server's functions contain no wait, so
a call in progress goes on; `SF Timers`, `SF JoinWindowEnds`, `SF SetupWindowEnds`, as
every iteration of the loop ends with the timers and the clock runs whatever the clients
do, while commands make the server non-idle again and again and so disable
these actions for an instant. Nothing is assumed of clients: none has to send, read or
leave. Nor is the chase assumed to catch anybody. `Rounds` assumes the same of its calls and timers.
`Session`: `WF Handle` for the same reason, and for each slot `SF` of the service of its commands and of its
client's loop: both loops come round to every ready socket, but are disabled in between whenever
the other side is busy. No user is assumed to press a key. `ChaseRow`: `WF Next`, as the main loop ticks at least
every `CHASE_TICK_USEC`. `Framing`: `WF` of `Flush`, `Read` and `PopLine`, as `select` tells both
loops of a ready socket.

### What the passing runs show

* `TypeOK`: the types of the state; `registered` never outlives `connected`.
* `AdmittedReady`, `FlagsFollowPhase`: choice, spawn, `alive` and `waiting` agree with the
  phase, over resets, drops and re-used slots, in every intermediate state too.
* `NoSetupAtRest`: PHASE_SETUP does not outlast the iteration that enters it.
* `RoundHasRivals`: a round at rest has two players alive; no drop escapes reevaluation.
* `Informed`: every admitted player was told last what the match is at. The double starts and
  double ends below repeat lines, but never leave a wrong one standing.
* `EmptyLobbyWaits`: an empty lobby at rest is not counting down.
* `AtMostTwoStarts`: the double start is as bad as it gets: `round_no` never reaches 3.
* `AdmissionOnlyInLobby`: nobody enters outside the lobby, though an admission is suspended
  by a broadcast after its check.
* `OneTypeWins`, `ImplementsMatch`: those told WIN hold one choice; the match is the abstract
  one.
* `HandlersReturn`, `LobbyCloses`: recursion ends; a join window that runs is
  followed by a closed or an unset lobby.
* `NestedCallsRunOut`: why it ends. Each step of a handler lowers what its calls may still cost
  (`Outstanding`), a dropped client paying for the reevaluation that its drop brings about.
* `UnreadyNeverPlay`, `SetupResolves`: from the unit tests' states, a setup with
  unready players ends, and only the ready play.
* `RTypeOK`, `RepickWaitsForSomebody`: PHASE_REPICK has no deadline, and never waits for somebody
  who is gone, a drop in the middle of a broadcast included; `OneTypeWins` holds of resolved rounds too.
* `SessionTypeOK`, `NamesUnique`: exactly the registered slots have a name, and no two the same.
* `BeliefsHold`, `RostersHold`: with nothing on its way, a client knows whether it is registered, as
  whom, whether it is in the match, whether it may join, how the match ended for it, and the roster.
* `AutoJoins`, `NamesAreAnswered`: a client that joins by itself gets in unless it is
  refused, and no client waits for its name for ever.
* `CapturesAllowed`, `SurvivorLeft`, `PlacesHold`, `RoundEnds`: the tick's loop captures a `Capturable`
  set; somebody is left; nobody leaves the row, and the dead are off it; every round ends.
* `BuffersHold`, `OnlyLongLinesOverflow`, `ImplementsLineStream`: no buffer is overrun, only a line longer than any the
  programs send breaks a connection off, and lines arrive whole, once and in order.

### What the code does not keep

Each of these is a violation run; the line of the repository that says otherwise is quoted in
`PROJECT.json`.

1. **A match that is over goes on** (`game_over_final`). A client dropped by LOBBY_CLOSED makes
   `reevaluate_state` start the round in PHASE_SETUP; a second one, dropped within that nested start,
   ends the match; the tail of `close_lobby_if_needed` puts the
   phase back to PHASE_ROUND_ACTIVE after the verdicts went out.
2. **A lobby with a player does not count down** (`join_window`). The deadline is set before
   the player is admitted, and a client dropped by LOBBY_OPEN in between makes
   `reevaluate_lobby_open` find nobody and unset it.
3. **A spectator does not see the end** (`spectators`). A registered client that is not in the match is sent the bare
   line GAME_OVER, and the terminal client knows only `GAME_OVER ` with a verdict after the blank. It stays in its
   round and ignores the key for a rematch.
4. **Two players on one tile** (`tiles`). The tile is compared with those of admitted players at SPAWN, and not
   again when a later CHOICE admits the player. Terminal clients send CHOICE first, and yet: a SPAWN that finds the
   join deadline passed is refused, but its tile stays; the lobby empties and opens again, somebody
   else is admitted on that tile, and the first client, told to choose again, is admitted by its CHOICE alone.
   It takes some seventy steps, a departure and a return.

Met on the way, and described here without a run of their own. Two of them are further ways into what a line of the repository
speaks against:

* **A match may start twice.** One dropped client in the first case above makes `round_no` 2 and sends ROUND_START twice. The test
  (`test_runner.c:361`, `CHECK(s.round_no == 1)`) closes a lobby in which nobody is dropped, and for that case `StartsOnceInTime` proves what it
  checks. `AtMostTwoStarts`, which the run `lag` checks, is what remains when clients are dropped.
* **A match that is over may go on after repicks.** The tails of `resolve_round` and `finish_repicks` do not look whether their broadcasts
  have ended the match, against `common.h:74` ("Match ended; rematch may reset back to lobby."). `Rounds` does as they do, and
  `GameOverIsFinal` does not hold of it even with one slow client. There is no run for it since it is the
  first case again, in functions that the server program never calls; `RepickWaitsForSomebody` and `OneTypeWins` hold all the same.

For the rest we found no line of the repository that speaks of the situation:

* The joiner dropped by its own LOBBY_OPEN leaves an empty slot marked admitted. The predicates ask for
  `connected` too, and the next owner of the slot clears the mark.
* A lobby that stops counting down does not say so: the departure's snapshot is queued before the deadline is unset.
  `EmptyLobbyWaits` looks at the deadline, not at the snapshot.
* A CHOICE or SPAWN refused with ERROR lobby_closed is kept, and counts in the next lobby. `AdmittedReady` and
  `AdmissionOnlyInLobby` hold all the same; the fourth case above is the consequence that a test speaks against.
* In `resolve_round` a player whose rival was dropped a moment before loses to the empty slot if it is the first of
  the pair; if it is the second, the emptied slot loses (`rps_result`, `game.c:135-146`). No property
  tells this loss from a deserved one.

## 4. What is proved

For every number of slots, every set of picks and every set of
lagging clients (assumption `MatchServerAssumption`: `MaxPlayers` is a positive natural
number, `Picks` are choices, `MayLag` are slots):

| Module | Theorem | Property |
|---|---|---|
| `MatchServerProofs` | `TypeCorrect` | `TypeOK` |
| | `AdmittedReadyAlways` | `AdmittedReady` |
| | `FlagsFollowPhaseAlways` | `FlagsFollowPhase` |
| | `NoSetupAtRestAlways` | `NoSetupAtRest` |
| | `OneTypeWinsAlways` | `OneTypeWins` |
| | `AdmissionOnlyInLobbyAlways` | `AdmissionOnlyInLobby` |
| | `UnreadyNeverPlayAlways` | `UnreadyNeverPlay` |
| | `NestedCallsRunOutAlways` | `NestedCallsRunOut` |
| | `HandlersShortAlways` | `Spec => []HandlersShort`: how many steps a handler may take |
| `AtRestProofs` | `RoundHasRivalsAlways` | `RoundHasRivals` |
| | `EmptyLobbyWaitsAlways` | `EmptyLobbyWaits` |
| | `AtMostTwoStartsAlways` | `AtMostTwoStarts` |
| | `InformedAlways` | `Informed` |
| `MatchProofs` | `ServerIsMatch` | `Spec => ImplementsMatch`, if at most one client lags |
| | `OverIsFinalIfOneIsSlow` | `Spec => GameOverIsFinal`, if at most one client lags |
| | `JoinWindowRunsInTime` | `Spec => []JoinWindowRuns`, if no client lags |
| | `StartsOnceInTime` | `Spec => []StartsOnce`, that is `round_no <= 1`, if no client lags |

`ServerIsMatch` assumes `FewerThanTwo(MayLag)`. With two slow clients the refinement is false: that is what the run
`game_over_final` finds, so the hypothesis is the weakest there is, and the theorem says that the double nesting
is the only way out of the abstract match. The three theorems after it in the table bound the first two findings of section 3, and the double start, in the same way: a
match that is over goes on only if the buffers of two clients may fill, and a lobby with a player stops counting down, or a round
starts twice, only if at least one may.

For every number of slots and of rounds (`RoundsAssumption`, and `MatchServerAssumption` as before), from the
unit tests' states:

| Module | Theorem | Property |
|---|---|---|
| `RoundsProofs` | `RoundsTypeCorrect` | `RTypeOK` |
| | `RepickWaitsAlways` | `RepickWaitsForSomebody` |
| | `RoundsOneTypeWins` | `OneTypeWins` |
| | `RoundsUnreadyNeverPlay` | `UnreadyNeverPlay` |

For every set of users, names and tiles besides (`SessionAssumption`: no output buffer fills, users' picks are picks of the
match, the bounds are natural numbers):

| Module | Theorem | Property |
|---|---|---|
| `SessionProofs` | `SessionIsMatchServer` | `SSpec => Spec`: `Session` implements `MatchServer` |
| | `NamesUniqueAlways` | `NamesUnique` |
| | `SessionOneTypeWins` | `OneTypeWins`, carried over by the refinement |
| | `SessionTypesAlways` | `SessionTypeOK` |
| `BeliefProofs` | `BeliefsHoldAlways` | `BeliefsHold` |
| | `RostersHoldAlways` | `RostersHold` |
| | `VictoriesAgreeAlways` | `SSpec => []VictoriesAgree`: two clients that show a victory hold one choice |

`MaxUnread` is any natural number in them: a client may be that many lines behind when the server moves, where the
runs let it be one handler's output behind. But no output buffer fills in any of them (`MayLag = {}` is part of `SessionAssumption`): they
say nothing of a server that drops clients in its broadcasts, and so do not show that terminal clients never bring about the findings that need a drop.

For every number of players, row of tiles, radius and stride (`ChaseAssumption`: natural numbers, with a step
and a tile that are not 0):

| Module | Theorem | Property |
|---|---|---|
| `ChaseProofs` | `ChaseTypeCorrect` | `TypeOK` |
| | `CapturesAllowedAlways` | `CapturesAllowed` |
| | `SurvivorLeftAlways` | `SurvivorLeft` |
| | `PlacesHoldAlways` | `PlacesHold` |

For all lines, sizes and chunks (`FramingAssumption`: no line holds a newline, `MAX_LINE` is more than 3, and the input
buffer has room for a chunk beside what may be left of a line; the output buffer may have any size):

| Module | Theorem | Property |
|---|---|---|
| `FramingProofs` | `BuffersHoldAlways` | `BuffersHold` |
| | `OnlyLongLinesOverflowAlways` | `OnlyLongLinesOverflow` |
| | `FramingIsLineStream` | `Spec => Stream!Safety`: the safety part of `ImplementsLineStream` |

**`MatchServer`.** No property of the first table but `TypeOK` is inductive, because a tail acts on what was
decided before its broadcast: the proof has to say what is *still* true when it runs. The
inductive invariant `IInv` does that with the frames on the stack. The calls of the timers
and of an admission are *marked* frames (`Marked`); broadcasts and reevaluations are not.
A step pops one frame and, except where a timer or an admission splits itself, pushes
unmarked ones, so the stack can be treated as a set of frames. `IInv` states:

* `OneCause`: frames of the timers and of an admission are never on the stack together,
  as nothing nested admits a player or closes a lobby.
* `TailAdmitsReady`: while an admission is suspended, the phase is PHASE_LOBBY_OPEN, and
  its slot, if still connected, has a choice and a spawn (dropping it clears it altogether).
* `TailEndsSetup`: in PHASE_SETUP the tail of `close_lobby_if_needed` is on the stack. Of its
  branches only the two that leave PHASE_SETUP are possible, every admitted player being ready.
* `NeverExpires`: the setup deadline never passes in PHASE_SETUP, so the slot loop of
  `expire_unready_setup_players` is never on the stack.
* `FlagsOK`, `AdmittedReady`, `OneTypeWins`, with what start, drop and reset do to them.

The lemmas above the theorems show what one action does to the stack (`Return` pops
one frame and pushes unmarked ones) and to the players (`Queue` only takes away), so that the
step of each action in the induction is short.

`NestedCallsRunOut` needs no more than the types of the stack. `Outstanding` adds up the `Cost` of the calls on it, and
`StartCost` for every client that lags: a broadcast that drops one pushes a reevaluation, of which the dearest outcome is to
start a round (2 `MaxPlayers` + 3 steps, for the PLAYER and STATE lines of every slot), and the dropped client has paid for it, as
it lags no more. The sum is a recursive function, reasoned about by the least index at which two sums would
differ. `HandlersShort` bounds it at every moment: a handler begins with at most 4 `StartCost` + 3 `MaxPlayers` + 3, so that it returns
within a number of steps quadratic in the slots; nothing is left to fairness but that a call in progress goes on.

`AtRestProofs` proves the properties of the idle server by saying what is *owed* while it
is not idle, again by the frames on the stack (`OwedInv`, over `IInv`):

* `RivalsOrOwed`: a round with fewer than two alive has a `reevaluate_state` on the stack.
* `CountdownOrOwed`: so has an empty lobby that counts down, unless the player that made it
  count down is connected and its admission is on the stack.
* `NobodyFallen`: while the tail of `close_lobby_if_needed` is on the stack, all that are
  admitted are alive or waiting; without it the tail's second start of a round might start
  one with somebody eliminated, and fewer than two alive.
* `ChaseLast`: the tick is the last frame of the stack, so that no tick catches anybody before
  that tail has run.

With the stack empty nothing is owed, and the properties are what is left. `IInv`, `OwedInv`
and `ChaseLast` were checked with TLC before they were proved, on three slots with two lagging
clients.

It also bounds the starts of one match. `CloseOnce`: `close_lobby_if_needed` and its tail are on the
stack at most once, in one of the two forms, since nothing nested calls them. `Starts`: in the
lobby and in the setup nothing was started; while the tail is on the stack the round was started at most once, by whichever
nested call left PHASE_SETUP; the tail's own start is the second, and pops it.

`Informed` is what is left at rest of `InformInv`: everybody has been told (`Told`), or is about to be, by the running
broadcast of ROUND_START (`Starting`) or by the tail of `close_lobby_if_needed` (`Closing`), which ends or starts the match
whatever its broadcasts have done. `Tame` keeps a late line from overwriting the right one: a ROUND_START on the stack
is its head, and above every LOBBY_OPEN, LOBBY_CLOSED or SETUP_OPEN that is still to be queued waits a tail that follows it.

`MatchProofs` maps each action to a step of `Match` or a stutter. The hard one is the tail of `close_lobby_if_needed`, which
assigns the phase without looking. `LagInv` says why that is no second beginning or end while one
client lags: the reevaluation that its drop calls runs at once (`ReevaluateFirst`), nobody lags after
that, and what it has decided agrees with what the tail will find (`ClosingAgrees`). A tick leaves somebody standing
(`SomebodyIsLeft`): of the hunters of a `Capturable` set the one with the highest slot is not in it.
`LagInv` also gives `OverIsFinalIfOneIsSlow`: only the tail could leave PHASE_GAME_OVER, and it finds fewer than two admitted.

If nobody lags, nobody is dropped by a broadcast, and `Undisturbed` is inductive: while an admission or a closing is on the stack no
`reevaluate_state` is (`NotInterrupted`), so that the closing's tail finds PHASE_SETUP and the only start is its own, and the
deadline that an admission has set is still set when its tail admits the player (`LobbyCountsDown`). TLC checked it on
four slots before it was proved.

**`Rounds`.** Its steps reach states that `MatchServer` does not, so `IInv` is not an invariant of them. `RInv` states the
stack's discipline again (nobody is admitted, the end of `resolve_round` is the last frame, no round is being resolved and no timer runs
in PHASE_REPICK); that whoever is admitted while the game is on is ready; and `RepickOwed`: in
PHASE_REPICK two are alive and one of them has not picked, or a `reevaluate_state` or the tail of `finish_repicks`
that will see to it is on the stack.

**`Framing`.** `StreamInv` is about the bytes on their way, `Coming`: those of `inbuf`, the wire and `outbuf` in this order.
They are, byte for byte, the lines after the last one popped (`Follows`), and all of them while the
connection is open. The places where lines end are a function that is said to exist (`Ends`), not computed by recursion. Queueing adds a
line at the far end, flushing and reading move bytes along, and a newline found in `inbuf` must be the end of the next line.

**`Session`.** That its server steps are steps of `MatchServer` needs one fact about the
clients: every CHOICE on a stream is a pick. `StreamsOK` says so, over everything a client may append: its
user's keys, its automatic joining (`IterationStream`), the cut and the QUIT of a stop. For `NamesUnique` the lemmas show that no
call in progress registers anybody and none but a HELLO changes a name that is kept.

`SessionTypeOK` needs the types of the clients as well (`SessionOK`), since what a client sends is made of what it has
read, and two facts about the other end: while no output buffer fills there is nobody to drop, so the stack
takes one of a few shapes (`Calm`), and every call does one of ten things (`CalmMove`).
A client after reading is a recursive function of its state and of the lines. The theorems on it (`Believes`) are proved from the
well-foundedness of the natural numbers, by the least index at which they would fail: reading lines in two pieces is reading them at
once, and what each line keeps, all lines keep. `Learns` says, belief by belief, what one line changes.

**What clients believe.** `BeliefsHold` says nothing while lines or commands are on the way, so it is far from inductive. The
invariant `BeliefsOK` speaks of the client's `View`, the state it will be in when it has read all that is on the way, which
no reading changes. It states at every moment, within handlers too:

* `Asked`: a question for a name is open exactly if its HELLO is on the way to the server or its answer on the way back, one of
  them and once; the name is the one remembered in `pending_name`; and a client that is not going to ask for a snapshot has
  its request at the end of its commands, or has been answered.
* `KnowsName`, `KnowsMatch`: the view is right about being registered, the name, being in the match, its end and its result.
* `KnowsLobby`: it offers to join only in an open lobby (or LOBBY_CLOSED is about to be queued), and in an open lobby it does
  offer it, unless a snapshot is still owed (`Owes`).
* `KnowsRoster`: unless a snapshot is owed, or about to be queued to all (JOINED and LEFT are followed by one), the view lists the
  players in the match, and those below the slot that `broadcast_positions` has reached as alive, waiting or out as they are.

Two things make it inductive. `Owes` weakens the last two while a client is going to ask: the answers to CHOICE, SPAWN and HELLO do not
show the match, and it is the request that every command makes the client send that repairs its picture. `ReachedBy` says which lives
are announced already while the PLAYER lines of a tick are queued one by one. When nothing is on the way and no call runs, the view is the client
itself, nothing is owed and everybody is reached: `BeliefsHold` and `RostersHold`. `NamesUnique` is used where a PLAYER line
replaces the entry with its name. `BeliefsOK` was checked with TLC on the instance of `session` before it was proved.

**`ChaseRow`.** The invariant `TickInv` is about the history of the tick: the catchers of the caught took part, beat them, had their turn, and are
different; one that was itself caught was caught by somebody with a later turn. It gives
`Capturable` directly. Somebody is left since a hunter must be alive to catch and is not its own
prey. Moves stay between two places of the row, so `PlacesHold` is inductive with the types.

**Model-checked only:** the promise of `LineStream` that lines arrive in the end, and all other liveness properties, which
need ENABLED and stay with TLC: `SetupResolves`, `HandlersReturn`, `LobbyCloses`, `RoundEnds`, `AutoJoins` and `NamesAreAnswered`. Of `HandlersReturn` the
measure is proved (`NestedCallsRunOut`, `HandlersShort`), and only the step from it and `WF Step` to the return is left to TLC.
Every invariant and every other action property that a passing run checks is proved.

## 5. The plan

1. *Done:* `Rps`, `MatchServer`, `Match` and their proofs; names and tiles, the text client and their composition (`Session`); round
   resolution (`Rounds`); the chase in a row; framing.
2. *Done:* the proofs of section 4.
3. `EventLoop`: readiness sets, descriptors and the tick's clock.
4. The chase on the plane, with integer distances.
5. `Session` with output buffers that fill, at two slots.

## 6. What is not modelled

* `select`'s readiness sets, descriptors and signals: the event loop is a fair interleaving of what it
  does. Creating, binding and connecting sockets is I/O.
* The plane of the chase: diagonal moves and the rounding of floats. The wall clock is taken to go
  forward; the tick's comparison of two readings of it is listed as a hazard.
* Of the text client: drawing, the cursor, the editing of the name, key G, and a server that
  goes away. Of both programs: the parsing of lines and command lines, and wording.
* Full output buffers in `Session`: what a client that is dropped in a broadcast, or loses a reply, does to its own picture and to the
  rosters of the others.
* `round_deadline`, which is set and never read.
* Tests, scripts, build files and prose; the tests are quoted and give `Rounds` its initial states.
