------------------------------- MODULE Rounds -------------------------------
(***************************************************************************)
(* Rounds that are resolved pair by pair, with a phase in which everybody   *)
(* picks again after a tie: resolve_round, finish_repicks, reevaluate_repick *)
(* and REPICK, on top of MatchServer.  The functions are public and tested; *)
(* the server program lets the chase decide its rounds and calls none of   *)
(* them.  Here a caller resolves rounds instead of the chase.              *)
(*                                                                         *)
(* The steps of MatchServer are its own; Rounds adds the two fields that    *)
(* they change and nobody else reads, and its own calls to the stack.      *)
(***************************************************************************)
EXTENDS MatchServer

CONSTANT MaxRounds   \* bound: rounds that are resolved in one behaviour

ASSUME RoundsAssumption == MaxRounds \in Nat

VARIABLES
    in_round,   \* flag of Player: has been in the round from its start
    repick      \* repick_choice; repick_submitted iff # NoChoice

rvars == <<vars, in_round, repick>>

NoRepicks == [i \in Slots |-> NoChoice]

(* Mutant: what a dropped player has picked stays in its slot. *)
FollowRounds ==
    IF round_no' > round_no
    THEN in_round' = connected' \cap registered' \cap admitted' \cap alive' /\ repick' = NoRepicks
    ELSE UNCHANGED <<in_round, repick>>

(* What the functions of MatchServer do to the two fields: start_round sets the
   one and clears the other, dropping and resetting a slot clear both. *)
Follow ==
    IF round_no' > round_no
    THEN in_round' = connected' \cap registered' \cap admitted' \cap alive' /\ repick' = NoRepicks
    ELSE LET kept == IF phase # "LOBBY_OPEN" /\ phase' = "LOBBY_OPEN" THEN {} ELSE connected'
         IN  /\ in_round' = in_round \cap kept
             /\ repick' = [i \in Slots |-> IF i \in kept THEN repick[i] ELSE NoChoice]

-----------------------------------------------------------------------------
(* build_pairs takes the nearest two first.  Places are not kept here: any
   two may be the nearest.  A pairing is a sequence of disjoint pairs, MAX_PLAYERS/2
   at most, that leaves at most one of S over. *)

Paired(pairing) == UNION {{pairing[k][1], pairing[k][2]} : k \in DOMAIN pairing}

Disjoint(pairing) ==
    \A k, l \in DOMAIN pairing :
        k # l => {pairing[k][1], pairing[k][2]} \cap {pairing[l][1], pairing[l][2]} = {}

Pairings(S) ==
    LET pairs == {p \in S \X S : p[1] < p[2]}
    IN  {pairing \in UNION {[1 .. n -> pairs] : n \in 0 .. MaxPlayers \div 2} :
            Disjoint(pairing) /\ FewerThanTwo(S \ Paired(pairing))}

Resolve(pair) == [fn |-> "resolve_round.pair", pair |-> pair]

(* resolve_round up to the first pair. *)
ResolveRound ==
    /\ Idle
    /\ phase = "ROUND_ACTIVE"
    /\ round_no < MaxRounds
    /\ LET eligible == Alive \cap in_round
       IN  \E pairing \in Pairings(eligible) :
              todo' = [k \in DOMAIN pairing |-> Resolve(pairing[k])]
                        \o (IF Paired(pairing) = eligible THEN <<>> ELSE <<Broadcast("BYE")>>)
                        \o <<Call("resolve_round.settle")>>
    /\ UNCHANGED <<players, match, in_round, repick>>

(* rps_result on two that differ: the first of the pair loses unless it can eat
   the second.  If a drop has emptied one of the slots, the first loses, be it the
   emptied one or not (game.c:135-146). *)
Loser(i, j) == IF CanEat(choice[i], choice[j]) THEN j ELSE i

(* One pair, by its slots, whatever has become of them. *)
ResolvePair ==
    /\ Running("resolve_round.pair")
    /\ LET i == Head(todo).pair[1]  j == Head(todo).pair[2]
       IN  IF choice[i] = choice[j]
           THEN Return(<<Broadcast("PAIR")>>) /\ UNCHANGED <<alive, in_round>>
           ELSE /\ alive' = alive \ {Loser(i, j)}
                /\ in_round' = in_round \ {Loser(i, j)}
                /\ Return(<<Broadcast("PAIR"), CallOn("resolve_round.eliminated", Loser(i, j))>>)
    /\ UNCHANGED <<connected, registered, admitted, waiting, spawn_chosen, choice, told,
                   lagging, match, repick>>

(* ELIMINATED lost; a loser too slow for it is dropped without reevaluation. *)
Eliminated ==
    /\ Running("resolve_round.eliminated")
    /\ \E lost \in SUBSET ({Head(todo).slot} \cap lagging) : Queue(Silence, lost)
    /\ Return(<<>>)
    /\ UNCHANGED match
    /\ Follow

Settle ==
    /\ Running("resolve_round.settle")
    /\ in_round' = {}
    /\ Return(<<CallOn("broadcast_positions", 0), Call("resolve_round.end")>>)
    /\ UNCHANGED <<players, match, repick>>

AllAliveSameChoice == \A i, j \in Alive : choice[i] = choice[j]

BeginRepicks ==
    /\ phase' = "REPICK"
    /\ in_round' = {} /\ repick' = NoRepicks
    /\ Return(<<Broadcast("REPICK_START"), CallOn("broadcast_positions", 0)>>)
    /\ UNCHANGED <<players, join_deadline, setup_deadline, round_no>>

EndOfResolution ==
    /\ Running("resolve_round.end")
    /\ IF FewerThanTwo(Alive) THEN EndGame /\ Follow
       ELSE IF AllAliveSameChoice THEN BeginRepicks
       ELSE StartActiveRound /\ Follow

-----------------------------------------------------------------------------
(* The phase in which everybody picks again. *)

AllAliveRepicked(picks) == Alive # {} /\ \A i \in Alive : picks[i] # NoChoice

(* finish_repicks up to its first broadcast. *)
FinishRepicks(picks, rest) ==
    /\ choice' = [i \in Slots |-> IF i \in Alive THEN picks[i] ELSE choice[i]]
    /\ repick' = [i \in Slots |-> IF i \in Alive THEN NoChoice ELSE picks[i]]
    /\ todo' = <<Broadcast("REPICK_DONE"), CallOn("broadcast_positions", 0),
                 Call("finish_repicks.tail")>> \o rest
    /\ UNCHANGED <<connected, registered, admitted, alive, waiting, spawn_chosen, told,
                   lagging, match, in_round>>

(* Does not look again whether the two broadcasts have ended the match. *)
FinishRepicksTail == Running("finish_repicks.tail") /\ StartActiveRound /\ Follow

(* REPICK; the other cases are answered with an error. *)
Repick(i, c) ==
    /\ Idle
    /\ phase = "REPICK"
    /\ i \in connected /\ i \in registered \cap admitted \cap alive
    /\ repick[i] = NoChoice
    /\ LET picks == [repick EXCEPT ![i] = c]
       IN  IF AllAliveRepicked(picks) THEN FinishRepicks(picks, <<>>)
           ELSE repick' = picks /\ UNCHANGED <<vars, in_round>>

(* Mutant: reevaluate_state has no case for the phase. *)
NotReevaluated ==
    /\ Running("reevaluate_state")
    /\ phase = "REPICK"
    /\ Return(<<>>) /\ UNCHANGED <<players, match, in_round, repick>>

ReevaluateRepick ==
    /\ Running("reevaluate_state")
    /\ phase = "REPICK"
    /\ IF FewerThanTwo(Alive) THEN EndGame /\ Follow
       ELSE IF AllAliveRepicked(repick) THEN FinishRepicks(repick, Tail(todo))
       ELSE Return(<<>>) /\ UNCHANGED <<players, match, in_round, repick>>

-----------------------------------------------------------------------------
RoundStep ==
    \/ ResolvePair \/ Eliminated \/ Settle \/ EndOfResolution
    \/ FinishRepicksTail \/ ReevaluateRepick

(* The functions of MatchServer, reevaluate_state having one phase more. *)
ServerStep ==
    /\ ~(Running("reevaluate_state") /\ phase = "REPICK")
    /\ Step
    /\ Follow

(* Nobody registers any more: how a match begins is MatchServer's subject. *)
Others ==
    /\ \/ phase = "SETUP" /\ (Timers \/ SetupWindowEnds)
       \/ \E i \in Slots : Accept(i) \/ GetState(i) \/ Rematch(i) \/ Leave(i) \/ FallBehind(i) \/ CatchUp(i)
    /\ Follow

RNext ==
    \/ RoundStep \/ ServerStep \/ Others
    \/ ResolveRound
    \/ \E i \in Slots, c \in Picks : Repick(i, c)

(* The round of test_runner.c:414-450, with everybody in it. *)
InRound ==
    /\ connected = Slots /\ registered = Slots /\ admitted = Slots
    /\ alive = Slots /\ waiting = {} /\ spawn_chosen = Slots
    /\ choice \in [Slots -> Picks]
    /\ told = [i \in Slots |-> "ROUND_START"]
    /\ phase = "ROUND_ACTIVE" /\ join_deadline = "unset" /\ setup_deadline = "unset"
    /\ round_no = 0
    /\ in_round = Slots

RInit ==
    /\ (InSetup /\ in_round = {}) \/ InRound
    /\ lagging = {} /\ repick = NoRepicks /\ todo = <<>>

RFairness ==
    /\ WF_rvars(RoundStep \/ ServerStep)
    /\ SF_rvars(Timers /\ phase = "SETUP" /\ Follow)
    /\ SF_rvars(SetupWindowEnds /\ phase = "SETUP" /\ Follow)

RSpec == RInit /\ [][RNext]_rvars /\ RFairness

-----------------------------------------------------------------------------
(* Properties. *)

(* The types of the fields Rounds adds. *)
RTypeOK ==
    /\ in_round \subseteq Admitted
    /\ repick \in [Slots -> Choice \cup {NoChoice}]
    /\ phase \in Phases \cup {"REPICK"}

(* The phase of repicks has no deadline: at rest it must be waiting for somebody
   who is alive and has not picked, and there must be a rival.  A departure or a
   drop that removes the one everybody waited for, in the middle of a broadcast
   too, ends it (server_state.c:139-173, 470-482). *)
RepickWaitsForSomebody ==
    Idle /\ phase = "REPICK" =>
        /\ ~FewerThanTwo(Alive)
        /\ \E i \in Alive : repick[i] = NoChoice
=============================================================================
