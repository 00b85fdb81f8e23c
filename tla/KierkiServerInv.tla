-------------------------- MODULE KierkiServerInv --------------------------
(***************************************************************************)
(* The inductive invariants behind the safety properties of KierkiServer   *)
(* and its refinement of TableGame, in layers: the threads (IInv), the     *)
(* order of play, what is kept for each seat, the points, the end.         *)
(* They hold when every failure is of a kind that is noticed before its    *)
(* command is collected: all of them but "handoff" and "reset".            *)
(***************************************************************************)
EXTENDS KierkiServer

RecoverableKinds == FailureKinds \ {"handoff", "reset"}

-----------------------------------------------------------------------------
(* The hand-off between the two threads of a seat.                         *)

Pending(s) == semaphore_TCP[s] + dying[s]

Working(s, at) == tcp[s] = at /\ ~thread_ended[s] /\ Pending(s) = 0
Lost(s) == tcp[s] = "none" /\ thread_ended[s] /\ Pending(s) = 1
Done(s) == tcp[s] = "poll" /\ ~thread_ended[s] /\ semaphore_TCP[s] = 1 /\ dying[s] = 0
Gone(s) == tcp[s] = "none" /\ Pending(s) = 0

BetweenCommands(s) == child_pipe[s] = << >> /\ (Working(s, "poll") \/ Lost(s))

DuringCommand(s) ==
    \/ child_pipe[s] = <<CommandAt(loc[s])>> /\ (Working(s, "poll") \/ Lost(s))
    \/ child_pipe[s] = << >> /\ (Done(s) \/ Lost(s))
    \/ child_pipe[s] = << >> /\ loc[s] = "trick" /\ Working(s, "TRICK")

DuringSync(s) ==
    child_pipe[s] = << >> /\ (Working(s, "resync") \/ Done(s) \/ Lost(s))

DuringEnd(s) ==
    \/ child_pipe[s] = <<"END">> /\ (Working(s, "poll") \/ Lost(s))
    \/ /\ child_pipe[s] = << >> /\ tcp[s] = "none"
       /\ semaphore_TCP[s] = 1 /\ dying[s] = 0

HandoffOf(s) ==
    /\ sub[s] # "ready" => loc[s] \in CommLocs
    /\ sub[s] = "wait" => DuringCommand(s)
    /\ sub[s] = "sync" => DuringSync(s)
    /\ sub[s] = "recover" => Gone(s) /\ thread_ended[s]
    /\ sub[s] = "left" => Gone(s) /\ ~thread_ended[s] /\ child_pipe[s] = << >>
    /\ sub[s] = "ready" =>
         /\ loc[s] \notin {"none", "endwait", "finished"} => BetweenCommands(s)
         /\ loc[s] = "none" => Gone(s) /\ ~thread_ended[s] /\ child_pipe[s] = << >>
         /\ loc[s] = "endwait" => DuringEnd(s)
         /\ loc[s] = "finished" => Gone(s)

(***************************************************************************)
(* Whatever a seat's two threads do, the permits, the flag and the pipe    *)
(* say together how far the command in hand has come.                      *)
(***************************************************************************)
Handoff == \A s \in Seats : HandoffOf(s)

-----------------------------------------------------------------------------
(* The player threads in step.                                             *)

AllIn(S) == \A s \in Seats : loc[s] \in S
SomeAt(l) == \E s \in Seats : loc[s] = l

PlayLocs == {"over", "turn", "trick", "full", "won", "lead", "count", "pass", "passed"}
LeaveLocs == {"last", "leave", "end", "endwait", "finished"}

(***************************************************************************)
(* A seat has laid its card in the trick being played.                     *)
(***************************************************************************)
HasPlayed(s) ==
    \/ loc[s] \in {"full", "won", "lead", "count", "pass", "passed"}
    \/ loc[s] = "trick" /\ sub[s] = "wait" /\ child_pipe[s] = << >> /\ Done(s)

OneCardEach == \A i, j \in DOMAIN curr_lewa : curr_lewa[i] = curr_lewa[j] => i = j

Joining == AllIn({"none", "start"}) /\ curr_lewa = << >>
Dealing == AllIn({"deal", "dealt"}) /\ curr_lewa = << >>
Playing == /\ AllIn(PlayLocs)
           /\ OneCardEach
           /\ \A s \in Seats : OnTable(s) <=> HasPlayed(s)
           /\ \A s \in Seats : loc[s] \in {"won", "lead", "count"} => LewaFull
           /\ SomeAt("over") => ~round_finished
Taking == AllIn({"taken", "credited"}) /\ LewaFull
Clearing == /\ AllIn({"newlewa", "cleared"})
            /\ curr_lewa = << >> \/ LewaFull
            /\ SomeAt("cleared") => curr_lewa = << >>
Scoring == AllIn({"over", "score", "scored"}) /\ round_finished /\ curr_lewa = << >>
Totalling == AllIn({"total", "totalled"}) /\ curr_lewa = << >>
Continuing == AllIn({"last", "nextround"}) /\ ~LastRound /\ curr_lewa = << >>
Leaving == AllIn(LeaveLocs) /\ LastRound /\ curr_lewa = << >>
Opening == /\ AllIn({"newround", "start"}) /\ curr_lewa = << >>
           /\ SomeAt("newround") /\ lewa_id > 1 => ~LastRound

(***************************************************************************)
(* All player threads are between the same two barriers.                   *)
(***************************************************************************)
Lockstep == \/ Joining \/ Dealing \/ Playing \/ Taking \/ Clearing
            \/ Scoring \/ Totalling \/ Continuing \/ Leaving \/ Opening

(***************************************************************************)
(* The lead is given to a taker that has been decided.                     *)
(***************************************************************************)
TakerKnown == \A s \in Seats : loc[s] = "lead" => who_won_lewa \in Seats

-----------------------------------------------------------------------------
(* Admission.                                                              *)

Taken == {s \in Seats : pos_taken_map[s]}

SeatOf(s) ==
    /\ loc[s] = "none" => (pos_taken_map[s] <=> main = "spawn" /\ request = s)
    /\ loc[s] # "none" /\ ~pos_taken_map[s] => sub[s] = "left"
    /\ disconnected_sem_map[s] = IF sub[s] = "left" /\ pos_taken_map[s] THEN 1 ELSE 0

(***************************************************************************)
(* The count of players, the flags and the threads agree: a seat is free   *)
(* because it never had a player, or because its player thread waits.      *)
(***************************************************************************)
Admission ==
    /\ \A s \in Seats : SeatOf(s)
    /\ main # "idle" => request \in Seats
    /\ main = "add" => ~pos_taken_map[request]
    /\ main = "spawn" => loc[request] = "none" /\ pos_taken_map[request]
    /\ SomeAt("none") => number_of_players_present = Cardinality(Taken)
    /\ number_of_players_present # NumSeats => SomeAt("none") \/ Leaving

IInv == /\ TypeOK
        /\ Handoff
        /\ TurnToken
        /\ TakerKnown
        /\ Lockstep
        /\ Admission
-----------------------------------------------------------------------------
(* The order of play.                                                      *)

LastCard == curr_lewa[Len(curr_lewa)]

(***************************************************************************)
(* The cards on the table go clockwise from the leader's; the turn is the  *)
(* leader's, then that of the seat whose card was the last, until it has   *)
(* passed it on, and, when the trick has been decided and the lead given,  *)
(* the taker's.                                                            *)
(***************************************************************************)
Clockwise ==
    \A i \in DOMAIN curr_lewa : curr_lewa[i] = (curr_lewa[1] + i - 1) % NumSeats

TurnFollows ==
    /\ curr_lewa = << >> => whose_turn = first_player
    /\ curr_lewa # << >> /\ ~LewaFull =>
         whose_turn = IF whose_turn \in Holders /\ OnTable(whose_turn)
                      THEN LastCard ELSE FollowingSeat(LastCard)
    /\ LewaFull /\ Holders = {} =>
         whose_turn = first_player /\ first_player = who_won_lewa

(***************************************************************************)
(* The id of the trick is its number in the round, a round opens with 1,   *)
(* and a card is only asked for in a trick that has a readable id.         *)
(***************************************************************************)
FreshLocs == {"none", "start", "deal", "dealt"}

TrickNumbered ==
    /\ lewa_id = Len(lewas_played) + 1
    /\ \A s \in Seats : loc[s] \in FreshLocs => lewa_id = 1
    /\ \A s \in Seats : tcp[s] = "TRICK" => LewaIdReadable

OrderOfPlay ==
    /\ TrickNumbered
    /\ Clockwise
    /\ TurnFollows
    /\ \A s \in Seats : loc[s] = "pass" => ~LewaFull

-----------------------------------------------------------------------------
(* What the server keeps for each seat, against the tricks.                *)

(***************************************************************************)
(* The seat's command has been read from the pipe, and its player thread   *)
(* has not collected the answer.                                           *)
(***************************************************************************)
InHand(s) == sub[s] = "wait" /\ child_pipe[s] = << >>

(***************************************************************************)
(* The seat has a hand of this round, and the trick on the table has been  *)
(* told to its client and, if it took it, added to its points.             *)
(***************************************************************************)
Dealt(s) ==
    \/ loc[s] \notin {"none", "start", "deal", "newround"}
    \/ loc[s] = "deal" /\ InHand(s)

Credited(s) ==
    \/ loc[s] = "credited"
    \/ loc[s] = "taken" /\ InHand(s) /\ Done(s)
    \/ loc[s] \in {"newlewa", "cleared"} /\ LewaFull

HandKept(s) ==
    Dealt(s) => cards_played[s] = Len(lewas_played) + (IF OnTable(s) THEN 1 ELSE 0)

(***************************************************************************)
(* A client that has a connection has seen the tricks of the round.        *)
(***************************************************************************)
Connected(s) == tcp[s] \in {"poll", "TRICK"}

TakenSeen(s) ==
    /\ taken_seen[s] = [i \in 1 .. Len(taken_seen[s]) |-> i]
    /\ Dealt(s) /\ Connected(s) =>
         Len(taken_seen[s]) = Len(lewas_played) + (IF Credited(s) THEN 1 ELSE 0)

Ledger == \A s \in Seats : HandKept(s) /\ TakenSeen(s)

-----------------------------------------------------------------------------
(* The points, when the writes of TAKEN and SCORE do not fail.             *)

PromptKinds == RecoverableKinds \ {"taken", "score"}

(***************************************************************************)
(* The trick on the table has been decided, and not yet put aside.         *)
(***************************************************************************)
Decided == LewaFull /\ \A s \in Seats : loc[s] \notin {"trick", "full", "won"}

Scored(s) ==
    \/ loc[s] \in {"scored", "total", "totalled", "nextround", "newround"} \cup LeaveLocs
    \/ loc[s] = "score" /\ InHand(s)

(***************************************************************************)
(* A TAKEN or SCORE that was read has been served.                         *)
(***************************************************************************)
ServedOnce == \A s \in Seats : loc[s] \in {"taken", "score"} /\ InHand(s) => Done(s)

RoundPoints ==
    \A s \in Seats : Dealt(s) =>
        curr_game_points[s] =
            TricksTaken(s) + (IF Credited(s) /\ who_won_lewa = s THEN 1 ELSE 0)

GamePoints ==
    \A s \in Seats :
        tricks_won[s] = all_points[s] + (IF Scored(s) THEN 0 ELSE TricksTaken(s))
                        + (IF Decided /\ who_won_lewa = s THEN 1 ELSE 0)

Points == ServedOnce /\ RoundPoints /\ GamePoints

-----------------------------------------------------------------------------
(* The end of the game.                                                    *)

Staying == {s \in Seats : loc[s] \in {"last", "leave"}}

(***************************************************************************)
(* The main thread is told to end when every player thread has left, which *)
(* they do after the last round has been played, scored and totalled.      *)
(***************************************************************************)
Departure ==
    /\ \A s \in Seats :
         /\ loc[s] \in {"total", "totalled", "nextround"} \cup LeaveLocs => round_finished
         /\ loc[s] = "finished" => child_pipe[s] \in {<< >>, <<"END">>}
    /\ Leaving => number_of_players_present = Cardinality(Staying)
    /\ end_signalled => Leaving /\ Staying = {}
    /\ process = "exited" => end_signalled

(***************************************************************************)
(* The threads are in step, and the trick, the hands, the clients, the     *)
(* points and the end of the game agree with where they stand, whoever was *)
(* lost and replaced in between (player_threads.cpp, TCP_threads.cpp and   *)
(* game_master.cpp together).                                              *)
(***************************************************************************)
GameInv == IInv /\ OrderOfPlay /\ Ledger /\ Points /\ Departure
=============================================================================
