----------------------------- MODULE GameMaster -----------------------------
(***************************************************************************)
(* The monitor every thread of kierki-serwer shares (game_master.cpp):     *)
(* who sits where, whose turn it is, the trick ("lewa") on the table, the  *)
(* tricks already taken and the round being played.                        *)
(*                                                                         *)
(* Each operator below is one method of gm::GameMaster, which runs under   *)
(* mutex_gm and is therefore one atomic step of the thread that calls it.  *)
(* It says what happens to the monitor's variables and to nothing else;    *)
(* SeatThreads and KierkiServer put it at its place in a thread.           *)
(*                                                                         *)
(* Data: a card on the table is the seat that put it there.  What the card *)
(* was only decides who takes the trick and whether the round is over, so  *)
(* those two answers are chosen freely where the code computes them.       *)
(***************************************************************************)
EXTENDS Integers, Sequences, FiniteSets

CONSTANTS
    NumSeats,   \* MAX_PLAYERS and MAX_LEWA_SIZE, 4 in the code
    NumRounds,  \* rounds.size(): rounds in the game file
    NumTricks,  \* MAX_NBR_OF_LEWAS, 13 in the code
    Starter     \* Starter[r]: rounds[r - 1].get_first_player()

Seats == 0 .. NumSeats - 1
Rounds == 1 .. NumRounds
NONE_POS == NumSeats
FollowingSeat(s) == (s + 1) % NumSeats

ASSUME SizesAssumption ==
    /\ NumSeats \in Nat \ {0}
    /\ NumRounds \in Nat \ {0}
    /\ NumTricks \in Nat \ {0}
ASSUME StarterAssumption == Starter \in [Rounds -> Seats]

VARIABLES
    pos_taken_map,              \* seat -> a client holds it and has a socket
    number_of_players_present,  \* players ever admitted, up to NumSeats
    disconnected_sem_map,       \* seat -> permits of the "replacement is here" semaphore
    semaphore_map,              \* seat -> permits of its turn semaphore
    first_player,               \* leader of the trick being or about to be played
    whose_turn,
    curr_lewa,                  \* seats whose card lies on the table, in order
    lewa_id,                    \* curr_lewa's id, and curr_lewa_nbr, its copy
    who_won_lewa,
    lewas_played,               \* takers of the tricks finished in this round
    round_number,
    round_finished,             \* card_counter.has_game_ended()
    tricks_won                  \* history: seat -> tricks taken in the whole game

admission == <<pos_taken_map, number_of_players_present, disconnected_sem_map>>
turn == <<semaphore_map, first_player, whose_turn>>
lewa == <<curr_lewa, lewa_id, who_won_lewa>>
round == <<lewas_played, round_number, round_finished, tricks_won>>
gmVars == <<admission, turn, lewa, round>>

(***************************************************************************)
(* The constructor: the first round's starter already holds a turn permit. *)
(***************************************************************************)
GMInit ==
    /\ pos_taken_map = [s \in Seats |-> FALSE]
    /\ number_of_players_present = 0
    /\ disconnected_sem_map = [s \in Seats |-> 0]
    /\ semaphore_map = [s \in Seats |-> IF s = Starter[1] THEN 1 ELSE 0]
    /\ first_player = Starter[1]
    /\ whose_turn = Starter[1]
    /\ curr_lewa = << >>
    /\ lewa_id = 1
    /\ who_won_lewa = NONE_POS
    /\ lewas_played = << >>
    /\ round_number = 1
    /\ round_finished = FALSE
    /\ tricks_won = [s \in Seats |-> 0]

AdmissionTypeOK ==
    /\ pos_taken_map \in [Seats -> BOOLEAN]
    /\ number_of_players_present \in 0 .. NumSeats
    /\ disconnected_sem_map \in [Seats -> Nat]

TurnTypeOK ==
    /\ semaphore_map \in [Seats -> Nat]
    /\ first_player \in Seats
    /\ whose_turn \in Seats

LewaTypeOK ==
    /\ curr_lewa \in Seq(Seats)
    /\ lewa_id \in 1 .. NumTricks + 1
    /\ who_won_lewa \in Seats \cup {NONE_POS}

RoundTypeOK ==
    /\ lewas_played \in Seq(Seats \cup {NONE_POS})
    /\ round_number \in Rounds
    /\ round_finished \in BOOLEAN
    /\ tricks_won \in [Seats -> Nat]

GMTypeOK == AdmissionTypeOK /\ TurnTypeOK /\ LewaTypeOK /\ RoundTypeOK

-----------------------------------------------------------------------------
(* Admission.                                                              *)

(* Mutant: a replacement's seat is not marked as taken.                    *)
AddNewPlayer_SeatNotTaken(p) ==
    /\ IF number_of_players_present < NumSeats
       THEN /\ pos_taken_map' = [pos_taken_map EXCEPT ![p] = TRUE]
            /\ number_of_players_present' = number_of_players_present + 1
            /\ UNCHANGED disconnected_sem_map
       ELSE /\ disconnected_sem_map' = [disconnected_sem_map EXCEPT ![p] = @ + 1]
            /\ UNCHANGED <<pos_taken_map, number_of_players_present>>
    /\ UNCHANGED <<turn, lewa, round>>

(* Mutant: the player thread is not told of the replacement.               *)
AddNewPlayer_NoSignal(p) ==
    /\ pos_taken_map' = [pos_taken_map EXCEPT ![p] = TRUE]
    /\ number_of_players_present' = IF number_of_players_present < NumSeats
                                    THEN number_of_players_present + 1
                                    ELSE number_of_players_present
    /\ UNCHANGED disconnected_sem_map
    /\ UNCHANGED <<turn, lewa, round>>

(***************************************************************************)
(* A seat is counted the first time only: once NumSeats players have been  *)
(* counted, an admitted player is a replacement and its seat's player      *)
(* thread is told so.  The socket is stored with the flag.                 *)
(***************************************************************************)
AddNewPlayer(p) ==
    /\ pos_taken_map' = [pos_taken_map EXCEPT ![p] = TRUE]
    /\ IF number_of_players_present < NumSeats
       THEN /\ number_of_players_present' = number_of_players_present + 1
            /\ UNCHANGED disconnected_sem_map
       ELSE /\ disconnected_sem_map' = [disconnected_sem_map EXCEPT ![p] = @ + 1]
            /\ UNCHANGED number_of_players_present
    /\ UNCHANGED <<turn, lewa, round>>

(* Mutant: the seat of a lost client stays taken.                          *)
SetPlayerLeft_KeepsSeat(p) == UNCHANGED gmVars

(* Mutant: a lost client is taken off the count of players.                *)
SetPlayerLeft_CountsDown(p) ==
    /\ pos_taken_map' = [pos_taken_map EXCEPT ![p] = FALSE]
    /\ number_of_players_present' = number_of_players_present - 1
    /\ UNCHANGED disconnected_sem_map
    /\ UNCHANGED <<turn, lewa, round>>

SetPlayerLeft(p) ==
    /\ pos_taken_map' = [pos_taken_map EXCEPT ![p] = FALSE]
    /\ UNCHANGED <<number_of_players_present, disconnected_sem_map>>
    /\ UNCHANGED <<turn, lewa, round>>

AcquireDisconnectedSem(p) ==
    /\ disconnected_sem_map[p] > 0
    /\ disconnected_sem_map' = [disconnected_sem_map EXCEPT ![p] = @ - 1]
    /\ UNCHANGED <<pos_taken_map, number_of_players_present>>
    /\ UNCHANGED <<turn, lewa, round>>

DecrementPresentPlayers ==
    /\ number_of_players_present > 0
    /\ number_of_players_present' = number_of_players_present - 1
    /\ UNCHANGED <<pos_taken_map, disconnected_sem_map>>
    /\ UNCHANGED <<turn, lewa, round>>

-----------------------------------------------------------------------------
(* The trick.                                                              *)

LewaFull == Len(curr_lewa) = NumSeats

WaitForTurn(p) ==
    /\ semaphore_map[p] > 0
    /\ semaphore_map' = [semaphore_map EXCEPT ![p] = @ - 1]
    /\ UNCHANGED <<first_player, whose_turn>>
    /\ UNCHANGED <<admission, lewa, round>>

(* Mutant: the turn goes round the other way.                              *)
NextPlayerTurn_Backwards ==
    LET next == (whose_turn + NumSeats - 1) % NumSeats
    IN  /\ whose_turn' = next
        /\ semaphore_map' = [semaphore_map EXCEPT ![next] = @ + 1]
        /\ UNCHANGED first_player
        /\ UNCHANGED <<admission, lewa, round>>

NextPlayerTurn ==
    /\ whose_turn' = FollowingSeat(whose_turn)
    /\ semaphore_map' = [semaphore_map EXCEPT ![FollowingSeat(whose_turn)] = @ + 1]
    /\ UNCHANGED first_player
    /\ UNCHANGED <<admission, lewa, round>>

(***************************************************************************)
(* add_card throws on a full trick, so the caller checks ~LewaFull.        *)
(***************************************************************************)
AddCardToLewa(p) ==
    /\ curr_lewa' = Append(curr_lewa, p)
    /\ UNCHANGED <<lewa_id, who_won_lewa>>
    /\ UNCHANGED <<admission, turn, round>>

(* Mutant: the taker is noted on the trick but not in who_won_lewa.        *)
CheckWhoWonLewa_NotNoted ==
    /\ \E w \in Seats : tricks_won' = [tricks_won EXCEPT ![w] = @ + 1]
    /\ UNCHANGED <<curr_lewa, lewa_id, who_won_lewa>>
    /\ UNCHANGED <<lewas_played, round_number, round_finished>>
    /\ UNCHANGED <<admission, turn>>

(***************************************************************************)
(* The taker is first_player + i for some i: any seat, as the cards fall.  *)
(***************************************************************************)
CheckWhoWonLewa ==
    /\ \E w \in Seats :
         /\ who_won_lewa' = w
         /\ tricks_won' = [tricks_won EXCEPT ![w] = @ + 1]
    /\ UNCHANGED <<curr_lewa, lewa_id>>
    /\ UNCHANGED <<lewas_played, round_number, round_finished>>
    /\ UNCHANGED <<admission, turn>>

(* Mutant: the permit is released before whose_turn moves to the taker.    *)
SetFirstPlayerForNextTurn_OldTurn ==
    /\ first_player' = who_won_lewa
    /\ whose_turn' = who_won_lewa
    /\ semaphore_map' = [semaphore_map EXCEPT ![whose_turn] = @ + 1]
    /\ UNCHANGED <<admission, lewa, round>>

SetFirstPlayerForNextTurn ==
    /\ first_player' = who_won_lewa
    /\ whose_turn' = who_won_lewa
    /\ semaphore_map' = [semaphore_map EXCEPT ![who_won_lewa] = @ + 1]
    /\ UNCHANGED <<admission, lewa, round>>

(***************************************************************************)
(* The round is over when the cards that score have all been taken, which  *)
(* the last trick always completes and an earlier one may.  A counter that *)
(* has reached its total stays there.                                      *)
(***************************************************************************)
CountCardsPlayed ==
    /\ \E over \in BOOLEAN :
         /\ (round_finished \/ Len(lewas_played) + 1 >= NumTricks) => over
         /\ round_finished' = over
    /\ UNCHANGED <<lewas_played, round_number, tricks_won>>
    /\ UNCHANGED <<admission, turn, lewa>>

(***************************************************************************)
(* get_lewa_id() throws for the id a round of NumTricks tricks ends with.  *)
(***************************************************************************)
LewaIdReadable == lewa_id <= NumTricks

(***************************************************************************)
(* Every player thread calls it; the first one finds the trick full, and   *)
(* needs its id.                                                           *)
(***************************************************************************)
NewLewaDefined == LewaFull => LewaIdReadable

PrepareNewLewa ==
    /\ NewLewaDefined
    /\ IF LewaFull
       THEN /\ lewas_played' = Append(lewas_played, who_won_lewa)
            /\ curr_lewa' = << >>
            /\ lewa_id' = lewa_id + 1
       ELSE UNCHANGED <<lewas_played, curr_lewa, lewa_id>>
    /\ UNCHANGED <<who_won_lewa, round_number, round_finished, tricks_won>>
    /\ UNCHANGED <<admission, turn>>

-----------------------------------------------------------------------------
(* The round.                                                              *)

LastRound == round_number = NumRounds

(***************************************************************************)
(* Every player thread calls it; the first one finds lewa_id > 1.  It      *)
(* takes back the turn permit the last taker was given, while it holds     *)
(* mutex_gm.  The caller checks that the call is defined: the id can be    *)
(* read, and rounds[] has a next round when there is one to start.         *)
(***************************************************************************)
NewRoundDefined == LewaIdReadable /\ (lewa_id > 1 => ~LastRound)

(* Mutant: the turn permit of the last taker is not taken back.            *)
PrepareNewRound_KeepsPermit ==
    /\ NewRoundDefined
    /\ IF lewa_id > 1
       THEN /\ semaphore_map[whose_turn] > 0
            /\ round_number' = round_number + 1
            /\ first_player' = Starter[round_number + 1]
            /\ whose_turn' = Starter[round_number + 1]
            /\ semaphore_map' =
                 [semaphore_map EXCEPT ![Starter[round_number + 1]] = @ + 1]
            /\ who_won_lewa' = NONE_POS
            /\ curr_lewa' = << >>
            /\ lewa_id' = 1
            /\ lewas_played' = << >>
            /\ round_finished' = FALSE
       ELSE UNCHANGED <<turn, lewa, lewas_played, round_number, round_finished>>
    /\ UNCHANGED tricks_won
    /\ UNCHANGED admission

(* Mutant: the finished tricks of the last round are kept.                 *)
PrepareNewRound_KeepsTricks ==
    /\ NewRoundDefined
    /\ IF lewa_id > 1
       THEN /\ semaphore_map[whose_turn] > 0
            /\ round_number' = round_number + 1
            /\ first_player' = Starter[round_number + 1]
            /\ whose_turn' = Starter[round_number + 1]
            /\ semaphore_map' =
                 LET taken_back == [semaphore_map EXCEPT ![whose_turn] = @ - 1]
                 IN  [taken_back EXCEPT ![Starter[round_number + 1]] = @ + 1]
            /\ who_won_lewa' = NONE_POS
            /\ curr_lewa' = << >>
            /\ lewa_id' = 1
            /\ UNCHANGED lewas_played
            /\ round_finished' = FALSE
       ELSE UNCHANGED <<turn, lewa, lewas_played, round_number, round_finished>>
    /\ UNCHANGED tricks_won
    /\ UNCHANGED admission

PrepareNewRound ==
    /\ NewRoundDefined
    /\ IF lewa_id > 1
       THEN /\ semaphore_map[whose_turn] > 0
            /\ round_number' = round_number + 1
            /\ first_player' = Starter[round_number + 1]
            /\ whose_turn' = Starter[round_number + 1]
            /\ semaphore_map' =
                 LET taken_back == [semaphore_map EXCEPT ![whose_turn] = @ - 1]
                 IN  [taken_back EXCEPT ![Starter[round_number + 1]] = @ + 1]
            /\ who_won_lewa' = NONE_POS
            /\ curr_lewa' = << >>
            /\ lewa_id' = 1
            /\ lewas_played' = << >>
            /\ round_finished' = FALSE
       ELSE UNCHANGED <<turn, lewa, lewas_played, round_number, round_finished>>
    /\ UNCHANGED tricks_won
    /\ UNCHANGED admission
=============================================================================
