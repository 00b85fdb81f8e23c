---------------------------- MODULE SeatThreads ----------------------------
(***************************************************************************)
(* The two threads that serve a seat.                                      *)
(*                                                                         *)
(* The player thread (player_threads.cpp) runs the game: it walks through  *)
(* the round in step with the other seats' player threads, meeting them at *)
(* one barrier.  To talk to its client it writes a command into a pipe and *)
(* waits on semaphore_TCP.                                                 *)
(*                                                                         *)
(* The TCP thread (TCP_threads.cpp) owns the socket.  It takes commands    *)
(* from the pipe, exchanges the messages and releases semaphore_TCP.  When *)
(* the client is lost it sets thread_ended, releases the semaphore and     *)
(* ends; the player thread finds out the next time it collects a permit,   *)
(* frees the seat, waits for a replacement and starts a new TCP thread,    *)
(* which first brings the replacement up to date.                          *)
(***************************************************************************)
EXTENDS GameMaster

CONSTANTS
    Failures,   \* the kinds of failure that can happen in this instance
    MaxFaults   \* bound: failures in one behaviour

(***************************************************************************)
(* The kinds of failure, told apart by the code path they take.            *)
(*   idle, handoff   the client closes while the TCP thread polls: with no *)
(*                   served command waiting to be collected, or with one   *)
(*   deal, taken, score, total, resync                                     *)
(*                   a write of that message throws (not EPIPE)            *)
(*   trick           the client closes, or a message of its is refused, in *)
(*                   the middle of TRICK                                   *)
(*   reset           reading the packet name in TRICK fails (ECONNRESET)   *)
(*   sigpipe         a write to a closed connection raises SIGPIPE         *)
(*   unsolicited     the client sends a TRICK nobody asked for             *)
(*   wrongWrite      the WRONG that answers one cannot be written          *)
(***************************************************************************)
FailureKinds == {"idle", "handoff", "deal", "taken", "score", "total",
                 "resync", "trick", "reset", "sigpipe", "unsolicited",
                 "wrongWrite"}

ASSUME FailuresAssumption == Failures \subseteq FailureKinds
ASSUME MaxFaultsAssumption == MaxFaults \in Nat

VARIABLES
    loc,            \* seat -> where its player thread stands in thread_main
    sub,            \* seat -> where it stands in handle_btwn_thread_comm
    child_pipe,     \* seat -> commands written and not yet read
    semaphore_TCP,  \* seat -> permits
    thread_ended,   \* seat -> *thread_ended_sp
    tcp,            \* seat -> where its TCP thread stands ("none": not running)
    dying,          \* seat -> TCP threads that set thread_ended and have not released yet
    cards_played,   \* seat -> cards of its hand marked played
    curr_game_points, \* seat -> points of the round, one for a trick taken
    all_points,     \* seat -> points of the game
    announced,      \* seat -> the starting seat its client was told in the last DEAL
    taken_seen,     \* seat -> trick ids of the TAKENs written since the last DEAL
    process,        \* the server process
    faults          \* failures so far

seatSync == <<child_pipe, semaphore_TCP>>
tcpState == <<tcp, thread_ended, dying>>
points == <<curr_game_points, all_points>>
clientView == <<announced, taken_seen>>
env == <<process, faults>>
playerVars == <<loc, sub>>
tcpVars == <<tcpState, cards_played, points, clientView>>

CommLocs == {"deal", "trick", "taken", "score", "total"}
BarrierLocs == {"start", "dealt", "passed", "credited", "cleared", "scored",
                "totalled", "nextround"}
StepLocs == {"turn", "full", "won", "lead", "count", "pass", "newlewa", "over",
             "last", "leave", "end", "endwait", "newround"}
Locs == CommLocs \cup BarrierLocs \cup StepLocs \cup {"none", "finished"}
Subs == {"ready", "wait", "recover", "left", "sync"}
Commands == {"DEAL", "TRICK", "TAKEN", "SCORE", "TOTAL", "END"}
TcpLocs == {"none", "poll", "TRICK", "resync"}

SeatInit ==
    /\ loc = [s \in Seats |-> "none"]
    /\ sub = [s \in Seats |-> "ready"]
    /\ child_pipe = [s \in Seats |-> << >>]
    /\ semaphore_TCP = [s \in Seats |-> 0]
    /\ thread_ended = [s \in Seats |-> FALSE]
    /\ tcp = [s \in Seats |-> "none"]
    /\ dying = [s \in Seats |-> 0]
    /\ cards_played = [s \in Seats |-> 0]
    /\ curr_game_points = [s \in Seats |-> 0]
    /\ all_points = [s \in Seats |-> 0]
    /\ announced = [s \in Seats |-> NONE_POS]
    /\ taken_seen = [s \in Seats |-> << >>]
    /\ process = "running"
    /\ faults = 0

SeatTypeOK ==
    /\ loc \in [Seats -> Locs]
    /\ sub \in [Seats -> Subs]
    /\ child_pipe \in [Seats -> Seq(Commands)]
    /\ semaphore_TCP \in [Seats -> Nat]
    /\ thread_ended \in [Seats -> BOOLEAN]
    /\ tcp \in [Seats -> TcpLocs]
    /\ dying \in [Seats -> Nat]
    /\ cards_played \in [Seats -> Nat]
    /\ curr_game_points \in [Seats -> Nat]
    /\ all_points \in [Seats -> Nat]
    /\ announced \in [Seats -> Seats \cup {NONE_POS}]
    /\ taken_seen \in [Seats -> Seq(Nat)]
    /\ process \in {"running", "exited", "aborted", "killed"}
    /\ faults \in 0 .. MaxFaults

Goto(s, l) == loc' = [loc EXCEPT ![s] = l]
Release(s) == semaphore_TCP' = [semaphore_TCP EXCEPT ![s] = @ + 1]
Acquire(s) == /\ semaphore_TCP[s] > 0
              /\ semaphore_TCP' = [semaphore_TCP EXCEPT ![s] = @ - 1]

-----------------------------------------------------------------------------
(* The player thread: talking to the client.                               *)

CommandAt(l) == CASE l = "deal"  -> "DEAL"
                  [] l = "trick" -> "TRICK"
                  [] l = "taken" -> "TAKEN"
                  [] l = "score" -> "SCORE"
                  [] l = "total" -> "TOTAL"

(* Mutant: TOTAL follows SCORE at once, without waiting for the others.    *)
AfterCommand_NoBarrier(l) == CASE l = "deal"  -> "dealt"
                               [] l = "trick" -> "full"
                               [] l = "taken" -> "credited"
                               [] l = "score" -> "total"
                               [] l = "total" -> "totalled"

AfterCommand(l) == CASE l = "deal"  -> "dealt"
                     [] l = "trick" -> "full"
                     [] l = "taken" -> "credited"
                     [] l = "score" -> "scored"
                     [] l = "total" -> "totalled"

SendCommand(s) ==
    /\ loc[s] \in CommLocs /\ sub[s] = "ready"
    /\ child_pipe' = [child_pipe EXCEPT ![s] = Append(@, CommandAt(loc[s]))]
    /\ sub' = [sub EXCEPT ![s] = "wait"]
    /\ UNCHANGED <<loc, semaphore_TCP, tcpVars, env, gmVars>>

(***************************************************************************)
(* The permit says that the command was served or that the TCP thread has  *)
(* ended; thread_ended tells which.                                        *)
(***************************************************************************)
CollectServed(s) ==
    /\ sub[s] = "wait" /\ ~thread_ended[s]
    /\ Acquire(s)
    /\ sub' = [sub EXCEPT ![s] = "ready"]
    /\ Goto(s, AfterCommand(loc[s]))
    /\ UNCHANGED <<child_pipe, tcpVars, env, gmVars>>

CollectEnded(s) ==
    /\ sub[s] \in {"wait", "sync"} /\ thread_ended[s]
    /\ Acquire(s)
    /\ sub' = [sub EXCEPT ![s] = "recover"]
    /\ UNCHANGED <<loc, child_pipe, tcpVars, env, gmVars>>

(* Mutant: thread_ended is not reset.                                      *)
Recover_KeepsFlag(s) ==
    /\ sub[s] = "recover"
    /\ child_pipe' = [child_pipe EXCEPT ![s] = << >>]
    /\ SetPlayerLeft(s)
    /\ sub' = [sub EXCEPT ![s] = "left"]
    /\ UNCHANGED <<loc, semaphore_TCP, tcp, thread_ended, dying, cards_played,
                   points, clientView, env>>

(***************************************************************************)
(* A new pipe forgets the command that may not have been read.             *)
(***************************************************************************)
Recover(s) ==
    /\ sub[s] = "recover"
    /\ child_pipe' = [child_pipe EXCEPT ![s] = << >>]
    /\ thread_ended' = [thread_ended EXCEPT ![s] = FALSE]
    /\ SetPlayerLeft(s)
    /\ sub' = [sub EXCEPT ![s] = "left"]
    /\ UNCHANGED <<loc, semaphore_TCP, tcp, dying, cards_played, points,
                   clientView, env>>

Replace(s) ==
    /\ sub[s] = "left"
    /\ AcquireDisconnectedSem(s)
    /\ tcp' = [tcp EXCEPT ![s] = "resync"]
    /\ sub' = [sub EXCEPT ![s] = "sync"]
    /\ UNCHANGED <<loc, seatSync, thread_ended, dying, cards_played, points,
                   clientView, env>>

ResendCommand(s) ==
    /\ sub[s] = "sync" /\ ~thread_ended[s]
    /\ Acquire(s)
    /\ child_pipe' = [child_pipe EXCEPT ![s] = Append(@, CommandAt(loc[s]))]
    /\ sub' = [sub EXCEPT ![s] = "wait"]
    /\ UNCHANGED <<loc, tcpVars, env, gmVars>>

-----------------------------------------------------------------------------
(* The player thread: running the game.                                    *)

AfterBarrier(l) == CASE l = "start"     -> "deal"
                     [] l = "dealt"     -> "turn"
                     [] l = "passed"    -> "taken"
                     [] l = "credited"  -> "newlewa"
                     [] l = "cleared"   -> "over"
                     [] l = "scored"    -> "total"
                     [] l = "totalled"  -> "last"
                     [] l = "nextround" -> "newround"

(* Mutant: the barrier is built for one thread too few.                    *)
BarrierTrips_OneShort ==
    /\ \E absent \in Seats : \A s \in Seats \ {absent} : loc[s] \in BarrierLocs
    /\ loc' = [s \in Seats |-> IF loc[s] \in BarrierLocs
                              THEN AfterBarrier(loc[s]) ELSE loc[s]]
    /\ UNCHANGED <<sub, seatSync, tcpVars, env, gmVars>>

(***************************************************************************)
(* arrive_and_wait: the last of the NumSeats arrivals lets them all go.    *)
(***************************************************************************)
BarrierTrips ==
    /\ \A s \in Seats : loc[s] \in BarrierLocs
    /\ loc' = [s \in Seats |-> AfterBarrier(loc[s])]
    /\ UNCHANGED <<sub, seatSync, tcpVars, env, gmVars>>

Step(s, from, to) ==
    /\ loc[s] = from
    /\ Goto(s, to)
    /\ UNCHANGED <<sub, seatSync, tcpVars, env>>

TakeTurn(s) == Step(s, "turn", "trick") /\ WaitForTurn(s)

CheckFull(s) ==
    /\ Step(s, "full", IF LewaFull THEN "won" ELSE "pass")
    /\ UNCHANGED gmVars

DecideTaker(s) == Step(s, "won", "lead") /\ CheckWhoWonLewa

GiveLead(s) == Step(s, "lead", "count") /\ SetFirstPlayerForNextTurn

CountCards(s) == Step(s, "count", "passed") /\ CountCardsPlayed

PassTurn(s) == Step(s, "pass", "passed") /\ NextPlayerTurn

ClearTable(s) == Step(s, "newlewa", "cleared") /\ PrepareNewLewa

CheckRound(s) ==
    /\ Step(s, "over", IF round_finished THEN "score" ELSE "turn")
    /\ UNCHANGED gmVars

(* Mutant: the round after the last one is looked for.                     *)
CheckLastRound_OffByOne(s) ==
    /\ Step(s, "last", IF round_number > NumRounds THEN "leave" ELSE "nextround")
    /\ UNCHANGED gmVars

CheckLastRound(s) ==
    /\ Step(s, "last", IF LastRound THEN "leave" ELSE "nextround")
    /\ UNCHANGED gmVars

StartRound(s) == Step(s, "newround", "start") /\ PrepareNewRound

(***************************************************************************)
(* A monitor method called where it is not defined: get_lewa_id throws out *)
(* of the thread, which ends the process, or rounds[] is read past its end *)
(* (undefined: taken to end the process too).                              *)
(***************************************************************************)
MonitorThrows(s) ==
    /\ \/ loc[s] = "newlewa" /\ ~NewLewaDefined
       \/ loc[s] = "newround" /\ ~NewRoundDefined
    /\ process' = "aborted"
    /\ UNCHANGED <<playerVars, seatSync, tcpVars, faults, gmVars>>

SendEnd(s) ==
    /\ loc[s] = "end"
    /\ child_pipe' = [child_pipe EXCEPT ![s] = Append(@, "END")]
    /\ Goto(s, "endwait")
    /\ UNCHANGED <<sub, semaphore_TCP, tcpVars, env, gmVars>>

CollectEnd(s) ==
    /\ loc[s] = "endwait"
    /\ Acquire(s)
    /\ Goto(s, "finished")
    /\ UNCHANGED <<sub, child_pipe, tcpVars, env, gmVars>>

-----------------------------------------------------------------------------
(* The TCP thread.                                                         *)

Fault(kind) == /\ kind \in Failures /\ faults < MaxFaults
               /\ faults' = faults + 1

(***************************************************************************)
(* handle_player_disconnect sets the flag and then releases; EndThread is  *)
(* the first half and SignalEnded the second.                              *)
(***************************************************************************)
EndThread(s) ==
    /\ thread_ended' = [thread_ended EXCEPT ![s] = TRUE]
    /\ tcp' = [tcp EXCEPT ![s] = "none"]
    /\ dying' = [dying EXCEPT ![s] = @ + 1]
    /\ UNCHANGED <<semaphore_TCP, clientView, process>>

SignalEnded(s) ==
    /\ dying[s] > 0
    /\ dying' = [dying EXCEPT ![s] = @ - 1]
    /\ Release(s)
    /\ UNCHANGED <<playerVars, child_pipe, tcp, thread_ended, cards_played,
                   points, clientView, env, gmVars>>

Told(s, command) ==
    tcp[s] = "poll" /\ child_pipe[s] # << >> /\ Head(child_pipe[s]) = command

ReadCommand(s, command) ==
    Told(s, command) /\ child_pipe' = [child_pipe EXCEPT ![s] = Tail(@)]

(***************************************************************************)
(* The message was written: release the player thread and poll again.      *)
(***************************************************************************)
Served(s) == /\ Release(s)
             /\ UNCHANGED <<tcpState, env>>

WriteFails(s, kind) == Fault(kind) /\ EndThread(s)

(* Mutant: the hand keeps its played cards.                                *)
HandleDeal_KeepsHand(s) ==
    /\ ReadCommand(s, "DEAL")
    /\ curr_game_points' = [curr_game_points EXCEPT ![s] = 0]
    /\ \/ /\ Served(s)
          /\ announced' = [announced EXCEPT ![s] = whose_turn]
          /\ taken_seen' = [taken_seen EXCEPT ![s] = << >>]
       \/ WriteFails(s, "deal")
    /\ UNCHANGED <<playerVars, cards_played, all_points, gmVars>>

(* Mutant: the points of the last round are not cleared.                   *)
HandleDeal_KeepsPoints(s) ==
    /\ ReadCommand(s, "DEAL")
    /\ cards_played' = [cards_played EXCEPT ![s] = 0]
    /\ \/ /\ Served(s)
          /\ announced' = [announced EXCEPT ![s] = whose_turn]
          /\ taken_seen' = [taken_seen EXCEPT ![s] = << >>]
       \/ WriteFails(s, "deal")
    /\ UNCHANGED <<playerVars, points, gmVars>>

HandleDeal(s) ==
    /\ ReadCommand(s, "DEAL")
    /\ cards_played' = [cards_played EXCEPT ![s] = 0]
    /\ curr_game_points' = [curr_game_points EXCEPT ![s] = 0]
    /\ \/ /\ Served(s)
          /\ announced' = [announced EXCEPT ![s] = whose_turn]
          /\ taken_seen' = [taken_seen EXCEPT ![s] = << >>]
       \/ WriteFails(s, "deal")
    /\ UNCHANGED <<playerVars, all_points, gmVars>>

(***************************************************************************)
(* The taker's points are added before the message is written.             *)
(***************************************************************************)
HandleTaken(s) ==
    /\ ReadCommand(s, "TAKEN") /\ who_won_lewa # NONE_POS
    /\ curr_game_points' = IF who_won_lewa = s
                           THEN [curr_game_points EXCEPT ![s] = @ + 1]
                           ELSE curr_game_points
    /\ \/ /\ Served(s)
          /\ taken_seen' = [taken_seen EXCEPT ![s] = Append(@, lewa_id)]
          /\ UNCHANGED announced
       \/ WriteFails(s, "taken")
    /\ UNCHANGED <<playerVars, cards_played, all_points, gmVars>>

(***************************************************************************)
(* playerPos_to_char throws when nobody has taken a trick of the round     *)
(* yet, and that costs the client its connection.                          *)
(***************************************************************************)
TakenThrows(s) ==
    /\ ReadCommand(s, "TAKEN") /\ who_won_lewa = NONE_POS
    /\ EndThread(s)
    /\ UNCHANGED <<playerVars, cards_played, points, faults, gmVars>>

(***************************************************************************)
(* The round's points enter the total before the message is written.       *)
(***************************************************************************)
HandleScore(s) ==
    /\ ReadCommand(s, "SCORE")
    /\ all_points' = [all_points EXCEPT ![s] = @ + curr_game_points[s]]
    /\ \/ Served(s) /\ UNCHANGED clientView
       \/ WriteFails(s, "score")
    /\ UNCHANGED <<playerVars, cards_played, curr_game_points, gmVars>>

(* Mutant: the handler goes on after a failed write and releases again.    *)
HandleTotal_NoReturn(s) ==
    /\ ReadCommand(s, "TOTAL")
    /\ \/ Served(s) /\ UNCHANGED clientView
       \/ /\ Fault("total")
          /\ thread_ended' = [thread_ended EXCEPT ![s] = TRUE]
          /\ tcp' = [tcp EXCEPT ![s] = "none"]
          /\ dying' = [dying EXCEPT ![s] = @ + 1]
          /\ Release(s)
          /\ UNCHANGED <<clientView, process>>
    /\ UNCHANGED <<playerVars, cards_played, points, gmVars>>

HandleTotal(s) ==
    /\ ReadCommand(s, "TOTAL")
    /\ \/ Served(s) /\ UNCHANGED clientView
       \/ WriteFails(s, "total")
    /\ UNCHANGED <<playerVars, cards_played, points, gmVars>>

HandleEnd(s) ==
    /\ ReadCommand(s, "END")
    /\ Release(s)
    /\ tcp' = [tcp EXCEPT ![s] = "none"]
    /\ UNCHANGED <<playerVars, thread_ended, dying, cards_played, points,
                   clientView, env, gmVars>>

(***************************************************************************)
(* handle_TRICK writes the request and waits for the card.  A Lewa with    *)
(* the id a full round ends with cannot be built, and is built outside the *)
(* try: that would end the process, and nothing of the thread remains.     *)
(***************************************************************************)
AskForCard(s) ==
    /\ IF LewaIdReadable
       THEN /\ ReadCommand(s, "TRICK")
            /\ tcp' = [tcp EXCEPT ![s] = "TRICK"]
            /\ UNCHANGED process
       ELSE /\ Told(s, "TRICK")
            /\ process' = "aborted"
            /\ UNCHANGED <<tcp, child_pipe>>
    /\ UNCHANGED <<playerVars, semaphore_TCP, thread_ended, dying, cards_played,
                   points, clientView, faults, gmVars>>

(***************************************************************************)
(* The client answers with a card that passes check_card_correctness.      *)
(* Timeouts and refused cards only repeat the request.                     *)
(***************************************************************************)
AcceptCard(s) ==
    /\ tcp[s] = "TRICK" /\ cards_played[s] < NumTricks /\ ~LewaFull
    /\ AddCardToLewa(s)
    /\ cards_played' = [cards_played EXCEPT ![s] = @ + 1]
    /\ Release(s)
    /\ tcp' = [tcp EXCEPT ![s] = "poll"]
    /\ UNCHANGED <<playerVars, child_pipe, thread_ended, dying, points,
                   clientView, env>>

CardOverflows(s) ==
    /\ tcp[s] = "TRICK" /\ cards_played[s] < NumTricks /\ LewaFull
    /\ EndThread(s)
    /\ UNCHANGED <<playerVars, child_pipe, cards_played, points, faults, gmVars>>

(* Mutant: the thread ends without telling the player thread.              *)
LoseClientInTrick_Silent(s) ==
    /\ tcp[s] = "TRICK"
    /\ Fault("trick")
    /\ tcp' = [tcp EXCEPT ![s] = "none"]
    /\ UNCHANGED <<playerVars, seatSync, thread_ended, dying, cards_played,
                   points, clientView, process, gmVars>>

LoseClientInTrick(s) ==
    /\ tcp[s] = "TRICK"
    /\ WriteFails(s, "trick")
    /\ UNCHANGED <<playerVars, child_pipe, cards_played, points, gmVars>>

(***************************************************************************)
(* handle_TRICK returns ERROR without telling anyone.                      *)
(***************************************************************************)
ResetInTrick(s) ==
    /\ tcp[s] = "TRICK"
    /\ Fault("reset")
    /\ tcp' = [tcp EXCEPT ![s] = "none"]
    /\ UNCHANGED <<playerVars, seatSync, thread_ended, dying, cards_played,
                   points, clientView, process, gmVars>>

(* Mutant: the trick lying full on the table is resent as taken too.       *)
Resync_WithCurrentTrick(s) ==
    /\ tcp[s] = "resync"
    /\ \/ /\ Release(s)
          /\ tcp' = [tcp EXCEPT ![s] = "poll"]
          /\ announced' = [announced EXCEPT ![s] = first_player]
          /\ LET known == Len(lewas_played) + (IF LewaFull THEN 1 ELSE 0)
             IN  taken_seen' = [taken_seen EXCEPT ![s] = [i \in 1 .. known |-> i]]
          /\ UNCHANGED <<thread_ended, dying, env>>
       \/ WriteFails(s, "resync")
    /\ UNCHANGED <<playerVars, child_pipe, cards_played, points, gmVars>>

(***************************************************************************)
(* A replacement is sent the DEAL and the TAKENs of the round so far.      *)
(***************************************************************************)
Resync(s) ==
    /\ tcp[s] = "resync"
    /\ \/ /\ Release(s)
          /\ tcp' = [tcp EXCEPT ![s] = "poll"]
          /\ announced' = [announced EXCEPT ![s] = first_player]
          /\ taken_seen' = [taken_seen EXCEPT ![s] = [i \in 1 .. Len(lewas_played) |-> i]]
          /\ UNCHANGED <<thread_ended, dying, env>>
       \/ WriteFails(s, "resync")
    /\ UNCHANGED <<playerVars, child_pipe, cards_played, points, gmVars>>

(* Mutant: the thread reports the loss and polls on.                       *)
LoseClientInPoll_KeepsThread(s) ==
    /\ tcp[s] = "poll"
    /\ Fault(IF semaphore_TCP[s] > 0 THEN "handoff" ELSE "idle")
    /\ thread_ended' = [thread_ended EXCEPT ![s] = TRUE]
    /\ dying' = [dying EXCEPT ![s] = @ + 1]
    /\ UNCHANGED <<tcp, semaphore_TCP, clientView, process>>
    /\ UNCHANGED <<playerVars, child_pipe, cards_played, points, gmVars>>

LoseClientInPoll(s) ==
    /\ tcp[s] = "poll"
    /\ WriteFails(s, IF semaphore_TCP[s] > 0 THEN "handoff" ELSE "idle")
    /\ UNCHANGED <<playerVars, child_pipe, cards_played, points, gmVars>>

(***************************************************************************)
(* A message nobody asked for is answered with WRONG, which changes no     *)
(* state.  The answer is built and written outside the try: it aborts the  *)
(* process when the id cannot go into a Lewa or the write fails.           *)
(***************************************************************************)
WrongAborts(s) ==
    /\ tcp[s] = "poll"
    /\ \/ Fault("unsolicited") /\ ~LewaIdReadable
       \/ Fault("wrongWrite")
    /\ process' = "aborted"
    /\ UNCHANGED <<playerVars, seatSync, tcpVars, gmVars>>

(***************************************************************************)
(* SIGPIPE is not ignored.                                                 *)
(***************************************************************************)
BrokenPipe(s) ==
    /\ \/ tcp[s] \in {"resync", "TRICK"}
       \/ tcp[s] = "poll" /\ child_pipe[s] # << >> /\ Head(child_pipe[s]) # "END"
    /\ Fault("sigpipe")
    /\ process' = "killed"
    /\ UNCHANGED <<playerVars, seatSync, tcpVars, gmVars>>
=============================================================================
