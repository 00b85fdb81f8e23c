---------------------------- MODULE KierkiServer ----------------------------
(***************************************************************************)
(* kierki-serwer as a whole: the main thread, which admits clients and     *)
(* ends the process (kierki-serwer.cpp), over the GameMaster monitor and   *)
(* the two threads of every seat.                                          *)
(*                                                                         *)
(* The main thread serves one connection at a time.  It reads whether the  *)
(* seat is taken, and then either lists the taken seats (BUSY) or admits   *)
(* the client, in a second critical section.                               *)
(***************************************************************************)
EXTENDS SeatThreads

VARIABLES
    main,           \* where the main thread stands
    request,        \* the seat its current client asked for
    end_signalled   \* END was written to the main thread's pipe

mainVars == <<main, request, end_signalled>>
vars == <<gmVars, playerVars, seatSync, tcpVars, env, mainVars>>

MainInit ==
    /\ main = "idle"
    /\ request = NONE_POS
    /\ end_signalled = FALSE

MainTypeOK ==
    /\ main \in {"idle", "check", "busy", "add", "spawn"}
    /\ request \in Seats \cup {NONE_POS}
    /\ end_signalled \in BOOLEAN

Init == GMInit /\ SeatInit /\ MainInit

-----------------------------------------------------------------------------
(* The main thread.                                                        *)

(***************************************************************************)
(* accept and a well formed IAM.  END in the pipe is looked at first.      *)
(***************************************************************************)
JoinRequest(p) ==
    /\ main = "idle" /\ ~end_signalled
    /\ main' = "check"
    /\ request' = p
    /\ UNCHANGED <<end_signalled, gmVars, playerVars, seatSync, tcpVars, env>>

CheckIfPositionTaken ==
    /\ main = "check"
    /\ main' = IF pos_taken_map[request] THEN "busy" ELSE "add"
    /\ UNCHANGED <<request, end_signalled, gmVars, playerVars, seatSync,
                   tcpVars, env>>

SendBusy ==
    /\ main = "busy"
    /\ main' = "idle"
    /\ request' = NONE_POS
    /\ UNCHANGED <<end_signalled, gmVars, playerVars, seatSync, tcpVars, env>>

AdmitNew ==
    /\ main = "add" /\ number_of_players_present < NumSeats
    /\ AddNewPlayer(request)
    /\ main' = "spawn"
    /\ UNCHANGED <<request, end_signalled, playerVars, seatSync, tcpVars, env>>

AdmitReplacement ==
    /\ main = "add" /\ number_of_players_present >= NumSeats
    /\ AddNewPlayer(request)
    /\ main' = "idle"
    /\ request' = NONE_POS
    /\ UNCHANGED <<end_signalled, playerVars, seatSync, tcpVars, env>>

(***************************************************************************)
(* The player thread starts, creates its TCP thread and goes to wait for   *)
(* the game to start.                                                      *)
(***************************************************************************)
Spawn ==
    /\ main = "spawn"
    /\ Goto(request, "start")
    /\ tcp' = [tcp EXCEPT ![request] = "poll"]
    /\ main' = "idle"
    /\ request' = NONE_POS
    /\ UNCHANGED <<end_signalled, gmVars, sub, seatSync, thread_ended, dying,
                   cards_played, points, clientView, env>>

(***************************************************************************)
(* main returns: the detached threads die with the process.                *)
(***************************************************************************)
Exit ==
    /\ main = "idle" /\ end_signalled
    /\ process' = "exited"
    /\ UNCHANGED <<faults, gmVars, playerVars, seatSync, tcpVars, mainVars>>

(* Mutant: the last but one to leave tells the main thread.                *)
LeaveGame_Early(s) ==
    /\ loc[s] = "leave"
    /\ DecrementPresentPlayers
    /\ Goto(s, "end")
    /\ end_signalled' = (end_signalled \/ number_of_players_present = 2)
    /\ UNCHANGED <<main, request, sub, seatSync, tcpVars, env>>

(***************************************************************************)
(* A player thread leaves the game; the last one tells the main thread.    *)
(***************************************************************************)
LeaveGame(s) ==
    /\ loc[s] = "leave"
    /\ DecrementPresentPlayers
    /\ Goto(s, "end")
    /\ end_signalled' = (end_signalled \/ number_of_players_present = 1)
    /\ UNCHANGED <<main, request, sub, seatSync, tcpVars, env>>

-----------------------------------------------------------------------------
(* The steps of each thread, while the process runs.                       *)

Running == process = "running"

BySeat(A) == Running /\ A /\ UNCHANGED mainVars
ByMain(A) == Running /\ A

TalkStep(s) ==
    \/ BySeat(SendCommand(s))
    \/ BySeat(CollectServed(s))
    \/ BySeat(CollectEnded(s))
    \/ BySeat(Recover(s))
    \/ BySeat(Replace(s))
    \/ BySeat(ResendCommand(s))

GameStep(s) ==
    \/ BySeat(TakeTurn(s))
    \/ BySeat(CheckFull(s))
    \/ BySeat(DecideTaker(s))
    \/ BySeat(GiveLead(s))
    \/ BySeat(CountCards(s))
    \/ BySeat(PassTurn(s))
    \/ BySeat(ClearTable(s))
    \/ BySeat(CheckRound(s))
    \/ BySeat(CheckLastRound(s))
    \/ BySeat(StartRound(s))
    \/ BySeat(MonitorThrows(s))
    \/ ByMain(LeaveGame(s))
    \/ BySeat(SendEnd(s))
    \/ BySeat(CollectEnd(s))

TcpStep(s) ==
    \/ BySeat(HandleDeal(s))
    \/ BySeat(AskForCard(s))
    \/ BySeat(AcceptCard(s))
    \/ BySeat(CardOverflows(s))
    \/ BySeat(HandleTaken(s))
    \/ BySeat(TakenThrows(s))
    \/ BySeat(HandleScore(s))
    \/ BySeat(HandleTotal(s))
    \/ BySeat(HandleEnd(s))
    \/ BySeat(Resync(s))

SignalStep(s) == BySeat(SignalEnded(s))

FailureStep(s) ==
    \/ BySeat(LoseClientInPoll(s))
    \/ BySeat(LoseClientInTrick(s))
    \/ BySeat(ResetInTrick(s))
    \/ BySeat(WrongAborts(s))
    \/ BySeat(BrokenPipe(s))

SeatStep(s) == TalkStep(s) \/ GameStep(s) \/ TcpStep(s) \/ SignalStep(s)
               \/ FailureStep(s)

BarrierStep == BySeat(BarrierTrips)

MainStep == \/ ByMain(CheckIfPositionTaken)
            \/ ByMain(SendBusy)
            \/ ByMain(AdmitNew)
            \/ ByMain(AdmitReplacement)
            \/ ByMain(Spawn)
            \/ ByMain(Exit)

JoinStep(s) == ByMain(JoinRequest(s))

Stopped == ~Running /\ UNCHANGED vars

Next == \/ BarrierStep
        \/ MainStep
        \/ \E s \in Seats : SeatStep(s) \/ JoinStep(s)
        \/ Stopped

Spec == Init /\ [][Next]_vars

(***************************************************************************)
(* Fairness: the kernel runs every thread that can run; clients answer a   *)
(* TRICK in the end; and for a free seat a client comes and is not passed  *)
(* over for ever by clients asking for taken ones (strong, as the main     *)
(* thread keeps leaving "idle" to refuse those).  Failures are never due.  *)
(***************************************************************************)
Fairness ==
    /\ WF_vars(BarrierStep)
    /\ WF_vars(MainStep)
    /\ \A s \in Seats :
         /\ WF_vars(TalkStep(s) \/ GameStep(s))
         /\ WF_vars(TcpStep(s))
         /\ WF_vars(SignalStep(s))
         /\ SF_vars(~pos_taken_map[s] /\ JoinStep(s))

FairSpec == Spec /\ Fairness

TypeOK == GMTypeOK /\ SeatTypeOK /\ MainTypeOK

-----------------------------------------------------------------------------
(* Safety.                                                                 *)

(***************************************************************************)
(* There is one permit to play in the whole server: it is in the turn      *)
(* semaphore of whose_turn, or the player thread of that seat holds it     *)
(* until it has passed the turn on.  (game_master.cpp:110, "at a time only *)
(* one of these semaphores is open")                                       *)
(***************************************************************************)
HolderLocs == {"trick", "full", "won", "lead", "pass"}
Holders == {s \in Seats : loc[s] \in HolderLocs}

TurnToken ==
    \/ /\ Holders = {}
       /\ semaphore_map = [s \in Seats |-> IF s = whose_turn THEN 1 ELSE 0]
    \/ /\ Holders = {whose_turn}
       /\ semaphore_map = [s \in Seats |-> 0]

(***************************************************************************)
(* The barrier is one object used at eight places of thread_main.  The     *)
(* threads that wait at it always wait at the same place.                  *)
(***************************************************************************)
BarrierAligned ==
    \A s, t \in Seats :
        loc[s] \in BarrierLocs /\ loc[t] \in BarrierLocs => loc[s] = loc[t]

(***************************************************************************)
(* prepare_new_round, called once by every player thread, starts exactly   *)
(* one round: the thread that finds a trick played finds a next round too, *)
(* and its acquire of the turn semaphore, done under mutex_gm, never       *)
(* waits.  (player_threads.cpp:233)                                        *)
(***************************************************************************)
NewRoundSafe ==
    \A s \in Seats : loc[s] = "newround" /\ lewa_id > 1 =>
        ~LastRound /\ semaphore_map[whose_turn] = 1

(***************************************************************************)
(* A player thread is started for a seat that has none, although the       *)
(* check that the seat is free and the count that says it is a first join  *)
(* look at different variables.                                            *)
(***************************************************************************)
SpawnOnce == main = "spawn" => loc[request] = "none" /\ tcp[request] = "none"

(***************************************************************************)
(* The "replacement is here" semaphore is binary, and is only signalled to *)
(* a seat whose player thread waits, or will wait, for it.                 *)
(***************************************************************************)
ReplacementAwaited ==
    \A s \in Seats : disconnected_sem_map[s] <= 1
                     /\ (disconnected_sem_map[s] = 1 => sub[s] = "left")

(***************************************************************************)
(* A TCP thread runs only for a seat whose socket is set, and the player   *)
(* thread that starts a new one has no other running: no thread uses the   *)
(* socket after reset_client_fd, and no two read one client.               *)
(***************************************************************************)
SocketInUse ==
    \A s \in Seats : /\ tcp[s] # "none" => pos_taken_map[s]
                     /\ sub[s] \in {"recover", "left"} => tcp[s] = "none"

(***************************************************************************)
(* A player thread that waits for its TCP thread has one to wait for, or a *)
(* permit is there or about to be: no disconnection leaves it asleep.      *)
(***************************************************************************)
NoLostWakeup ==
    \A s \in Seats :
        sub[s] \in {"wait", "sync"} \/ loc[s] = "endwait" =>
            tcp[s] # "none" \/ semaphore_TCP[s] + dying[s] > 0

(***************************************************************************)
(* semaphore_TCP is a binary_semaphore: releasing it above one is outside  *)
(* its contract and would let the player thread run a command ahead.       *)
(***************************************************************************)
SemaphoreTCPBinary == \A s \in Seats : semaphore_TCP[s] + dying[s] <= 1

(***************************************************************************)
(* The hand the server keeps for a seat agrees with the tricks: once dealt,*)
(* a seat has played one card in each finished trick, and one more if its  *)
(* card lies on the table.                                                 *)
(***************************************************************************)
OnTable(s) == \E i \in DOMAIN curr_lewa : curr_lewa[i] = s

HandMatchesTricks ==
    \A s \in Seats :
        loc[s] \notin {"none", "start", "deal", "newround"} =>
            cards_played[s] = Len(lewas_played) + (IF OnTable(s) THEN 1 ELSE 0)

(***************************************************************************)
(* A client is told of the finished tricks of its round from the first on, *)
(* in order and without a gap: by resend_TAKEN, which runs over            *)
(* lewas_played, and then by handle_TAKEN, which takes the id of the table.*)
(***************************************************************************)
OneTakenPerTrick ==
    \A s \in Seats :
        taken_seen[s] = [i \in 1 .. Len(taken_seen[s]) |-> i]

(***************************************************************************)
(* No client is told of the same trick twice, whatever it was told of the  *)
(* others.  (player_threads.cpp:183, "we won't duplicate sending TAKEN, we *)
(* will send only one TAKEN for every played lewa", of the order in which  *)
(* thread_main sends TAKEN and puts the trick away)                        *)
(***************************************************************************)
NoTakenTwice ==
    \A s \in Seats : \A i, j \in DOMAIN taken_seen[s] :
        taken_seen[s][i] = taken_seen[s][j] => i = j

(***************************************************************************)
(* When SCORE is about to be written every seat's points are those of the  *)
(* tricks it took in the round, and when TOTAL is, those of the game.      *)
(***************************************************************************)
About(command) == \E s \in Seats : Told(s, command)

TricksTaken(s) == Cardinality({i \in DOMAIN lewas_played : lewas_played[i] = s})

ScoreTruthful ==
    About("SCORE") =>
        \A s \in Seats : curr_game_points[s] = TricksTaken(s)

TotalTruthful ==
    About("TOTAL") => \A s \in Seats : all_points[s] = tricks_won[s]

(***************************************************************************)
(* The process ends by itself only after the last TOTAL has been written   *)
(* to every client, although returning from main kills the TCP threads.    *)
(***************************************************************************)
ExitAfterTotals ==
    process = "exited" =>
        /\ LastRound /\ round_finished
        /\ \A s \in Seats : /\ loc[s] \in {"end", "endwait", "finished"}
                            /\ \A i \in DOMAIN child_pipe[s] :
                                   child_pipe[s][i] = "END"

-----------------------------------------------------------------------------
(* Refinement: under all the threads there is one game at a table.         *)

TableLeader == IF curr_lewa # << >> THEN curr_lewa[1] ELSE first_player

Table == INSTANCE TableGame WITH leader <- TableLeader, table <- curr_lewa,
                                 taken <- lewas_played, number <- round_number

TableSpec == Table!Spec

-----------------------------------------------------------------------------
(* Liveness.                                                               *)

(***************************************************************************)
(* The game comes to its end: no hand-off, barrier or vacated seat holds   *)
(* it up for ever.  (A round of NumTricks tricks that is not the last one  *)
(* ends in an abort: see NoAbort.)                                         *)
(***************************************************************************)
GameEnds == <>(process \in {"exited", "aborted"})

(***************************************************************************)
(* A seat whose client is lost during the game is played again.            *)
(***************************************************************************)
SeatResumes ==
    \A s \in Seats : sub[s] = "recover" ~> (sub[s] = "ready" \/ ~Running)

-----------------------------------------------------------------------------
(* What the repository says, and the code does not do.                     *)

(***************************************************************************)
(* "when lewa is 14 it means that round will be ended"                     *)
(* (card_classes.cpp:274): the server survives the end of a full round.    *)
(***************************************************************************)
NoAbort == process # "aborted"

(***************************************************************************)
(* DEAL names "the seat of the client that leads first in the deal"        *)
(* (README.md, Protokol komunikacyjny).                                    *)
(***************************************************************************)
DealNamesStarter ==
    \A s \in Seats : announced[s] \in {NONE_POS, Starter[round_number]}
                     \/ loc[s] \in {"newround", "start", "deal"}
=============================================================================
