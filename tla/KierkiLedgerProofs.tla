-------------------------- MODULE KierkiLedgerProofs --------------------------
(***************************************************************************)
(* What the server keeps of the game agrees with the game: the hands and   *)
(* the clients' view with the tricks, the points with who took them, and   *)
(* the end of the process with the end of the last round, for every number *)
(* of seats, rounds and tricks.  The steps start from IInv and, where the  *)
(* number of a trick matters, from OrderOfPlay.                            *)
(***************************************************************************)
EXTENDS KierkiServerProofs

-----------------------------------------------------------------------------
(* The end of the game.                                                    *)

LateLocs == {"total", "totalled", "nextround"} \cup LeaveLocs

(***************************************************************************)
(* The end is not nearer when no player thread moves, the pipes of         *)
(* finished threads are left alone and main does not return.               *)
(***************************************************************************)
LEMMA DepartureStill ==
    ASSUME Departure, process' = "exited" => process = "exited" \/ end_signalled,
           \A t \in Seats : loc[t] = "finished" => child_pipe'[t] = child_pipe[t],
           UNCHANGED <<loc, curr_lewa, round_number, round_finished>>,
           UNCHANGED <<number_of_players_present, end_signalled>>
    PROVE  Departure'
<1>1. (Leaving' <=> Leaving) /\ Staying' = Staying
  BY DEF Leaving, AllIn, LastRound, Staying
<1> QED BY <1>1 DEF Departure

(***************************************************************************)
(* The last phase has not begun, and main was not told to end, while a     *)
(* player thread is elsewhere.                                             *)
(***************************************************************************)
LEMMA DepartureAhead ==
    ASSUME TypeOK, Departure, Running, UNCHANGED process,
           NEW s \in Seats, NEW to, Goto(s, to),
           loc[s] \notin LeaveLocs, to \notin LeaveLocs, UNCHANGED end_signalled,
           \A t \in Seats \ {s} : child_pipe'[t] = child_pipe[t],
           to \in LateLocs => round_finished',
           \A t \in Seats : loc[t] \in LateLocs => round_finished' = round_finished
    PROVE  Departure'
<1>1. loc' = [loc EXCEPT ![s] = to] /\ loc \in [Seats -> Locs]
  BY DEF Goto, TypeOK, SeatTypeOK
<1>2. ~Leaving /\ ~Leaving'
  BY <1>1 DEF Leaving, AllIn
<1>3. ~end_signalled' /\ process' # "exited"
  BY <1>2 DEF Departure, Running
<1>4. \A t \in Seats : loc'[t] \in LateLocs => round_finished'
  BY <1>1 DEF Departure, LateLocs
<1>5. \A t \in Seats : loc'[t] = "finished" => child_pipe'[t] \in {<< >>, <<"END">>}
  BY <1>1 DEF Departure, LeaveLocs
<1> QED BY <1>2, <1>3, <1>4, <1>5 DEF Departure, LateLocs

(***************************************************************************)
(* A player thread on its way out, which stays counted or already was not. *)
(***************************************************************************)
LEMMA DepartureMove ==
    ASSUME TypeOK, Departure, Running, UNCHANGED process, Leaving,
           NEW s \in Seats, NEW to \in LeaveLocs, Goto(s, to),
           loc[s] \in {"last", "leave"} <=> to \in {"last", "leave"},
           to = "finished" => child_pipe'[s] \in {<< >>, <<"END">>},
           \A t \in Seats \ {s} : child_pipe'[t] = child_pipe[t],
           UNCHANGED <<curr_lewa, round_number, round_finished>>,
           UNCHANGED <<number_of_players_present, end_signalled>>
    PROVE  Departure'
<1>1. loc' = [loc EXCEPT ![s] = to] /\ loc \in [Seats -> Locs]
  BY DEF Goto, TypeOK, SeatTypeOK
<1>2. Leaving'
  BY AllInMove DEF Leaving, LastRound
<1>3. Staying' = Staying
  BY <1>1 DEF Staying
<1>4. round_finished'
  BY DEF Departure, Leaving, AllIn
<1>5. \A t \in Seats : loc'[t] = "finished" => child_pipe'[t] \in {<< >>, <<"END">>}
  BY <1>1 DEF Departure
<1> QED BY <1>2, <1>3, <1>4, <1>5 DEF Departure, Running

(***************************************************************************)
(* End: a thread that talks to its client has not left.                    *)
(***************************************************************************)
LEMMA DepartureTalk ==
    ASSUME IInv, Departure, NEW s \in Seats, TalkStep(s)
    PROVE  Departure'
<1>0. TypeOK /\ HandoffOf(s) /\ loc \in [Seats -> Locs] /\ child_pipe \in [Seats -> Seq(Commands)]
  BY DEF IInv, Handoff, TypeOK, SeatTypeOK
<1>1. loc[s] \in CommLocs /\ Running
  BY <1>0 DEF TalkStep, BySeat, SendCommand, CollectServed, CollectEnded,
     Recover, Replace, ResendCommand, HandoffOf
<1>2. /\ UNCHANGED <<process, round_number, round_finished, curr_lewa, end_signalled>>
      /\ UNCHANGED number_of_players_present
      /\ \A t \in Seats \ {s} : child_pipe'[t] = child_pipe[t]
  BY <1>0 DEF TalkStep, BySeat, SendCommand, CollectServed, CollectEnded,
     Recover, Replace, ResendCommand, SetPlayerLeft, AcquireDisconnectedSem,
     gmVars, admission, lewa, round, env, mainVars, seatSync
<1>3. PICK to : Goto(s, to) /\ (to = loc[s] \/ to = AfterCommand(loc[s]))
  <2>1. UNCHANGED loc \/ Goto(s, AfterCommand(loc[s]))
    BY DEF TalkStep, BySeat, SendCommand, CollectServed, CollectEnded, Recover,
       Replace, ResendCommand
  <2>2. UNCHANGED loc => Goto(s, loc[s])
    BY <1>0 DEF Goto
  <2> QED BY <2>1, <2>2
<1>4. to \notin LeaveLocs /\ (to \in LateLocs => loc[s] \in LateLocs) /\ loc[s] \notin LeaveLocs
  BY <1>1, <1>3 DEF CommLocs, AfterCommand, LateLocs, LeaveLocs
<1>5. to \in LateLocs => round_finished'
  BY <1>2, <1>4 DEF Departure, LateLocs
<1> QED BY <1>0, <1>1, <1>2, <1>3, <1>4, <1>5, DepartureAhead

(***************************************************************************)
(* The threads that still have to leave can be counted.                    *)
(***************************************************************************)
LEMMA StayingFinite ==
    /\ IsFiniteSet(Staying) /\ Cardinality(Staying) \in Nat
    /\ Cardinality(Staying) = 0 <=> Staying = {}
<1>1. Staying \subseteq Seats
  BY DEF Staying
<1>2. IsFiniteSet(Staying)
  BY <1>1, SeatsFinite, FS_Subset
<1> QED BY <1>2, FS_CardinalityType, FS_EmptySet

(***************************************************************************)
(* End: a player thread leaves, and the last one tells main.               *)
(***************************************************************************)
LEMMA DepartureLeave ==
    ASSUME IInv, Departure, Running, NEW s \in Seats, LeaveGame(s)
    PROVE  Departure'
<1>0. loc \in [Seats -> Locs]
  BY DEF IInv, TypeOK, SeatTypeOK
<1>1. /\ loc[s] = "leave" /\ loc' = [loc EXCEPT ![s] = "end"]
      /\ number_of_players_present' = number_of_players_present - 1
      /\ end_signalled' = (end_signalled \/ number_of_players_present = 1)
      /\ UNCHANGED <<curr_lewa, round_number, round_finished, child_pipe, process>>
  BY DEF LeaveGame, DecrementPresentPlayers, lewa, round, seatSync, env, Goto
<1>2. Leaving
  BY <1>1, PhaseAt DEF IInv, LeaveLocs
<1>3. Leaving'
  BY <1>1, <1>2, AllInMove DEF IInv, Leaving, LeaveLocs, LastRound, Goto
<1>4. Staying' = Staying \ {s} /\ s \in Staying
  BY <1>0, <1>1 DEF Staying
<1>5. Cardinality(Staying') = Cardinality(Staying) - 1
  BY <1>4, StayingFinite, FS_RemoveElement
<1>6. number_of_players_present' = Cardinality(Staying')
  BY <1>1, <1>2, <1>5 DEF Departure
<1>7. ASSUME end_signalled' PROVE Staying' = {}
  <2>1. ~end_signalled
    BY <1>4 DEF Departure
  <2>2. Cardinality(Staying') = 0
    <3>1. number_of_players_present = 1
      BY <1>1, <1>7, <2>1
    <3> QED BY <1>1, <1>6, <3>1
  <2>3. Staying' \subseteq Seats
    BY <1>4 DEF Staying
  <2> QED BY <2>2, <2>3, SeatsFinite, FS_Subset, FS_EmptySet
<1>8. round_finished'
  BY <1>1 DEF Departure, LeaveLocs
<1>9. \A t \in Seats : loc'[t] = "finished" => child_pipe'[t] \in {<< >>, <<"END">>}
  BY <1>0, <1>1 DEF Departure
<1> QED BY <1>1, <1>3, <1>6, <1>7, <1>8, <1>9 DEF Departure, Running

(***************************************************************************)
(* End: the steps of the game before the last phase, and those of the last *)
(* phase.                                                                  *)
(***************************************************************************)
LEMMA DepartureGame ==
    ASSUME IInv, Departure, NEW s \in Seats, GameStep(s)
    PROVE  Departure'
<1>0. TypeOK /\ HandoffOf(s) /\ Lockstep /\ loc \in [Seats -> Locs]
      /\ child_pipe \in [Seats -> Seq(Commands)]
  BY DEF IInv, Handoff, TypeOK, SeatTypeOK
<1>1. ASSUME NEW from, NEW to, Step(s, from, to), Running, UNCHANGED mainVars,
             from \notin LeaveLocs, to \notin LeaveLocs,
             to \in LateLocs => round_finished',
             \/ UNCHANGED round_finished
             \/ \A t \in Seats : loc[t] \notin LateLocs
      PROVE  Departure'
  BY <1>0, <1>1, DepartureAhead DEF Step, seatSync, env, mainVars
<1>2. CASE BySeat(TakeTurn(s)) \/ BySeat(CheckFull(s)) \/ BySeat(DecideTaker(s))
           \/ BySeat(GiveLead(s)) \/ BySeat(PassTurn(s)) \/ BySeat(ClearTable(s))
           \/ BySeat(CheckRound(s))
  <2>1. UNCHANGED round_finished
    BY <1>2 DEF BySeat, TakeTurn, CheckFull, DecideTaker, GiveLead, PassTurn,
       ClearTable, CheckRound, WaitForTurn, CheckWhoWonLewa,
       SetFirstPlayerForNextTurn, NextPlayerTurn, PrepareNewLewa, gmVars, round
  <2>2. Running /\ UNCHANGED mainVars
    BY <1>2 DEF BySeat
  <2>3. \E from, to \in {"turn", "trick", "full", "won", "pass", "lead", "count", "passed",
                         "newlewa", "cleared", "over", "score"} : Step(s, from, to)
    BY <1>2 DEF BySeat, TakeTurn, CheckFull, DecideTaker, GiveLead, PassTurn,
       ClearTable, CheckRound
  <2> QED BY <1>1, <2>1, <2>2, <2>3 DEF LateLocs, LeaveLocs
<1>3. CASE BySeat(CountCards(s)) \/ BySeat(StartRound(s))
  <2>1. \E from \in {"count", "newround"}, to \in {"passed", "start"} : Step(s, from, to)
    BY <1>3 DEF BySeat, CountCards, StartRound
  <2>2. \A t \in Seats : loc[t] \notin LateLocs
    <3>1. Playing \/ Opening
      BY <1>0, <2>1, PhaseAt DEF PlayLocs, Step
    <3> QED BY <3>1 DEF Playing, Opening, AllIn, PlayLocs, LateLocs, LeaveLocs
  <2> QED BY <1>1, <1>3, <2>1, <2>2 DEF BySeat, LateLocs, LeaveLocs
<1>4. CASE BySeat(CheckLastRound(s))
  <2>1. /\ loc[s] = "last" /\ Goto(s, IF LastRound THEN "leave" ELSE "nextround")
        /\ UNCHANGED <<curr_lewa, round_number, round_finished, number_of_players_present>>
        /\ UNCHANGED <<child_pipe, process, end_signalled>> /\ Running
    BY <1>4 DEF BySeat, CheckLastRound, Step, gmVars, admission, lewa, round,
       seatSync, env, mainVars
  <2>2. CASE LastRound
    <3>1. Leaving
      BY <1>0, <2>1, <2>2, PhaseAt DEF Continuing
    <3> QED BY <1>0, <2>1, <2>2, <3>1, DepartureMove DEF LeaveLocs
  <2>3. CASE ~LastRound
    <3>1. loc' = [loc EXCEPT ![s] = "nextround"]
      BY <2>1, <2>3 DEF Goto
    <3>2. ~Leaving /\ ~Leaving'
      BY <1>0, <2>3, <3>1 DEF Leaving, AllIn, LeaveLocs
    <3>3. round_finished'
      BY <2>1 DEF Departure, LeaveLocs
    <3>4. \A t \in Seats : loc'[t] = "finished" => child_pipe'[t] \in {<< >>, <<"END">>}
      BY <1>0, <2>1, <3>1 DEF Departure
    <3> QED BY <2>1, <3>2, <3>3, <3>4 DEF Departure, Running
  <2> QED BY <2>2, <2>3
<1>5. CASE BySeat(MonitorThrows(s))
  BY <1>5, DepartureStill DEF BySeat, MonitorThrows, playerVars, seatSync,
     gmVars, admission, lewa, round, mainVars
<1>6. CASE ByMain(LeaveGame(s))
  BY <1>6, DepartureLeave DEF ByMain
<1>7. CASE BySeat(SendEnd(s))
  <2>1. /\ loc[s] = "end" /\ Goto(s, "endwait")
        /\ UNCHANGED <<curr_lewa, round_number, round_finished, number_of_players_present>>
        /\ UNCHANGED <<process, end_signalled>> /\ Running
        /\ \A t \in Seats \ {s} : child_pipe'[t] = child_pipe[t]
    BY <1>0, <1>7 DEF BySeat, SendEnd, gmVars, admission, lewa, round, env,
       mainVars
  <2>2. Leaving
    BY <1>0, <2>1, PhaseAt DEF LeaveLocs
  <2> QED BY <1>0, <2>1, <2>2, DepartureMove DEF LeaveLocs
<1>8. CASE BySeat(CollectEnd(s))
  <2>1. /\ loc[s] = "endwait" /\ Goto(s, "finished")
        /\ UNCHANGED <<curr_lewa, round_number, round_finished, number_of_players_present>>
        /\ UNCHANGED <<process, end_signalled, child_pipe>> /\ Running
    BY <1>8 DEF BySeat, CollectEnd, gmVars, admission, lewa, round, env,
       mainVars
  <2>2. Leaving
    BY <1>0, <2>1, PhaseAt DEF LeaveLocs
  <2>3. child_pipe[s] \in {<< >>, <<"END">>}
    <3>1. sub[s] = "ready"
      BY <1>0, <2>1 DEF HandoffOf, CommLocs
    <3> QED BY <1>0, <2>1, <3>1 DEF HandoffOf, DuringEnd
  <2> QED BY <1>0, <2>1, <2>2, <2>3, DepartureMove DEF LeaveLocs
<1> QED BY <1>2, <1>3, <1>4, <1>5, <1>6, <1>7, <1>8 DEF GameStep

(***************************************************************************)
(* End: the TCP threads play no part in it; none is left to read the pipe  *)
(* of a player thread that has finished.                                   *)
(***************************************************************************)
LEMMA DepartureSocket ==
    ASSUME IInv, Departure, NEW s \in Seats, TcpStep(s) \/ SignalStep(s) \/ FailureStep(s)
    PROVE  Departure'
<1>0. TypeOK /\ Handoff /\ HandoffOf(s) /\ loc \in [Seats -> Locs]
      /\ child_pipe \in [Seats -> Seq(Commands)]
  BY DEF IInv, Handoff, TypeOK, SeatTypeOK
<1>1. /\ UNCHANGED <<loc, round_number, round_finished>>
      /\ UNCHANGED <<number_of_players_present, end_signalled>>
      /\ process' = process \/ process' \in {"aborted", "killed"}
  BY DEF TcpStep, SignalStep, FailureStep, BySeat, HandleDeal, AskForCard,
     AcceptCard, AddCardToLewa, CardOverflows, HandleTaken, TakenThrows, HandleScore,
     HandleTotal, HandleEnd, Resync, SignalEnded, LoseClientInPoll,
     LoseClientInTrick, ResetInTrick, WrongAborts, BrokenPipe, Served,
     WriteFails, EndThread, playerVars, gmVars, admission, round, env, mainVars
<1>2. \A t \in Seats : loc[t] = "finished" => child_pipe'[t] = child_pipe[t]
  <2>1. CASE UNCHANGED child_pipe
    BY <2>1
  <2>2. CASE \E c \in Commands : ReadCommand(s, c)
    <3>1. PICK c \in Commands : ReadCommand(s, c)
      BY <2>2
    <3>2. loc[s] # "finished"
      BY <1>0, <3>1, CommandRead, EndRead DEF ReadCommand, CommLocs
    <3> QED BY <1>0, <3>1, <3>2 DEF ReadCommand
  <2>3. UNCHANGED child_pipe \/ \E c \in Commands : ReadCommand(s, c)
    BY DEF TcpStep, SignalStep, FailureStep, BySeat, HandleDeal, AskForCard,
       AcceptCard, CardOverflows, HandleTaken, TakenThrows, HandleScore, HandleTotal,
       HandleEnd, Resync, SignalEnded, LoseClientInPoll, LoseClientInTrick,
       ResetInTrick, WrongAborts, BrokenPipe, seatSync, Commands
  <2> QED BY <2>1, <2>2, <2>3
<1>3. CASE BySeat(AcceptCard(s))
  <2>1. loc[s] = "trick" /\ process' = process
    BY <1>0, <1>3, HandoffInTrick DEF BySeat, AcceptCard, env
  <2>2. ~Leaving /\ ~Leaving'
    BY <1>1, <2>1 DEF Leaving, AllIn, LeaveLocs
  <2> QED BY <1>1, <1>2, <2>1, <2>2 DEF Departure
<1>4. CASE ~BySeat(AcceptCard(s))
  <2>1. UNCHANGED curr_lewa
    BY <1>4 DEF TcpStep, SignalStep, FailureStep, BySeat, HandleDeal,
       AskForCard, CardOverflows, HandleTaken, TakenThrows, HandleScore, HandleTotal,
       HandleEnd, Resync, SignalEnded, LoseClientInPoll, LoseClientInTrick,
       ResetInTrick, WrongAborts, BrokenPipe, gmVars, lewa
  <2> QED BY <1>1, <1>2, <2>1, DepartureStill
<1> QED BY <1>3, <1>4

(***************************************************************************)
(* End: the barrier after SCORE leads to TOTAL in a finished round, and    *)
(* the one after TOTAL, in the last round, into the last phase, with every *)
(* seat counted.                                                           *)
(***************************************************************************)
LEMMA DepartureBarrier ==
    ASSUME IInv, Departure, BarrierStep
    PROVE  Departure'
<1>0. Lockstep /\ Admission /\ Seats # {}
  <2>1. Seats # {}
    BY SizesAssumption DEF Seats
  <2> QED BY <2>1 DEF IInv
<1>1. BarrierTrips /\ UNCHANGED <<number_of_players_present, end_signalled, process>>
      /\ UNCHANGED <<round_finished, curr_lewa, round_number>>
  BY DEF BarrierStep, BySeat, BarrierTrips, gmVars, admission, lewa, round,
     env, mainVars
<1>2. \A t \in Seats : loc[t] \in BarrierLocs /\ loc'[t] = AfterBarrier(loc[t])
  BY <1>1 DEF BarrierTrips
<1>3. ~Leaving /\ ~SomeAt("none")
  BY <1>0, <1>2 DEF Leaving, AllIn, SomeAt, BarrierLocs, LeaveLocs
<1>4. number_of_players_present = NumSeats
  BY <1>0, <1>3 DEF Admission
<1>5. ASSUME NEW t \in Seats, loc'[t] \in LateLocs PROVE round_finished
  <2>1. loc[t] \in {"scored", "totalled"}
    BY <1>2, <1>5 DEF BarrierLocs, AfterBarrier, LateLocs, LeaveLocs
  <2>2. CASE loc[t] = "scored"
    BY <1>0, <2>2, PhaseAt DEF Scoring
  <2>3. CASE loc[t] = "totalled"
    BY <2>3 DEF Departure
  <2> QED BY <2>1, <2>2, <2>3
<1>6. \A t \in Seats : loc'[t] # "finished"
  BY <1>2 DEF BarrierLocs, AfterBarrier
<1>7. ASSUME Leaving' PROVE number_of_players_present' = Cardinality(Staying')
  <2>1. \A t \in Seats : loc'[t] = "last"
    BY <1>2, <1>7 DEF Leaving, AllIn, BarrierLocs, AfterBarrier, LeaveLocs
  <2>2. Staying' = Seats
    BY <2>1 DEF Staying
  <2> QED BY <1>1, <1>4, <2>2, SeatsFinite
<1>8. ~end_signalled
  BY <1>3 DEF Departure
<1> QED BY <1>1, <1>5, <1>6, <1>7, <1>8 DEF Departure, LateLocs

(***************************************************************************)
(* End: in the last phase no client is admitted as a first one, and main   *)
(* returns when it was told to.                                            *)
(***************************************************************************)
LEMMA DepartureMain ==
    ASSUME IInv, Departure, MainStep
    PROVE  Departure'
<1>0. TypeOK /\ Handoff /\ Admission
  BY DEF IInv
<1>1. UNCHANGED <<curr_lewa, round_number, round_finished, end_signalled, child_pipe>>
  BY DEF MainStep, ByMain, CheckIfPositionTaken, SendBusy, AdmitNew,
     AdmitReplacement, AddNewPlayer, Spawn, Exit, gmVars, admission, lewa,
     round, mainVars, seatSync
<1>2. CASE ByMain(Spawn)
  <2>1. PICK p \in Seats : p = request /\ loc[p] = "none"
    BY <1>0, <1>2 DEF ByMain, Spawn, Admission
  <2>2. Goto(p, "start") /\ Running /\ UNCHANGED <<process, round_finished>>
    BY <1>2, <2>1 DEF ByMain, Spawn, env, gmVars, round
  <2> QED BY <1>0, <1>1, <2>1, <2>2, DepartureAhead DEF LateLocs, LeaveLocs
<1>3. CASE ByMain(AdmitNew)
  <2>1. /\ main = "add" /\ UNCHANGED <<loc, process>>
        /\ number_of_players_present < NumSeats
    BY <1>3 DEF ByMain, AdmitNew, playerVars, env
  <2>2. PICK p \in Seats : p = request /\ ~pos_taken_map[p]
    BY <1>0, <2>1 DEF Admission
  <2>3. loc[p] = "none" \/ loc[p] \in CommLocs
    BY <1>0, <2>2, FreeSeat
  <2>4. ~Leaving /\ ~Leaving'
    BY <1>1, <2>1, <2>3 DEF Leaving, AllIn, CommLocs, LeaveLocs
  <2> QED BY <1>1, <2>1, <2>4 DEF Departure
<1>4. CASE ~ByMain(Spawn) /\ ~ByMain(AdmitNew)
  <2>1. UNCHANGED <<loc, number_of_players_present>>
        /\ (process' = process \/ end_signalled)
    <3>1. ASSUME AdmitReplacement PROVE UNCHANGED number_of_players_present
      BY <1>0, <3>1, SizesAssumption DEF AdmitReplacement, AddNewPlayer,
         TypeOK, GMTypeOK, AdmissionTypeOK
    <3> QED BY <1>4, <3>1 DEF MainStep, ByMain, CheckIfPositionTaken, SendBusy,
        AdmitReplacement, Exit, gmVars, admission, playerVars, env
  <2> QED BY <1>1, <2>1, DepartureStill
<1> QED BY <1>2, <1>3, <1>4

(***************************************************************************)
(* End: the initial state.                                                 *)
(***************************************************************************)
LEMMA DepartureInit == Init => Departure
<1> SUFFICES ASSUME Init PROVE Departure
  OBVIOUS
<1>1. Seats # {}
  BY SizesAssumption DEF Seats
<1>2. ~Leaving
  BY <1>1 DEF Init, SeatInit, Leaving, AllIn, LeaveLocs
<1> QED BY <1>2 DEF Init, SeatInit, MainInit, Departure, LeaveLocs

(***************************************************************************)
(* Every step keeps the agreement between the threads that have left and   *)
(* what main was told.                                                     *)
(***************************************************************************)
LEMMA DepartureInductive ==
    ASSUME IInv, Departure, [Next]_vars
    PROVE  Departure'
<1>1. ASSUME NEW s \in Seats, SeatStep(s) PROVE Departure'
  BY <1>1, DepartureTalk, DepartureGame, DepartureSocket DEF SeatStep
<1>2. ASSUME NEW s \in Seats, JoinStep(s) PROVE Departure'
  BY <1>2, DepartureStill DEF JoinStep, ByMain, JoinRequest, gmVars, admission,
     lewa, round, playerVars, seatSync, env
<1>3. CASE UNCHANGED vars
  BY <1>3, DepartureStill DEF vars, gmVars, admission, lewa, round, playerVars,
     seatSync, env, mainVars
<1> QED BY <1>1, <1>2, <1>3, DepartureBarrier, DepartureMain DEF Next, Stopped

(***************************************************************************)
(* The server exits by itself only after the last round has been played    *)
(* and its last TOTAL written to every client, although returning from     *)
(* main kills the threads (ExitAfterTotals).                               *)
(***************************************************************************)
THEOREM ExitsAfterTotals ==
    ASSUME Failures \subseteq RecoverableKinds
    PROVE  Spec => []ExitAfterTotals
<1>1. Init => IInv /\ Departure
  BY Initial, DepartureInit
<1>2. IInv /\ Departure /\ [Next]_vars => IInv' /\ Departure'
  BY Inductive, DepartureInductive
<1>3. IInv /\ Departure => ExitAfterTotals
  <2> SUFFICES ASSUME IInv, Departure, process = "exited"
               PROVE  /\ LastRound /\ round_finished
                      /\ \A s \in Seats : /\ loc[s] \in {"end", "endwait", "finished"}
                                          /\ \A i \in DOMAIN child_pipe[s] :
                                                 child_pipe[s][i] = "END"
    BY DEF ExitAfterTotals
  <2>1. Leaving /\ Staying = {}
    BY DEF Departure
  <2>2. \A s \in Seats : loc[s] \in {"end", "endwait", "finished"}
    BY <2>1 DEF Leaving, AllIn, LeaveLocs, Staying
  <2>3. LastRound /\ round_finished
    BY <2>1, <2>2, SizesAssumption DEF Leaving, Departure, LeaveLocs, Seats
  <2>4. ASSUME NEW s \in Seats
        PROVE  \A i \in DOMAIN child_pipe[s] : child_pipe[s][i] = "END"
    <3>1. HandoffOf(s) /\ loc[s] \in {"end", "endwait", "finished"}
      BY <2>2 DEF IInv, Handoff
    <3>2. child_pipe[s] \in {<< >>, <<"END">>}
      BY <3>1 DEF HandoffOf, CommLocs, BetweenCommands, DuringEnd, Departure
    <3> QED BY <3>2
  <2> QED BY <2>2, <2>3, <2>4
<1> QED BY <1>1, <1>2, <1>3, PTL DEF Spec

-----------------------------------------------------------------------------
(* Hands and clients, against the tricks.                                  *)

(***************************************************************************)
(* No seat is dealt a hand, credited with the trick on the table or given  *)
(* a connection that knows the round.                                      *)
(***************************************************************************)
ViewKept(t) ==
    /\ Dealt(t)' => Dealt(t)
    /\ Credited(t)' <=> Credited(t)
    /\ Dealt(t)' /\ Connected(t)' => Connected(t)

(***************************************************************************)
(* What the seats were dealt and told, and no trick, has changed.          *)
(***************************************************************************)
LEMMA LedgerStill ==
    ASSUME Ledger, \A t \in Seats : ViewKept(t),
           UNCHANGED <<cards_played, taken_seen, lewas_played>>,
           \A t \in Seats : OnTable(t)' <=> OnTable(t)
    PROVE  Ledger'
  BY DEF Ledger, HandKept, TakenSeen, ViewKept, Connected

(***************************************************************************)
(* The view of a seat whose threads do nothing is kept, unless the trick   *)
(* that was taken is put aside.                                            *)
(***************************************************************************)
LEMMA ViewStill ==
    ASSUME NEW t \in Seats, SeatStill(t),
           loc[t] \in {"newlewa", "cleared"} => (LewaFull' <=> LewaFull)
    PROVE  ViewKept(t)
  BY DEF ViewKept, SeatStill, Dealt, Credited, InHand, Done, Connected

(***************************************************************************)
(* A permit collected from a TCP thread that has not ended says that the   *)
(* command was read and served.                                            *)
(***************************************************************************)
LEMMA CollectedServed ==
    ASSUME TypeOK, Handoff, NEW s \in Seats, CollectServed(s)
    PROVE  loc[s] \in CommLocs /\ InHand(s) /\ Done(s)
<1>1. HandoffOf(s) /\ sub[s] = "wait" /\ ~thread_ended[s] /\ semaphore_TCP[s] > 0
  BY DEF Handoff, CollectServed, Acquire
<1> QED BY <1>1 DEF HandoffOf, DuringCommand, Working, Lost, Done, Pending,
    InHand, TypeOK, SeatTypeOK

(***************************************************************************)
(* View: a thread that talks to its client collects what was served, or    *)
(* has a command to send again.                                            *)
(***************************************************************************)
LEMMA ViewTalk ==
    ASSUME TypeOK, Handoff, NEW s \in Seats, TalkStep(s)
    PROVE  /\ \A t \in Seats : ViewKept(t)
           /\ \A t \in Seats \ {s} : SeatStill(t)
<1> USE DEF TypeOK, SeatTypeOK
<1>0. HandoffOf(s)
  BY DEF Handoff
<1>1. \A t \in Seats \ {s} : SeatStill(t)
  BY DEF TalkStep, BySeat, SendCommand, CollectServed, CollectEnded, Recover,
     Replace, ResendCommand, Acquire, Goto, SeatStill, seatSync, tcpVars,
     tcpState
<1>2. UNCHANGED curr_lewa
  BY DEF TalkStep, BySeat, SendCommand, CollectServed, CollectEnded, Recover,
     Replace, ResendCommand, SetPlayerLeft, AcquireDisconnectedSem, gmVars,
     lewa
<1>3. ASSUME BySeat(CollectServed(s)) PROVE ViewKept(s)
  <2>1. CollectServed(s)
    BY <1>3 DEF BySeat
  <2>2. loc[s] \in CommLocs /\ InHand(s) /\ Done(s)
    BY <2>1, CollectedServed
  <2>3. loc'[s] = AfterCommand(loc[s]) /\ UNCHANGED tcp
    BY <2>1 DEF CollectServed, Goto, tcpVars, tcpState
  <2>4. Dealt(s)
    BY <2>2 DEF CommLocs, Dealt
  <2>5. Credited(s)' <=> Credited(s)
    BY <2>2, <2>3 DEF CommLocs, AfterCommand, Credited
  <2> QED BY <2>3, <2>4, <2>5 DEF ViewKept, Connected
<1>4. ASSUME ~BySeat(CollectServed(s)) PROVE ViewKept(s)
  <2>1. loc[s] \in CommLocs /\ UNCHANGED loc
    BY <1>0, <1>4 DEF TalkStep, BySeat, SendCommand, CollectEnded, Recover,
       Replace, ResendCommand, HandoffOf
  <2>2. ~InHand(s)'
    BY <1>4 DEF TalkStep, BySeat, SendCommand, CollectEnded, Recover, Replace,
       ResendCommand, InHand
  <2>3. InHand(s) => ~Done(s)
    BY <1>4 DEF TalkStep, BySeat, SendCommand, CollectEnded, Recover, Replace,
       ResendCommand, InHand, Done
  <2>4. Connected(s)' => Connected(s)
    BY <1>4 DEF TalkStep, BySeat, SendCommand, CollectEnded, Recover, Replace,
       ResendCommand, Connected, tcpVars, tcpState
  <2>5. (Dealt(s)' => Dealt(s)) /\ ~Credited(s)' /\ ~Credited(s)
    BY <2>1, <2>2, <2>3 DEF CommLocs, Dealt, Credited
  <2> QED BY <2>4, <2>5 DEF ViewKept
<1>5. \A t \in Seats \ {s} : ViewKept(t)
  BY <1>1, <1>2, ViewStill DEF LewaFull
<1> QED BY <1>1, <1>3, <1>4, <1>5

UndealtLocs == {"none", "start", "deal", "newround"}
TakingLocs == {"taken", "credited", "newlewa", "cleared"}

(***************************************************************************)
(* View: a thread moves on in the game, where nothing is dealt or taken.   *)
(***************************************************************************)
LEMMA ViewMove ==
    ASSUME TypeOK, NEW s \in Seats, NEW to, Goto(s, to), UNCHANGED tcp,
           loc[s] \notin TakingLocs, to \notin TakingLocs,
           loc[s] \notin UndealtLocs \/ to \in UndealtLocs \ {"deal"}
    PROVE  ViewKept(s)
<1>1. loc'[s] = to
  BY DEF Goto, TypeOK, SeatTypeOK
<1>2. Dealt(s)' => Dealt(s)
  BY <1>1 DEF Dealt, UndealtLocs
<1>3. ~Credited(s) /\ ~Credited(s)'
  BY <1>1 DEF Credited, TakingLocs
<1> QED BY <1>2, <1>3 DEF ViewKept, Connected

(***************************************************************************)
(* View: the steps of the game, but for the one that puts a trick aside.   *)
(***************************************************************************)
LEMMA ViewGame ==
    ASSUME TypeOK, Lockstep, NEW s \in Seats, GameStep(s),
           ~(BySeat(ClearTable(s)) /\ LewaFull)
    PROVE  \A t \in Seats : ViewKept(t)
<1>0. loc \in [Seats -> Locs] /\ child_pipe \in [Seats -> Seq(Commands)]
      /\ semaphore_TCP \in [Seats -> Nat]
  BY DEF TypeOK, SeatTypeOK
<1>1. \A t \in Seats \ {s} : SeatStill(t)
  BY <1>0 DEF GameStep, BySeat, ByMain, TakeTurn, CheckFull, DecideTaker,
     GiveLead, CountCards, PassTurn, ClearTable, CheckRound, CheckLastRound,
     StartRound, MonitorThrows, LeaveGame, SendEnd, CollectEnd, Step, Goto,
     Acquire, SeatStill, playerVars, seatSync, tcpVars, tcpState
<1>2. LewaFull' <=> LewaFull
  <2>1. CASE BySeat(StartRound(s))
    <3>1. Opening
      BY <2>1, PhaseAt DEF BySeat, StartRound, Step
    <3>2. curr_lewa' = curr_lewa
      BY <2>1, <3>1 DEF Opening, BySeat, StartRound, PrepareNewRound, lewa
    <3> QED BY <3>2 DEF LewaFull
  <2>2. CASE ~BySeat(StartRound(s))
    <3>1. UNCHANGED curr_lewa
      BY <2>2 DEF GameStep, BySeat, ByMain, TakeTurn, CheckFull, DecideTaker,
         GiveLead, CountCards, PassTurn, ClearTable, CheckRound,
         CheckLastRound, MonitorThrows, LeaveGame, SendEnd, CollectEnd,
         WaitForTurn, CheckWhoWonLewa, SetFirstPlayerForNextTurn,
         CountCardsPlayed, NextPlayerTurn, PrepareNewLewa,
         DecrementPresentPlayers, gmVars, lewa
    <3> QED BY <3>1 DEF LewaFull
  <2> QED BY <2>1, <2>2
<1>3. \A t \in Seats \ {s} : ViewKept(t)
  BY <1>1, <1>2, ViewStill
<1>4. UNCHANGED tcp
  BY DEF GameStep, BySeat, ByMain, TakeTurn, CheckFull, DecideTaker, GiveLead,
     CountCards, PassTurn, ClearTable, CheckRound, CheckLastRound, StartRound,
     MonitorThrows, LeaveGame, SendEnd, CollectEnd, Step, tcpVars, tcpState
<1>5. CASE BySeat(ClearTable(s))
  <2>1. loc[s] = "newlewa" /\ loc'[s] = "cleared" /\ ~LewaFull
    BY <1>0, <1>5 DEF BySeat, ClearTable, Step, Goto
  <2>2. ViewKept(s)
    BY <1>2, <1>4, <2>1 DEF ViewKept, Dealt, Credited, Connected
  <2> QED BY <1>3, <2>2
<1>6. CASE BySeat(MonitorThrows(s))
  <2>1. SeatStill(s)
    BY <1>6 DEF BySeat, MonitorThrows, SeatStill, playerVars, seatSync,
       tcpVars, tcpState
  <2> QED BY <1>2, <1>3, <2>1, ViewStill
<1>7. CASE ~BySeat(ClearTable(s)) /\ ~BySeat(MonitorThrows(s))
  <2> DEFINE Game == {"turn", "trick", "full", "won", "lead", "count", "pass", "passed",
                      "over", "score", "last", "leave", "nextround", "end", "endwait",
                      "finished"}
  <2>1. \/ \E to \in Game : loc[s] \in Game /\ Goto(s, to)
        \/ loc[s] = "newround" /\ Goto(s, "start")
    BY <1>7 DEF GameStep, BySeat, ByMain, TakeTurn, CheckFull, DecideTaker,
       GiveLead, CountCards, PassTurn, CheckRound, CheckLastRound, StartRound,
       LeaveGame, SendEnd, CollectEnd, Step
  <2>2. ViewKept(s)
    BY <1>4, <2>1, ViewMove DEF TakingLocs, UndealtLocs
  <2> QED BY <1>3, <2>2
<1> QED BY <1>5, <1>6, <1>7

(***************************************************************************)
(* A barrier finds no command in hand.                                     *)
(***************************************************************************)
LEMMA NothingInHand ==
    ASSUME Handoff, NEW t \in Seats, loc[t] \notin CommLocs
    PROVE  sub[t] = "ready" /\ ~InHand(t)
  BY DEF Handoff, HandoffOf, InHand

(***************************************************************************)
(* View: a barrier leads from the TAKENs to the full table they told of,   *)
(* and from an empty table to the next trick.                              *)
(***************************************************************************)
LEMMA ViewBarrier ==
    ASSUME IInv, BarrierStep
    PROVE  \A t \in Seats : ViewKept(t)
<1>0. Lockstep /\ Handoff
  BY DEF IInv
<1>1. BarrierTrips /\ UNCHANGED <<curr_lewa, tcp, sub, child_pipe>>
  BY DEF BarrierStep, BySeat, BarrierTrips, gmVars, lewa, seatSync, tcpVars,
     tcpState
<1> SUFFICES ASSUME NEW t \in Seats PROVE ViewKept(t)
  OBVIOUS
<1>2. loc[t] \in BarrierLocs /\ loc'[t] = AfterBarrier(loc[t])
  BY <1>1 DEF BarrierTrips
<1>3. ~InHand(t) /\ ~InHand(t)'
  BY <1>0, <1>1, <1>2, NothingInHand DEF InHand, BarrierLocs, CommLocs
<1>4. Dealt(t)' => Dealt(t)
  BY <1>2, <1>3 DEF Dealt, BarrierLocs, AfterBarrier
<1>5. Credited(t)' <=> Credited(t)
  <2>1. CASE loc[t] = "credited"
    <3>1. LewaFull /\ LewaFull'
      BY <1>0, <1>1, <2>1, PhaseAt DEF Taking, LewaFull
    <3> QED BY <1>2, <2>1, <3>1 DEF Credited, AfterBarrier
  <2>2. CASE loc[t] = "cleared"
    <3>1. curr_lewa = << >>
      BY <1>0, <2>2, PhaseAt DEF Clearing, SomeAt
    <3>2. ~LewaFull
      BY <3>1, SizesAssumption DEF LewaFull
    <3> QED BY <1>2, <2>2, <3>2 DEF Credited, AfterBarrier
  <2>3. CASE loc[t] \notin {"credited", "cleared"}
    BY <1>2, <1>3, <2>3 DEF Credited, BarrierLocs, AfterBarrier
  <2> QED BY <2>1, <2>2, <2>3
<1> QED BY <1>1, <1>4, <1>5 DEF ViewKept, Connected

(***************************************************************************)
(* A client lost while its TCP thread polls is lost before its command was *)
(* served, when losing it in the hand-off is not among the failures.       *)
(***************************************************************************)
LEMMA LostIdle ==
    ASSUME TypeOK, Failures \subseteq RecoverableKinds, NEW s \in Seats, LoseClientInPoll(s)
    PROVE  ~Done(s) /\ ~Done(s)' /\ ~Connected(s)' /\ UNCHANGED <<loc, sub, child_pipe>>
  BY DEF LoseClientInPoll, WriteFails, Fault, EndThread, RecoverableKinds,
     Done, Connected, playerVars, TypeOK, SeatTypeOK

(***************************************************************************)
(* While no served command is handed off, a TAKEN that is read is of a     *)
(* trick whose taker is known.                                             *)
(***************************************************************************)
LEMMA TakerTold ==
    ASSUME IInv, OrderOfPlay, NEW s \in Seats
    PROVE  ~TakenThrows(s)
<1> SUFFICES ASSUME TakenThrows(s) PROVE FALSE
  OBVIOUS
<1>0. TypeOK /\ Handoff /\ Lockstep /\ first_player \in Seats
  BY DEF IInv, TypeOK, GMTypeOK, TurnTypeOK
<1>1. Told(s, "TAKEN") /\ who_won_lewa = NONE_POS
  BY DEF TakenThrows, ReadCommand
<1>2. loc[s] = "taken"
  BY <1>0, <1>1, CommandRead DEF CommLocs, CommandAt
<1>3. Taking
  BY <1>0, <1>2, PhaseAt
<1>4. LewaFull /\ Holders = {}
  BY <1>3 DEF Taking, AllIn, Holders, HolderLocs
<1>5. who_won_lewa \in Seats
  BY <1>0, <1>4 DEF OrderOfPlay, TurnFollows
<1> QED BY <1>1, <1>5, SizesAssumption DEF Seats, NONE_POS

(***************************************************************************)
(* View: the TCP threads' steps but for serving DEAL and TAKEN, and for    *)
(* bringing a replacement up to date.                                      *)
(***************************************************************************)
LEMMA ViewSocket ==
    ASSUME IInv, Failures \subseteq RecoverableKinds, NEW s \in Seats,
           TcpStep(s) \/ SignalStep(s) \/ FailureStep(s),
           ~BySeat(HandleDeal(s)), ~BySeat(HandleTaken(s)), ~BySeat(TakenThrows(s)),
           ~BySeat(Resync(s))
    PROVE  \A t \in Seats : ViewKept(t)
<1>0. TypeOK /\ Handoff /\ Lockstep /\ HandoffOf(s) /\ sub[s] \in Subs
  BY DEF IInv, Handoff, TypeOK, SeatTypeOK
<1>1. UNCHANGED <<loc, sub>>
  BY DEF TcpStep, SignalStep, FailureStep, BySeat, AskForCard, AcceptCard,
     CardOverflows, HandleScore, HandleTotal, HandleEnd, SignalEnded,
     LoseClientInPoll, LoseClientInTrick, ResetInTrick, WrongAborts,
     BrokenPipe, playerVars
<1>2. \A t \in Seats \ {s} : SeatStill(t)
  BY <1>0, <1>1 DEF TcpStep, SignalStep, FailureStep, BySeat, AskForCard,
     AcceptCard, CardOverflows, HandleScore, HandleTotal, HandleEnd,
     SignalEnded, LoseClientInPoll, LoseClientInTrick, ResetInTrick,
     WrongAborts, BrokenPipe, ReadCommand, Served, Release, WriteFails,
     EndThread, SeatStill, seatSync, tcpVars, tcpState, TypeOK, SeatTypeOK
<1>3. ASSUME BySeat(AcceptCard(s)) \/ BySeat(AskForCard(s)) \/ BySeat(CardOverflows(s))
             \/ BySeat(LoseClientInTrick(s)) \/ BySeat(ResetInTrick(s))
             \/ BySeat(HandleScore(s)) \/ BySeat(HandleTotal(s)) \/ BySeat(HandleEnd(s))
      PROVE  ViewKept(s)
  <2>1. \/ tcp[s] = "TRICK"
        \/ \E c \in {"TRICK", "SCORE", "TOTAL", "END"} : Told(s, c)
    BY <1>3 DEF BySeat, AcceptCard, AskForCard, CardOverflows,
       LoseClientInTrick, ResetInTrick, HandleScore, HandleTotal, HandleEnd,
       ReadCommand
  <2>2. loc[s] \in {"trick", "score", "total", "endwait"} /\ Connected(s)
    <3>1. CASE tcp[s] = "TRICK"
      BY <1>0, <3>1, HandoffInTrick DEF Connected
    <3>2. CASE \E c \in {"TRICK", "SCORE", "TOTAL"} : Told(s, c)
      BY <1>0, <3>2, CommandRead DEF CommLocs, CommandAt, Connected, Told
    <3>3. CASE Told(s, "END")
      BY <1>0, <3>3, EndRead DEF Connected, Told
    <3> QED BY <2>1, <3>1, <3>2, <3>3
  <2> QED BY <1>1, <2>2 DEF ViewKept, Dealt, Credited
<1>4. ASSUME BySeat(SignalEnded(s)) PROVE ViewKept(s)
  <2>1. dying[s] > 0 /\ UNCHANGED <<tcp, child_pipe>> /\ (LewaFull' <=> LewaFull)
    BY <1>4 DEF BySeat, SignalEnded, gmVars, lewa, LewaFull
  <2>2. tcp[s] = "none"
    BY <1>0, <2>1 DEF HandoffOf, BetweenCommands, DuringCommand, DuringSync,
       DuringEnd, Working, Lost, Done, Gone, Pending, TypeOK, SeatTypeOK, Subs
  <2> QED BY <1>1, <2>1, <2>2 DEF ViewKept, Dealt, Credited, InHand, Done,
      Connected
<1>5. ASSUME BySeat(LoseClientInPoll(s)) PROVE ViewKept(s)
  <2>1. ~Done(s) /\ ~Done(s)' /\ ~Connected(s)' /\ UNCHANGED child_pipe
    BY <1>0, <1>5, LostIdle DEF BySeat
  <2>2. LewaFull' <=> LewaFull
    BY <1>5 DEF BySeat, LoseClientInPoll, gmVars, lewa, LewaFull
  <2> QED BY <1>1, <2>1, <2>2 DEF ViewKept, Dealt, Credited, InHand
<1>6. ASSUME BySeat(WrongAborts(s)) \/ BySeat(BrokenPipe(s)) PROVE ViewKept(s)
  <2>1. SeatStill(s) /\ (LewaFull' <=> LewaFull)
    BY <1>6 DEF BySeat, WrongAborts, BrokenPipe, SeatStill, playerVars,
       seatSync, tcpVars, tcpState, gmVars, lewa, LewaFull
  <2> QED BY <2>1, ViewStill
<1>7. \A t \in Seats : loc[t] \in {"newlewa", "cleared"} => (LewaFull' <=> LewaFull)
  <2>1. CASE BySeat(AcceptCard(s))
    <3>1. Playing
      BY <1>0, <2>1, HandoffInTrick, PhaseAt DEF BySeat, AcceptCard, PlayLocs
    <3> QED BY <3>1 DEF Playing, AllIn, PlayLocs
  <2>2. CASE ~BySeat(AcceptCard(s))
    BY <2>2 DEF TcpStep, SignalStep, FailureStep, BySeat, AskForCard,
       CardOverflows, HandleScore, HandleTotal, HandleEnd, SignalEnded,
       LoseClientInPoll, LoseClientInTrick, ResetInTrick, WrongAborts,
       BrokenPipe, gmVars, lewa, LewaFull
  <2> QED BY <2>1, <2>2
<1>8. \A t \in Seats \ {s} : ViewKept(t)
  BY <1>2, <1>7, ViewStill
<1> QED BY <1>3, <1>4, <1>5, <1>6, <1>8 DEF TcpStep, SignalStep, FailureStep

(***************************************************************************)
(* Ledger: no card is marked and nothing told while a thread talks to its  *)
(* TCP thread.                                                             *)
(***************************************************************************)
LEMMA LedgerTalk ==
    ASSUME IInv, Ledger, NEW s \in Seats, TalkStep(s)
    PROVE  Ledger'
<1>1. UNCHANGED <<cards_played, taken_seen, lewas_played, curr_lewa>>
  BY DEF TalkStep, BySeat, SendCommand, CollectServed, CollectEnded, Recover,
     Replace, ResendCommand, SetPlayerLeft, AcquireDisconnectedSem, gmVars,
     lewa, round, tcpVars, clientView
<1>2. \A t \in Seats : ViewKept(t)
  BY ViewTalk DEF IInv
<1> QED BY <1>1, <1>2, LedgerStill DEF OnTable

(***************************************************************************)
(* A full table has a card of every seat on it.                            *)
(***************************************************************************)
LEMMA EverybodyLaid ==
    ASSUME TypeOK, Clockwise, LewaFull, NEW s \in Seats
    PROVE  OnTable(s)
<1> DEFINE a == curr_lewa[1]
<1>1. /\ DOMAIN curr_lewa = 1 .. NumSeats /\ a \in 0 .. NumSeats - 1
      /\ s \in 0 .. NumSeats - 1 /\ NumSeats \in Nat \ {0}
  BY SizesAssumption DEF LewaFull, Seats, TypeOK, GMTypeOK, LewaTypeOK
<1> HIDE DEF a
<1>2. \A i \in 1 .. NumSeats : curr_lewa[i] = (a + i - 1) % NumSeats
  BY <1>1 DEF Clockwise, a
<1>3. CASE a <= s
  <2>1. s - a + 1 \in 1 .. NumSeats /\ a + (s - a + 1) - 1 = s
    BY <1>1, <1>3
  <2>2. s % NumSeats = s
    BY <1>1, RemainderSmall
  <2>3. curr_lewa[s - a + 1] = s
    BY <1>2, <2>1, <2>2
  <2> QED BY <1>1, <2>1, <2>3 DEF OnTable
<1>4. CASE s < a
  <2>1. /\ s - a + NumSeats + 1 \in 1 .. NumSeats
        /\ a + (s - a + NumSeats + 1) - 1 = s + NumSeats
    BY <1>1, <1>4
  <2>2. (s + NumSeats) % NumSeats = s
    <3>1. s + NumSeats \in NumSeats .. 2 * NumSeats - 1 /\ s + NumSeats - NumSeats = s
      BY <1>1
    <3> QED BY <1>1, <3>1, RemainderWrap
  <2>3. curr_lewa[s - a + NumSeats + 1] = s
    BY <1>2, <2>1, <2>2
  <2> QED BY <1>1, <2>1, <2>3 DEF OnTable
<1> QED BY <1>1, <1>3, <1>4

(***************************************************************************)
(* Ledger: a full trick is put aside when all have laid a card and been    *)
(* told of it.                                                             *)
(***************************************************************************)
LEMMA LedgerClear ==
    ASSUME IInv, OrderOfPlay, Ledger, NEW s \in Seats, ClearTable(s), LewaFull
    PROVE  Ledger'
<1>0. loc \in [Seats -> Locs] /\ lewas_played \in Seq(Seats \cup {NONE_POS}) /\ TypeOK
  BY DEF IInv, TypeOK, SeatTypeOK, GMTypeOK, RoundTypeOK
<1>1. /\ loc[s] = "newlewa" /\ Goto(s, "cleared")
      /\ lewas_played' = Append(lewas_played, who_won_lewa) /\ curr_lewa' = << >>
      /\ UNCHANGED <<cards_played, taken_seen, tcp>>
  BY DEF ClearTable, Step, PrepareNewLewa, tcpVars, tcpState, clientView
<1>2. AllIn({"newlewa", "cleared"}) /\ AllIn({"newlewa", "cleared"})'
  BY <1>0, <1>1, PhaseAt, AllInMove DEF IInv, Clearing
<1>3. Len(lewas_played') = Len(lewas_played) + 1 /\ Len(lewas_played) \in Nat
  BY <1>0, <1>1
<1>4. \A t \in Seats : OnTable(t) /\ ~OnTable(t)'
  BY <1>0, <1>1, EverybodyLaid DEF OrderOfPlay, OnTable
<1>5. \A t \in Seats : Dealt(t) /\ Credited(t)
  BY <1>2 DEF AllIn, Dealt, Credited
<1>6. ~LewaFull'
  BY <1>1, SizesAssumption DEF LewaFull
<1>7. \A t \in Seats : ~Credited(t)'
  BY <1>2, <1>6 DEF AllIn, Credited
<1>8. \A t \in Seats : HandKept(t)'
  BY <1>1, <1>3, <1>4, <1>5 DEF Ledger, HandKept
<1>9. \A t \in Seats : TakenSeen(t)'
  BY <1>1, <1>3, <1>5, <1>7 DEF Ledger, TakenSeen, Connected
<1> QED BY <1>8, <1>9 DEF Ledger

(***************************************************************************)
(* Ledger: the steps of the game; when a round is opened no seat has a     *)
(* hand of it yet.                                                         *)
(***************************************************************************)
LEMMA LedgerGame ==
    ASSUME IInv, OrderOfPlay, Ledger, NEW s \in Seats, GameStep(s)
    PROVE  Ledger'
<1>0. TypeOK /\ Lockstep
  BY DEF IInv
<1>1. UNCHANGED <<cards_played, taken_seen>>
  BY DEF GameStep, BySeat, ByMain, TakeTurn, CheckFull, DecideTaker, GiveLead,
     CountCards, PassTurn, ClearTable, CheckRound, CheckLastRound, StartRound,
     MonitorThrows, LeaveGame, SendEnd, CollectEnd, Step, tcpVars, clientView
<1>2. CASE BySeat(ClearTable(s)) /\ LewaFull
  BY <1>2, LedgerClear DEF BySeat
<1>3. CASE BySeat(StartRound(s))
  <2>1. loc[s] = "newround" /\ Goto(s, "start")
    BY <1>3 DEF BySeat, StartRound, Step
  <2>2. AllIn({"newround", "start"})'
    BY <1>0, <2>1, PhaseAt, AllInMove DEF Opening
  <2>3. \A t \in Seats : ~Dealt(t)'
    BY <2>2 DEF AllIn, Dealt
  <2> QED BY <1>1, <2>3 DEF Ledger, HandKept, TakenSeen
<1>4. CASE ~(BySeat(ClearTable(s)) /\ LewaFull) /\ ~BySeat(StartRound(s))
  <2>1. UNCHANGED <<curr_lewa, lewas_played>>
    BY <1>4 DEF GameStep, BySeat, ByMain, TakeTurn, CheckFull, DecideTaker,
       GiveLead, CountCards, PassTurn, ClearTable, CheckRound, CheckLastRound,
       MonitorThrows, LeaveGame, SendEnd, CollectEnd, WaitForTurn,
       CheckWhoWonLewa, SetFirstPlayerForNextTurn, CountCardsPlayed,
       NextPlayerTurn, PrepareNewLewa, DecrementPresentPlayers, gmVars, lewa,
       round
  <2>2. \A t \in Seats : ViewKept(t)
    BY <1>0, <1>4, ViewGame
  <2> QED BY <1>1, <2>1, <2>2, LedgerStill DEF OnTable
<1> QED BY <1>2, <1>3, <1>4

(***************************************************************************)
(* Ledger: a step of one seat's TCP thread answers for that seat.          *)
(***************************************************************************)
LEMMA LedgerLocal ==
    ASSUME Ledger, NEW s \in Seats, HandKept(s)', TakenSeen(s)', UNCHANGED lewas_played,
           \A t \in Seats \ {s} :
               /\ ViewKept(t)
               /\ cards_played'[t] = cards_played[t] /\ taken_seen'[t] = taken_seen[t]
               /\ OnTable(t)' <=> OnTable(t)
    PROVE  Ledger'
<1>1. \A t \in Seats \ {s} : HandKept(t)' /\ TakenSeen(t)'
  BY DEF Ledger, HandKept, TakenSeen, ViewKept
<1> QED BY <1>1 DEF Ledger

(***************************************************************************)
(* A handler that reads a command of the round leaves the other seats      *)
(* alone, and their views.                                                 *)
(***************************************************************************)
LEMMA HandlerLocal ==
    ASSUME TypeOK, NEW s \in Seats, NEW c, ReadCommand(s, c), NEW kind,
           Served(s) \/ WriteFails(s, kind), UNCHANGED <<playerVars, gmVars>>
    PROVE  /\ \A t \in Seats \ {s} : ViewKept(t)
           /\ child_pipe'[s] = Tail(child_pipe[s]) /\ UNCHANGED <<loc, sub>>
           /\ UNCHANGED <<curr_lewa, lewa_id, who_won_lewa, lewas_played>>
<1>1. UNCHANGED <<loc, sub, curr_lewa, lewa_id, who_won_lewa, lewas_played>>
  BY DEF playerVars, gmVars, lewa, round
<1>2. \A t \in Seats \ {s} : SeatStill(t)
  BY <1>1 DEF SeatStill, ReadCommand, Served, WriteFails, EndThread, Release,
     tcpState, TypeOK, SeatTypeOK
<1>3. child_pipe'[s] = Tail(child_pipe[s])
  BY DEF ReadCommand, TypeOK, SeatTypeOK
<1> QED BY <1>1, <1>2, <1>3, ViewStill DEF LewaFull

(***************************************************************************)
(* Ledger: DEAL gives the seat a fresh hand, before the first trick.       *)
(***************************************************************************)
LEMMA LedgerDeal ==
    ASSUME IInv, OrderOfPlay, Ledger, NEW s \in Seats, HandleDeal(s)
    PROVE  Ledger'
<1>0. /\ TypeOK /\ Handoff /\ Lockstep /\ cards_played \in [Seats -> Nat]
      /\ taken_seen \in [Seats -> Seq(Nat)] /\ tcp \in [Seats -> TcpLocs]
      /\ lewas_played \in Seq(Seats \cup {NONE_POS})
  BY DEF IInv, TypeOK, SeatTypeOK, GMTypeOK, RoundTypeOK
<1>1. ReadCommand(s, "DEAL") /\ (Served(s) \/ WriteFails(s, "deal"))
      /\ UNCHANGED <<playerVars, gmVars>>
  BY DEF HandleDeal
<1>2. /\ \A t \in Seats \ {s} : ViewKept(t)
      /\ UNCHANGED <<loc, curr_lewa, lewas_played>>
  BY <1>0, <1>1, HandlerLocal
<1>3. loc[s] = "deal"
  BY <1>0, <1>1, CommandRead DEF ReadCommand, CommLocs, CommandAt
<1>4. curr_lewa = << >> /\ Len(lewas_played) = 0
  <2>1. Dealing
    BY <1>0, <1>3, PhaseAt
  <2>2. lewa_id = 1 /\ lewa_id = Len(lewas_played) + 1
    BY <1>3 DEF OrderOfPlay, TrickNumbered, FreshLocs
  <2> QED BY <1>0, <2>1, <2>2 DEF Dealing
<1>5. cards_played' = [cards_played EXCEPT ![s] = 0]
      /\ \/ taken_seen' = [taken_seen EXCEPT ![s] = << >>]
         \/ UNCHANGED taken_seen /\ tcp' = [tcp EXCEPT ![s] = "none"]
  BY DEF HandleDeal, WriteFails, EndThread, clientView
<1>6. HandKept(s)'
  BY <1>0, <1>2, <1>4, <1>5 DEF HandKept, OnTable
<1>7. TakenSeen(s)'
  <2>1. ~Credited(s)'
    BY <1>2, <1>3 DEF Credited
  <2>2. CASE taken_seen' = [taken_seen EXCEPT ![s] = << >>]
    <3>1. taken_seen'[s] = << >> /\ Len(taken_seen'[s]) = 0
      BY <1>0, <2>2
    <3>2. << >> = [i \in 1 .. 0 |-> i]
      OBVIOUS
    <3> QED BY <1>2, <1>4, <2>1, <3>1, <3>2 DEF TakenSeen
  <2>3. CASE UNCHANGED taken_seen /\ tcp' = [tcp EXCEPT ![s] = "none"]
    BY <1>0, <2>3 DEF Ledger, TakenSeen, Connected
  <2> QED BY <1>5, <2>2, <2>3
<1>8. \A t \in Seats \ {s} : cards_played'[t] = cards_played[t] /\ taken_seen'[t] = taken_seen[t]
  BY <1>0, <1>5
<1> QED BY <1>2, <1>6, <1>7, <1>8, LedgerLocal DEF OnTable

(***************************************************************************)
(* The sequence of the numbers up to n, and the next number after it.      *)
(***************************************************************************)
LEMMA CountedOn ==
    ASSUME NEW n \in Nat, NEW q \in Seq(Nat), q = [i \in 1 .. n |-> i]
    PROVE  Append(q, n + 1) = [i \in 1 .. n + 1 |-> i] /\ Len(Append(q, n + 1)) = n + 1
<1>1. Len(q) = n /\ DOMAIN q = 1 .. n
  OBVIOUS
<1>2. Append(q, n + 1) \in Seq(Nat) /\ Len(Append(q, n + 1)) = n + 1
  BY <1>1
<1>3. DOMAIN Append(q, n + 1) = 1 .. n + 1
  BY <1>2
<1>4. \A i \in 1 .. n + 1 : Append(q, n + 1)[i] = i
  BY <1>1
<1>5. Append(q, n + 1) = [i \in DOMAIN Append(q, n + 1) |-> Append(q, n + 1)[i]]
  BY <1>2
<1> QED BY <1>2, <1>3, <1>4, <1>5

(***************************************************************************)
(* TAKEN, when it is read: the seat is connected, has its hand, and was    *)
(* not yet credited; when it is written, it is.                            *)
(***************************************************************************)
LEMMA TakenServed ==
    ASSUME TypeOK, Handoff, NEW s \in Seats, HandleTaken(s)
    PROVE  /\ loc[s] = "taken" /\ Dealt(s) /\ Connected(s) /\ ~Credited(s) /\ Dealt(s)'
           /\ Served(s) => Credited(s)'
           /\ Served(s) \/ WriteFails(s, "taken")
           /\ \A t \in Seats \ {s} : ViewKept(t)
           /\ UNCHANGED <<curr_lewa, lewa_id, who_won_lewa, lewas_played>>
<1>1. ReadCommand(s, "TAKEN") /\ (Served(s) \/ WriteFails(s, "taken"))
      /\ UNCHANGED <<playerVars, gmVars>>
  BY DEF HandleTaken
<1>2. /\ sub[s] = "wait" /\ loc[s] = "taken" /\ child_pipe[s] # << >>
      /\ Tail(child_pipe[s]) = << >> /\ Working(s, "poll") /\ Connected(s)
  BY <1>1, CommandRead DEF ReadCommand, Told, CommLocs, CommandAt, Connected
<1>3. /\ \A t \in Seats \ {s} : ViewKept(t)
      /\ child_pipe'[s] = << >> /\ UNCHANGED <<loc, sub>>
      /\ UNCHANGED <<curr_lewa, lewa_id, who_won_lewa, lewas_played>>
  BY <1>1, <1>2, HandlerLocal
<1>4. Served(s) => Done(s)'
  BY <1>2 DEF Served, Release, Done, Working, Pending, tcpState, TypeOK,
     SeatTypeOK
<1> QED BY <1>1, <1>2, <1>3, <1>4 DEF Dealt, Credited, InHand

(***************************************************************************)
(* Ledger: TAKEN tells the client of the next trick.                       *)
(***************************************************************************)
LEMMA LedgerTaken ==
    ASSUME IInv, OrderOfPlay, Ledger, NEW s \in Seats, HandleTaken(s)
    PROVE  Ledger'
<1>0. /\ TypeOK /\ Handoff /\ taken_seen \in [Seats -> Seq(Nat)] /\ tcp \in [Seats -> TcpLocs]
      /\ lewas_played \in Seq(Seats \cup {NONE_POS})
  BY DEF IInv, TypeOK, SeatTypeOK, GMTypeOK, RoundTypeOK
<1>1. /\ loc[s] = "taken" /\ Dealt(s) /\ Connected(s) /\ ~Credited(s)
      /\ Served(s) => Credited(s)'
      /\ \A t \in Seats \ {s} : ViewKept(t)
      /\ UNCHANGED <<curr_lewa, lewas_played>>
  BY <1>0, TakenServed
<1>2. /\ UNCHANGED cards_played
      /\ \/ Served(s) /\ taken_seen' = [taken_seen EXCEPT ![s] = Append(@, lewa_id)]
         \/ UNCHANGED taken_seen /\ tcp' = [tcp EXCEPT ![s] = "none"]
  BY DEF HandleTaken, WriteFails, EndThread, clientView
<1>3. HandKept(s)'
  BY <1>1, <1>2 DEF Ledger, HandKept, OnTable
<1>4. TakenSeen(s)'
  <2>1. CASE Served(s) /\ taken_seen' = [taken_seen EXCEPT ![s] = Append(@, lewa_id)]
    <3> DEFINE n == Len(lewas_played)
    <3>1. n \in Nat /\ lewa_id = n + 1
      BY <1>0 DEF OrderOfPlay, TrickNumbered
    <3>2. Len(taken_seen[s]) = n /\ taken_seen[s] = [i \in 1 .. n |-> i]
      BY <1>0, <1>1 DEF Ledger, TakenSeen
    <3>3. taken_seen'[s] = Append(taken_seen[s], n + 1)
      BY <1>0, <2>1, <3>1
    <3>4. taken_seen'[s] = [i \in 1 .. n + 1 |-> i] /\ Len(taken_seen'[s]) = n + 1
      BY <1>0, <3>1, <3>2, <3>3, CountedOn
    <3>5. Credited(s)' /\ Len(lewas_played') = n
      BY <1>1, <2>1
    <3> QED BY <3>4, <3>5 DEF TakenSeen
  <2>2. CASE UNCHANGED taken_seen /\ tcp' = [tcp EXCEPT ![s] = "none"]
    BY <1>0, <2>2 DEF Ledger, TakenSeen, Connected
  <2> QED BY <1>2, <2>1, <2>2
<1>5. \A t \in Seats \ {s} : cards_played'[t] = cards_played[t] /\ taken_seen'[t] = taken_seen[t]
  BY <1>0, <1>2
<1> QED BY <1>1, <1>3, <1>4, <1>5, LedgerLocal DEF OnTable

(***************************************************************************)
(* View: bringing a replacement up to date credits nobody with anything.   *)
(***************************************************************************)
LEMMA ViewResync ==
    ASSUME TypeOK, Handoff, NEW s \in Seats, Resync(s)
    PROVE  /\ \A t \in Seats \ {s} : ViewKept(t)
           /\ Dealt(s)' => Dealt(s)
           /\ ~Credited(s) /\ ~Credited(s)'
           /\ UNCHANGED <<curr_lewa, lewas_played, who_won_lewa>>
<1>1. tcp[s] = "resync" /\ UNCHANGED <<loc, sub, child_pipe>>
      /\ UNCHANGED <<curr_lewa, lewas_played, who_won_lewa>>
  BY DEF Resync, playerVars, gmVars, lewa, round
<1>2. sub[s] = "sync" /\ loc[s] \in CommLocs
  BY <1>1 DEF Handoff, HandoffOf, BetweenCommands, DuringCommand, DuringSync,
     DuringEnd, Working, Lost, Done, Gone, TypeOK, SeatTypeOK, Subs
<1>3. \A t \in Seats \ {s} : SeatStill(t)
  BY <1>1 DEF Resync, SeatStill, WriteFails, EndThread, Release, TypeOK,
     SeatTypeOK
<1>4. \A t \in Seats \ {s} : ViewKept(t)
  BY <1>1, <1>3, ViewStill DEF LewaFull
<1> QED BY <1>1, <1>2, <1>4 DEF Dealt, Credited, InHand, CommLocs

(***************************************************************************)
(* Ledger: a replacement is told of all the tricks that were put aside.    *)
(***************************************************************************)
LEMMA LedgerResync ==
    ASSUME IInv, Ledger, NEW s \in Seats, Resync(s)
    PROVE  Ledger'
<1>0. /\ TypeOK /\ Handoff /\ taken_seen \in [Seats -> Seq(Nat)] /\ tcp \in [Seats -> TcpLocs]
      /\ lewas_played \in Seq(Seats \cup {NONE_POS})
  BY DEF IInv, TypeOK, SeatTypeOK, GMTypeOK, RoundTypeOK
<1> DEFINE n == Len(lewas_played)
<1>1. /\ \A t \in Seats \ {s} : ViewKept(t)
      /\ Dealt(s)' => Dealt(s)
      /\ ~Credited(s)'
      /\ UNCHANGED <<curr_lewa, lewas_played>>
  BY <1>0, ViewResync
<1>2. /\ UNCHANGED cards_played
      /\ \/ taken_seen' = [taken_seen EXCEPT ![s] = [i \in 1 .. n |-> i]]
         \/ UNCHANGED taken_seen /\ tcp' = [tcp EXCEPT ![s] = "none"]
  BY DEF Resync, WriteFails, EndThread, clientView
<1>3. HandKept(s)'
  BY <1>1, <1>2 DEF Ledger, HandKept, OnTable
<1>4. TakenSeen(s)'
  <2>1. CASE taken_seen' = [taken_seen EXCEPT ![s] = [i \in 1 .. n |-> i]]
    <3>1. n \in Nat
      BY <1>0
    <3>2. taken_seen'[s] = [i \in 1 .. n |-> i]
      BY <1>0, <2>1
    <3>3. Len(taken_seen'[s]) = n
      BY <3>1, <3>2
    <3> QED BY <1>1, <3>2, <3>3 DEF TakenSeen
  <2>2. CASE UNCHANGED taken_seen /\ tcp' = [tcp EXCEPT ![s] = "none"]
    BY <1>0, <2>2 DEF Ledger, TakenSeen, Connected
  <2> QED BY <1>2, <2>1, <2>2
<1>5. \A t \in Seats \ {s} : cards_played'[t] = cards_played[t] /\ taken_seen'[t] = taken_seen[t]
  BY <1>0, <1>2
<1> QED BY <1>1, <1>3, <1>4, <1>5, LedgerLocal DEF OnTable

(***************************************************************************)
(* Ledger: the card that is marked as played goes on the table.            *)
(***************************************************************************)
LEMMA LedgerCard ==
    ASSUME IInv, Ledger, Failures \subseteq RecoverableKinds,
           NEW s \in Seats, BySeat(AcceptCard(s))
    PROVE  Ledger'
<1>0. /\ TypeOK /\ Handoff /\ Lockstep /\ cards_played \in [Seats -> Nat]
      /\ curr_lewa \in Seq(Seats)
      /\ lewas_played \in Seq(Seats \cup {NONE_POS})
  BY DEF IInv, TypeOK, SeatTypeOK, GMTypeOK, LewaTypeOK, RoundTypeOK
<1>1. /\ tcp[s] = "TRICK" /\ curr_lewa' = Append(curr_lewa, s)
      /\ cards_played' = [cards_played EXCEPT ![s] = @ + 1]
      /\ UNCHANGED <<loc, taken_seen, lewas_played>>
  BY DEF BySeat, AcceptCard, AddCardToLewa, round, playerVars, clientView
<1>2. \A t \in Seats : ViewKept(t)
  BY <1>1, ViewSocket DEF TcpStep, BySeat, HandleDeal, HandleTaken, TakenThrows, Resync,
     ReadCommand, Told
<1>3. loc[s] = "trick" /\ child_pipe[s] = << >> /\ Working(s, "TRICK")
  BY <1>0, <1>1, HandoffInTrick
<1>4. Dealt(s) /\ ~OnTable(s)
  <2>1. Playing
    BY <1>0, <1>3, PhaseAt DEF PlayLocs
  <2> QED BY <1>3, <2>1 DEF Playing, HasPlayed, Working, Done, Dealt
<1>5. /\ DOMAIN curr_lewa' = 1 .. Len(curr_lewa) + 1 /\ DOMAIN curr_lewa = 1 .. Len(curr_lewa)
      /\ curr_lewa'[Len(curr_lewa) + 1] = s /\ Len(curr_lewa) \in Nat
      /\ \A i \in 1 .. Len(curr_lewa) : curr_lewa'[i] = curr_lewa[i]
  BY <1>0, <1>1
<1>6. OnTable(s)' /\ \A t \in Seats \ {s} : OnTable(t)' <=> OnTable(t)
  BY <1>5 DEF OnTable
<1>7. HandKept(s)'
  <2>1. cards_played[s] = Len(lewas_played)
    BY <1>0, <1>4 DEF Ledger, HandKept
  <2>2. cards_played'[s] = Len(lewas_played') + 1
    BY <1>0, <1>1, <2>1
  <2> QED BY <1>6, <2>2 DEF HandKept
<1>8. TakenSeen(s)'
  BY <1>1, <1>2 DEF Ledger, TakenSeen, ViewKept
<1>9. \A t \in Seats \ {s} : cards_played'[t] = cards_played[t] /\ taken_seen'[t] = taken_seen[t]
  BY <1>0, <1>1
<1> QED BY <1>1, <1>2, <1>6, <1>7, <1>8, <1>9, LedgerLocal

(***************************************************************************)
(* Ledger: the steps of the TCP threads.                                   *)
(***************************************************************************)
LEMMA LedgerSocket ==
    ASSUME IInv, OrderOfPlay, Ledger, Failures \subseteq RecoverableKinds, NEW s \in Seats,
           TcpStep(s) \/ SignalStep(s) \/ FailureStep(s)
    PROVE  Ledger'
<1>0. ~BySeat(TakenThrows(s))
  BY TakerTold DEF BySeat
<1>1. CASE BySeat(HandleDeal(s))
  BY <1>1, LedgerDeal DEF BySeat
<1>2. CASE BySeat(HandleTaken(s))
  BY <1>2, LedgerTaken DEF BySeat
<1>3. CASE BySeat(Resync(s))
  BY <1>3, LedgerResync DEF BySeat
<1>4. CASE BySeat(AcceptCard(s))
  BY <1>4, LedgerCard
<1>5. CASE ~BySeat(HandleDeal(s)) /\ ~BySeat(HandleTaken(s)) /\ ~BySeat(Resync(s))
           /\ ~BySeat(AcceptCard(s))
  <2>1. UNCHANGED <<cards_played, taken_seen, curr_lewa, lewas_played>>
    BY <1>0, <1>5 DEF TcpStep, SignalStep, FailureStep, BySeat, AskForCard,
       CardOverflows, HandleScore, HandleTotal, HandleEnd, SignalEnded,
       LoseClientInPoll, LoseClientInTrick, ResetInTrick, WrongAborts,
       BrokenPipe, WriteFails, EndThread, gmVars, lewa, round, tcpVars,
       clientView
  <2>2. \A t \in Seats : ViewKept(t)
    BY <1>0, <1>5, ViewSocket
  <2> QED BY <2>1, <2>2, LedgerStill DEF OnTable
<1> QED BY <1>1, <1>2, <1>3, <1>4, <1>5

(***************************************************************************)
(* View: the main thread starts a player thread, before any hand is dealt. *)
(***************************************************************************)
LEMMA ViewMain ==
    ASSUME IInv, MainStep
    PROVE  \A t \in Seats : ViewKept(t)
<1>0. loc \in [Seats -> Locs] /\ tcp \in [Seats -> TcpLocs] /\ Admission
  BY DEF IInv, TypeOK, SeatTypeOK
<1>1. UNCHANGED <<curr_lewa, sub, seatSync, thread_ended, dying>>
  BY DEF MainStep, ByMain, CheckIfPositionTaken, SendBusy, AdmitNew,
     AdmitReplacement, AddNewPlayer, Spawn, Exit, gmVars, lewa, playerVars,
     tcpVars, tcpState
<1>2. CASE ByMain(Spawn)
  <2>1. PICK p \in Seats : p = request /\ loc[p] = "none"
    BY <1>0, <1>2 DEF ByMain, Spawn, Admission
  <2>2. loc' = [loc EXCEPT ![p] = "start"] /\ tcp' = [tcp EXCEPT ![p] = "poll"]
    BY <1>2, <2>1 DEF ByMain, Spawn, Goto
  <2>3. ViewKept(p)
    BY <1>0, <2>1, <2>2 DEF ViewKept, Dealt, Credited
  <2>4. \A t \in Seats \ {p} : SeatStill(t)
    BY <1>0, <1>1, <2>2 DEF SeatStill, seatSync
  <2> QED BY <1>1, <2>3, <2>4, ViewStill DEF LewaFull
<1>3. CASE ~ByMain(Spawn)
  <2>1. UNCHANGED <<loc, tcp>>
    BY <1>3 DEF MainStep, ByMain, CheckIfPositionTaken, SendBusy, AdmitNew,
       AdmitReplacement, Exit, playerVars, tcpVars, tcpState
  <2>2. \A t \in Seats : SeatStill(t)
    BY <1>1, <2>1 DEF SeatStill, seatSync
  <2> QED BY <1>1, <2>2, ViewStill DEF LewaFull
<1> QED BY <1>2, <1>3

(***************************************************************************)
(* View: a client asks for a seat, or nothing changes.                     *)
(***************************************************************************)
LEMMA ViewQuiet ==
    ASSUME UNCHANGED <<gmVars, playerVars, seatSync, tcpVars>>
    PROVE  \A t \in Seats : ViewKept(t)
<1>1. \A t \in Seats : SeatStill(t)
  BY DEF SeatStill, playerVars, seatSync, tcpVars, tcpState
<1> QED BY <1>1, ViewStill DEF gmVars, lewa, LewaFull

(***************************************************************************)
(* Ledger: the initial state.                                              *)
(***************************************************************************)
LEMMA LedgerInit == Init => Ledger
<1> SUFFICES ASSUME Init, NEW s \in Seats PROVE HandKept(s) /\ TakenSeen(s)
  BY DEF Ledger
<1>1. loc[s] = "none" /\ taken_seen[s] = << >>
  BY DEF Init, SeatInit
<1>2. ~Dealt(s)
  BY <1>1 DEF Dealt
<1>3. Len(taken_seen[s]) = 0 /\ << >> = [i \in 1 .. 0 |-> i]
  BY <1>1
<1> QED BY <1>1, <1>2, <1>3 DEF HandKept, TakenSeen

(***************************************************************************)
(* Every step keeps hands and clients in agreement with the tricks.        *)
(***************************************************************************)
LEMMA LedgerInductive ==
    ASSUME Failures \subseteq RecoverableKinds, IInv, OrderOfPlay, Ledger, [Next]_vars
    PROVE  Ledger'
<1>1. ASSUME NEW s \in Seats, SeatStep(s) PROVE Ledger'
  BY <1>1, LedgerTalk, LedgerGame, LedgerSocket DEF SeatStep
<1>2. CASE BarrierStep
  <2>1. UNCHANGED <<cards_played, taken_seen, lewas_played, curr_lewa>>
    BY <1>2 DEF BarrierStep, BySeat, BarrierTrips, gmVars, lewa, round,
       tcpVars, clientView
  <2> QED BY <1>2, <2>1, ViewBarrier, LedgerStill DEF OnTable
<1>3. CASE MainStep
  <2>1. UNCHANGED <<cards_played, taken_seen, lewas_played, curr_lewa>>
    BY <1>3 DEF MainStep, ByMain, CheckIfPositionTaken, SendBusy, AdmitNew,
       AdmitReplacement, AddNewPlayer, Spawn, Exit, gmVars, lewa, round,
       tcpVars, clientView
  <2> QED BY <1>3, <2>1, ViewMain, LedgerStill DEF OnTable
<1>4. ASSUME UNCHANGED <<gmVars, playerVars, seatSync, tcpVars>> PROVE Ledger'
  <2>1. UNCHANGED <<cards_played, taken_seen, lewas_played, curr_lewa>>
    BY <1>4 DEF gmVars, lewa, round, tcpVars, clientView
  <2> QED BY <1>4, <2>1, ViewQuiet, LedgerStill DEF OnTable
<1>5. ASSUME NEW s \in Seats, JoinStep(s) PROVE Ledger'
  BY <1>4, <1>5 DEF JoinStep, ByMain, JoinRequest
<1>6. CASE UNCHANGED vars
  BY <1>4, <1>6 DEF vars
<1> QED BY <1>1, <1>2, <1>3, <1>5, <1>6 DEF Next, Stopped

(***************************************************************************)
(* Hands and clients agree with the tricks in every reachable state.       *)
(***************************************************************************)
THEOREM LedgerKept ==
    ASSUME Failures \subseteq RecoverableKinds
    PROVE  Spec => []Ledger
<1>1. Init => IInv /\ OrderOfPlay /\ Ledger
  BY Initial, OrderInit, LedgerInit
<1>2. IInv /\ OrderOfPlay /\ Ledger /\ [Next]_vars => IInv' /\ OrderOfPlay' /\ Ledger'
  BY Inductive, OrderInductive, LedgerInductive
<1> QED BY <1>1, <1>2, PTL DEF Spec

(***************************************************************************)
(* The hand the server keeps for a seat has one card less for each trick,  *)
(* and for its card on the table (HandMatchesTricks), whichever commands   *)
(* were sent again after a disconnection.                                  *)
(***************************************************************************)
THEOREM HandsMatch ==
    ASSUME Failures \subseteq RecoverableKinds
    PROVE  Spec => []HandMatchesTricks
<1>1. Ledger => HandMatchesTricks
  BY DEF Ledger, HandKept, Dealt, HandMatchesTricks
<1> QED BY <1>1, LedgerKept, PTL

(***************************************************************************)
(* On one connection a client is told of each trick once and in order      *)
(* (OneTakenPerTrick): a TAKEN written to a replacement never repeats one  *)
(* it was brought up to date with.                                         *)
(***************************************************************************)
THEOREM TakensInOrder ==
    ASSUME Failures \subseteq RecoverableKinds
    PROVE  Spec => []OneTakenPerTrick
<1>1. Ledger => OneTakenPerTrick
  BY DEF Ledger, TakenSeen, OneTakenPerTrick
<1> QED BY <1>1, LedgerKept, PTL

-----------------------------------------------------------------------------
(* Points, against who took the tricks.                                    *)

(***************************************************************************)
(* The tricks a seat took are counted from lewas_played alone.             *)
(***************************************************************************)
LEMMA TricksStill ==
    ASSUME UNCHANGED lewas_played, NEW s \in Seats
    PROVE  TricksTaken(s)' = TricksTaken(s)
  BY DEF TricksTaken

(***************************************************************************)
(* When a round opens no seat has taken a trick of it.                     *)
(***************************************************************************)
LEMMA TricksNone ==
    ASSUME NEW q, q = << >>, NEW s \in Seats
    PROVE  Cardinality({i \in DOMAIN q : q[i] = s}) = 0
<1>1. {i \in DOMAIN q : q[i] = s} = {}
  OBVIOUS
<1> QED BY <1>1, FS_EmptySet

(***************************************************************************)
(* There is a number of tricks that a seat took.                           *)
(***************************************************************************)
LEMMA TricksCounted ==
    ASSUME TypeOK, NEW s \in Seats
    PROVE  /\ IsFiniteSet({i \in DOMAIN lewas_played : lewas_played[i] = s})
           /\ TricksTaken(s) \in Nat
<1> DEFINE mine == {i \in DOMAIN lewas_played : lewas_played[i] = s}
<1>1. DOMAIN lewas_played = 1 .. Len(lewas_played) /\ Len(lewas_played) \in Nat
  BY DEF TypeOK, GMTypeOK, RoundTypeOK
<1>2. IsFiniteSet(1 .. Len(lewas_played))
  BY <1>1, FS_Interval
<1>3. mine \subseteq 1 .. Len(lewas_played)
  BY <1>1
<1>4. IsFiniteSet(mine)
  BY <1>2, <1>3, FS_Subset
<1> QED BY <1>4, FS_CardinalityType DEF TricksTaken

(***************************************************************************)
(* A trick put aside counts for its taker.                                 *)
(***************************************************************************)
LEMMA TricksOneMore ==
    ASSUME TypeOK, NEW s \in Seats, lewas_played' = Append(lewas_played, who_won_lewa)
    PROVE  TricksTaken(s)' = TricksTaken(s) + (IF who_won_lewa = s THEN 1 ELSE 0)
<1> DEFINE mine == {i \in DOMAIN lewas_played : lewas_played[i] = s}
           n == Len(lewas_played)
<1>1. /\ lewas_played \in Seq(Seats \cup {NONE_POS}) /\ n \in Nat
      /\ who_won_lewa \in Seats \cup {NONE_POS}
  BY DEF TypeOK, GMTypeOK, RoundTypeOK, LewaTypeOK
<1>2. /\ DOMAIN lewas_played = 1 .. n /\ DOMAIN lewas_played' = 1 .. n + 1
      /\ lewas_played'[n + 1] = who_won_lewa
      /\ \A i \in 1 .. n : lewas_played'[i] = lewas_played[i]
  BY <1>1
<1>3. IsFiniteSet(mine) /\ n + 1 \notin mine /\ TricksTaken(s) \in Nat
  BY <1>1, <1>2, TricksCounted
<1>4. CASE who_won_lewa = s
  <2>1. mine' = mine \cup {n + 1}
    BY <1>1, <1>2, <1>4
  <2>2. Cardinality(mine') = Cardinality(mine) + 1
    BY <1>3, <2>1, FS_AddElement
  <2> QED BY <1>4, <2>2 DEF TricksTaken
<1>5. CASE who_won_lewa # s
  <2>1. mine' = mine
    BY <1>1, <1>2, <1>5
  <2>2. TricksTaken(s)' = TricksTaken(s)
    BY <2>1, Zenon DEF TricksTaken
  <2> QED BY <1>3, <1>5, <2>2
<1> QED BY <1>4, <1>5

(***************************************************************************)
(* ServedOnce, for one seat.                                               *)
(***************************************************************************)
ServedAt(t) == loc[t] \in {"taken", "score"} /\ InHand(t) => Done(t)

(***************************************************************************)
(* Served: a player thread that talks to its TCP thread leaves no command  *)
(* in hand; it has collected what was served, or written the next one.     *)
(***************************************************************************)
LEMMA ServedTalk ==
    ASSUME TypeOK, Handoff, ServedOnce, NEW s \in Seats, TalkStep(s)
    PROVE  ServedOnce'
<1>1. \A t \in Seats \ {s} : ServedAt(t)'
  BY ViewTalk DEF ServedOnce, ServedAt, SeatStill, InHand, Done
<1>2. CASE BySeat(CollectServed(s))
  <2>1. CollectServed(s)
    BY <1>2 DEF BySeat
  <2>2. loc[s] \in CommLocs /\ loc'[s] = AfterCommand(loc[s])
    BY <2>1, CollectedServed DEF CollectServed, Goto, TypeOK, SeatTypeOK
  <2>3. ServedAt(s)'
    BY <2>2 DEF ServedAt, CommLocs, AfterCommand
  <2> QED BY <1>1, <2>3 DEF ServedOnce, ServedAt
<1>3. CASE ~BySeat(CollectServed(s))
  <2>1. ~InHand(s)'
    BY <1>3 DEF TalkStep, BySeat, SendCommand, CollectEnded, Recover, Replace,
       ResendCommand, InHand, TypeOK, SeatTypeOK
  <2> QED BY <1>1, <2>1 DEF ServedOnce, ServedAt
<1> QED BY <1>2, <1>3

(***************************************************************************)
(* A player thread that runs the game has no command in hand, before and   *)
(* after its step, and leaves the threads of the other seats alone.        *)
(***************************************************************************)
LEMMA GameAlone ==
    ASSUME TypeOK, Handoff, NEW s \in Seats, GameStep(s)
    PROVE  /\ loc[s] \notin CommLocs /\ UNCHANGED sub
           /\ ~InHand(s) /\ ~InHand(s)'
           /\ \A t \in Seats \ {s} : SeatStill(t)
<1>0. loc \in [Seats -> Locs] /\ child_pipe \in [Seats -> Seq(Commands)]
      /\ semaphore_TCP \in [Seats -> Nat]
  BY DEF TypeOK, SeatTypeOK
<1>1. \A t \in Seats \ {s} : SeatStill(t)
  BY <1>0 DEF GameStep, BySeat, ByMain, TakeTurn, CheckFull, DecideTaker,
     GiveLead, CountCards, PassTurn, ClearTable, CheckRound, CheckLastRound,
     StartRound, MonitorThrows, LeaveGame, SendEnd, CollectEnd, Step, Goto,
     Acquire, SeatStill, playerVars, seatSync, tcpVars, tcpState
<1>2. loc[s] \notin CommLocs /\ UNCHANGED sub
  BY DEF GameStep, BySeat, ByMain, TakeTurn, CheckFull, DecideTaker, GiveLead,
     CountCards, PassTurn, ClearTable, CheckRound, CheckLastRound, StartRound,
     MonitorThrows, LeaveGame, SendEnd, CollectEnd, Step, playerVars, CommLocs
<1>3. sub[s] = "ready"
  BY <1>2, NothingInHand
<1> QED BY <1>1, <1>2, <1>3 DEF InHand

(***************************************************************************)
(* Served: the steps of the TCP threads.                                   *)
(***************************************************************************)
LEMMA ServedSocket ==
    ASSUME IInv, OrderOfPlay, ServedOnce, Failures \subseteq PromptKinds, NEW s \in Seats,
           TcpStep(s) \/ SignalStep(s) \/ FailureStep(s)
    PROVE  ServedOnce'
<1>0. TypeOK /\ Handoff /\ ~BySeat(TakenThrows(s))
  BY TakerTold DEF IInv, BySeat
<1>1. UNCHANGED <<loc, sub>>
  BY DEF TcpStep, SignalStep, FailureStep, BySeat, HandleDeal, AskForCard,
     AcceptCard, CardOverflows, HandleTaken, TakenThrows, HandleScore, HandleTotal,
     HandleEnd, Resync, SignalEnded, LoseClientInPoll, LoseClientInTrick,
     ResetInTrick, WrongAborts, BrokenPipe, playerVars
<1>2. \A t \in Seats \ {s} : SeatStill(t)
  BY <1>0, <1>1 DEF TcpStep, SignalStep, FailureStep, BySeat, HandleDeal, AskForCard,
     AcceptCard, CardOverflows, HandleTaken, TakenThrows, HandleScore, HandleTotal,
     HandleEnd, Resync, SignalEnded, LoseClientInPoll, LoseClientInTrick,
     ResetInTrick, WrongAborts, BrokenPipe, ReadCommand, Served, Release,
     WriteFails, EndThread, SeatStill, seatSync, tcpVars, tcpState, TypeOK,
     SeatTypeOK
<1>3. \A t \in Seats \ {s} : ServedAt(t)'
  BY <1>2 DEF ServedOnce, ServedAt, SeatStill, InHand, Done
<1>4. ASSUME BySeat(HandleTaken(s)) \/ BySeat(HandleScore(s)) PROVE ServedAt(s)'
  <2>1. \E c \in {"TAKEN", "SCORE"} : ReadCommand(s, c) /\ Served(s)
    BY <1>4 DEF BySeat, HandleTaken, HandleScore, WriteFails, Fault, PromptKinds
  <2>2. Working(s, "poll") /\ Served(s)
    BY <1>0, <2>1, CommandRead DEF ReadCommand
  <2> QED BY <1>0, <2>2 DEF Served, Release, Done, Working, Pending, tcpState,
      TypeOK, SeatTypeOK, ServedAt
<1>5. ASSUME BySeat(HandleDeal(s)) \/ BySeat(AskForCard(s)) \/ BySeat(HandleTotal(s))
             \/ BySeat(HandleEnd(s)) \/ BySeat(AcceptCard(s)) \/ BySeat(CardOverflows(s))
             \/ BySeat(LoseClientInTrick(s)) \/ BySeat(ResetInTrick(s))
      PROVE  ServedAt(s)'
  <2>1. tcp[s] = "TRICK" \/ \E c \in {"DEAL", "TRICK", "TOTAL", "END"} : Told(s, c)
    BY <1>5 DEF BySeat, HandleDeal, AcceptCard, AskForCard, CardOverflows,
       LoseClientInTrick, ResetInTrick, HandleTotal, HandleEnd, ReadCommand
  <2>2. loc[s] \notin {"taken", "score"}
    <3>1. CASE tcp[s] = "TRICK"
      BY <1>0, <3>1, HandoffInTrick
    <3>2. CASE \E c \in {"DEAL", "TRICK", "TOTAL"} : Told(s, c)
      BY <1>0, <3>2, CommandRead DEF CommLocs, CommandAt
    <3>3. CASE Told(s, "END")
      BY <1>0, <3>3, EndRead
    <3> QED BY <2>1, <3>1, <3>2, <3>3
  <2> QED BY <1>1, <2>2 DEF ServedAt
<1>6. ASSUME BySeat(Resync(s)) PROVE ServedAt(s)'
  <2>1. tcp[s] = "resync" /\ HandoffOf(s)
    BY <1>0, <1>6 DEF BySeat, Resync, Handoff
  <2>2. sub[s] # "wait"
    BY <2>1 DEF HandoffOf, DuringCommand, Working, Lost, Done
  <2> QED BY <1>1, <2>2 DEF ServedAt, InHand
<1>7. ASSUME BySeat(SignalEnded(s)) \/ BySeat(LoseClientInPoll(s)) PROVE ServedAt(s)'
  <2>1. ~Done(s) /\ UNCHANGED child_pipe
    <3>1. Failures \subseteq RecoverableKinds
      BY DEF PromptKinds
    <3> QED BY <1>0, <1>7, <3>1, LostIdle, SMTT(30) DEF BySeat, SignalEnded, Done, TypeOK, SeatTypeOK
  <2> QED BY <1>1, <2>1 DEF ServedOnce, ServedAt, InHand
<1>8. ASSUME BySeat(WrongAborts(s)) \/ BySeat(BrokenPipe(s)) PROVE ServedAt(s)'
  BY <1>8 DEF BySeat, WrongAborts, BrokenPipe, ServedOnce, ServedAt, InHand,
     Done, playerVars, seatSync, tcpVars, tcpState
<1> QED BY <1>0, <1>3, <1>4, <1>5, <1>6, <1>7, <1>8 DEF TcpStep, SignalStep,
    FailureStep, ServedOnce, ServedAt

(***************************************************************************)
(* Every step keeps TAKEN and SCORE served once.                           *)
(***************************************************************************)
LEMMA ServedInductive ==
    ASSUME IInv, OrderOfPlay, ServedOnce, Failures \subseteq PromptKinds, [Next]_vars
    PROVE  ServedOnce'
<1>0. TypeOK /\ Handoff /\ Admission
  BY DEF IInv
<1>1. ASSUME NEW s \in Seats, GameStep(s) PROVE ServedOnce'
  BY <1>0, <1>1, GameAlone DEF ServedOnce, SeatStill, InHand, Done
<1>2. CASE BarrierStep
  <2>1. \A t \in Seats : ~InHand(t)'
    BY <1>0, <1>2, NothingInHand DEF BarrierStep, BySeat, BarrierTrips, InHand,
       BarrierLocs, CommLocs
  <2> QED BY <2>1 DEF ServedOnce
<1>3. ASSUME UNCHANGED <<playerVars, seatSync, tcpVars>> PROVE ServedOnce'
  BY <1>3 DEF ServedOnce, InHand, Done, playerVars, seatSync, tcpVars, tcpState
<1>4. CASE MainStep
  <2>1. CASE ByMain(Spawn)
    <3>1. \A t \in Seats : loc'[t] = "start" \/ (loc'[t] = loc[t] /\ tcp'[t] = tcp[t])
      BY <1>0, <2>1 DEF ByMain, Spawn, Goto, TypeOK, SeatTypeOK
    <3>2. UNCHANGED <<sub, child_pipe, semaphore_TCP, thread_ended, dying>>
      BY <2>1 DEF ByMain, Spawn, seatSync
    <3> QED BY <3>1, <3>2 DEF ServedOnce, InHand, Done
  <2>2. CASE ~ByMain(Spawn)
    BY <1>3, <1>4, <2>2 DEF MainStep, ByMain, CheckIfPositionTaken, SendBusy,
       AdmitNew, AdmitReplacement, Exit
  <2> QED BY <2>1, <2>2
<1>5. ASSUME NEW s \in Seats, JoinStep(s) PROVE ServedOnce'
  BY <1>3, <1>5 DEF JoinStep, ByMain, JoinRequest
<1>6. CASE UNCHANGED vars
  BY <1>3, <1>6 DEF vars
<1> QED BY <1>0, <1>1, <1>2, <1>4, <1>5, <1>6, ServedTalk, ServedSocket
    DEF Next, SeatStep, Stopped

AtTrick == {"trick", "full", "won"}
ScoredLocs == {"scored", "total", "totalled", "nextround", "newround"} \cup LeaveLocs

(***************************************************************************)
(* The agreement of the points with the tricks rests on what the seats     *)
(* were dealt, told and credited with, and on the trick on the table.      *)
(***************************************************************************)
LEMMA PointsStill ==
    ASSUME RoundPoints, GamePoints, UNCHANGED <<points, lewas_played, tricks_won, who_won_lewa>>,
           Decided' <=> Decided,
           \A t \in Seats : /\ Dealt(t)' => Dealt(t)
                            /\ Credited(t)' <=> Credited(t)
                            /\ Scored(t)' <=> Scored(t)
    PROVE  RoundPoints' /\ GamePoints'
<1>1. \A t \in Seats : TricksTaken(t)' = TricksTaken(t)
  BY TricksStill
<1>2. ASSUME NEW t \in Seats, Dealt(t)'
      PROVE  curr_game_points'[t] = TricksTaken(t)'
                                    + (IF Credited(t)' /\ who_won_lewa' = t THEN 1 ELSE 0)
  <2>1. curr_game_points[t] = TricksTaken(t)
                              + (IF Credited(t) /\ who_won_lewa = t THEN 1 ELSE 0)
    BY <1>2 DEF RoundPoints
  <2> QED BY <1>1, <2>1 DEF points
<1>3. ASSUME NEW t \in Seats
      PROVE  tricks_won'[t] = all_points'[t] + (IF Scored(t)' THEN 0 ELSE TricksTaken(t)')
                              + (IF Decided' /\ who_won_lewa' = t THEN 1 ELSE 0)
  <2>1. tricks_won[t] = all_points[t] + (IF Scored(t) THEN 0 ELSE TricksTaken(t))
                        + (IF Decided /\ who_won_lewa = t THEN 1 ELSE 0)
    BY DEF GamePoints
  <2> QED BY <1>1, <2>1 DEF points
<1> QED BY <1>2, <1>3 DEF RoundPoints, GamePoints

(***************************************************************************)
(* A seat whose threads do nothing is scored when it was.                  *)
(***************************************************************************)
LEMMA ScoredStill ==
    ASSUME NEW t \in Seats, SeatStill(t)
    PROVE  Scored(t)' <=> Scored(t)
  BY DEF Scored, SeatStill, InHand

(***************************************************************************)
(* Whether the trick has been decided depends on the table and the places. *)
(***************************************************************************)
LEMMA DecidedStill ==
    ASSUME LewaFull' <=> LewaFull,
           \A t \in Seats : loc'[t] \in AtTrick <=> loc[t] \in AtTrick
    PROVE  Decided' <=> Decided
  BY DEF Decided, AtTrick

(***************************************************************************)
(* Points: a thread that talks to its client adds none.  What it collects  *)
(* of a SCORE was served, so that it is scored already.                    *)
(***************************************************************************)
LEMMA PointsTalk ==
    ASSUME IInv, Points, NEW s \in Seats, TalkStep(s)
    PROVE  RoundPoints' /\ GamePoints'
<1>0. TypeOK /\ Handoff /\ HandoffOf(s)
  BY DEF IInv, Handoff
<1>1. UNCHANGED <<points, lewas_played, tricks_won, who_won_lewa, curr_lewa>>
  BY DEF TalkStep, BySeat, SendCommand, CollectServed, CollectEnded, Recover,
     Replace, ResendCommand, SetPlayerLeft, AcquireDisconnectedSem, gmVars,
     lewa, round, tcpVars, points
<1>2. /\ \A t \in Seats : ViewKept(t)
      /\ \A t \in Seats \ {s} : SeatStill(t)
  BY <1>0, ViewTalk
<1>3. /\ Scored(s)' <=> Scored(s)
      /\ loc'[s] \in AtTrick <=> loc[s] \in AtTrick
  <2>1. ASSUME BySeat(CollectServed(s))
        PROVE  /\ Scored(s)' <=> Scored(s)
               /\ loc'[s] \in AtTrick <=> loc[s] \in AtTrick
    <3>1. CollectServed(s)
      BY <2>1 DEF BySeat
    <3>2. loc[s] \in CommLocs /\ InHand(s) /\ loc'[s] = AfterCommand(loc[s])
      BY <1>0, <3>1, CollectedServed DEF CollectServed, Goto, TypeOK, SeatTypeOK
    <3> QED BY <3>2 DEF CommLocs, AfterCommand, AtTrick, Scored, LeaveLocs
  <2>2. ASSUME ~BySeat(CollectServed(s))
        PROVE  /\ Scored(s)' <=> Scored(s)
               /\ loc'[s] \in AtTrick <=> loc[s] \in AtTrick
    <3>1. UNCHANGED loc
      BY <2>2 DEF TalkStep, BySeat, SendCommand, CollectEnded, Recover, Replace,
         ResendCommand
    <3>2. ~InHand(s)'
      BY <1>0, <2>2 DEF TalkStep, BySeat, SendCommand, CollectEnded, Recover,
         Replace, ResendCommand, InHand, TypeOK, SeatTypeOK
    <3>3. loc[s] = "score" => ~InHand(s)
      BY <2>2 DEF TalkStep, BySeat, SendCommand, CollectEnded, Recover, Replace,
         ResendCommand, InHand, Points, ServedOnce, Done
    <3> QED BY <3>1, <3>2, <3>3 DEF Scored
  <2> QED BY <2>1, <2>2
<1>4. \A t \in Seats : Scored(t)' <=> Scored(t)
  BY <1>2, <1>3, ScoredStill
<1>5. Decided' <=> Decided
  BY <1>1, <1>2, <1>3, DecidedStill DEF LewaFull, SeatStill
<1> QED BY <1>1, <1>2, <1>4, <1>5, PointsStill DEF Points, ViewKept

(***************************************************************************)
(* Points: a thread moves on in the game, in a step that takes no trick.   *)
(***************************************************************************)
LEMMA PointsMove ==
    ASSUME IInv, Points, NEW s \in Seats, GameStep(s), NEW to, Goto(s, to),
           loc[s] \in ScoredLocs <=> to \in ScoredLocs,
           (loc[s] \in AtTrick <=> to \in AtTrick) \/ ~LewaFull,
           ~(BySeat(ClearTable(s)) /\ LewaFull),
           UNCHANGED <<points, lewas_played, tricks_won, who_won_lewa, curr_lewa>>
    PROVE  RoundPoints' /\ GamePoints'
<1>0. TypeOK /\ Handoff /\ Lockstep
  BY DEF IInv
<1>1. /\ loc[s] \notin CommLocs /\ ~InHand(s) /\ ~InHand(s)'
      /\ \A t \in Seats \ {s} : SeatStill(t)
  BY <1>0, GameAlone
<1>2. \A t \in Seats : ViewKept(t)
  BY <1>0, ViewGame
<1>3. loc'[s] = to /\ \A t \in Seats \ {s} : loc'[t] = loc[t]
  BY <1>0 DEF Goto, TypeOK, SeatTypeOK
<1>4. \A t \in Seats : Scored(t)' <=> Scored(t)
  <2>1. Scored(s)' <=> Scored(s)
    BY <1>1, <1>3 DEF Scored, ScoredLocs
  <2> QED BY <1>1, <2>1, ScoredStill
<1>5. Decided' <=> Decided
  <2>1. CASE LewaFull
    BY <1>3, <2>1, DecidedStill DEF LewaFull
  <2>2. CASE ~LewaFull
    BY <2>2 DEF Decided, LewaFull
  <2> QED BY <2>1, <2>2
<1> QED BY <1>2, <1>4, <1>5, PointsStill DEF Points, ViewKept

(***************************************************************************)
(* Points: the taker of the trick is decided, and one trick more is its.   *)
(***************************************************************************)
LEMMA PointsDecide ==
    ASSUME IInv, Points, NEW s \in Seats, DecideTaker(s)
    PROVE  RoundPoints' /\ GamePoints'
<1>0. /\ TypeOK /\ Handoff /\ Lockstep /\ loc \in [Seats -> Locs]
      /\ tricks_won \in [Seats -> Nat]
  BY DEF IInv, TypeOK, SeatTypeOK, GMTypeOK, RoundTypeOK
<1>1. /\ loc[s] = "won" /\ loc' = [loc EXCEPT ![s] = "lead"] /\ UNCHANGED <<sub, child_pipe>>
      /\ UNCHANGED <<curr_game_points, all_points, lewas_played, curr_lewa>>
  BY DEF DecideTaker, Step, Goto, CheckWhoWonLewa, tcpVars, points, seatSync
<1>2. PICK w \in Seats : /\ who_won_lewa' = w
                         /\ tricks_won' = [tricks_won EXCEPT ![w] = @ + 1]
  BY DEF DecideTaker, CheckWhoWonLewa
<1>3. AllIn(PlayLocs) /\ LewaFull
  BY <1>0, <1>1, PhaseAt DEF Playing, PlayLocs
<1>4. \A t \in Seats : loc'[t] \in PlayLocs \ AtTrick
  <2>1. \A t \in Seats \ {s} : loc[t] \notin AtTrick
    BY <1>1, HolderTurn DEF Holders, HolderLocs, AtTrick
  <2> QED BY <1>0, <1>1, <1>3, <2>1 DEF AllIn, AtTrick, PlayLocs
<1>5. ~Decided /\ Decided'
  BY <1>1, <1>3, <1>4 DEF Decided, AtTrick, LewaFull
<1>6. ASSUME NEW t \in Seats
      PROVE  /\ Dealt(t) /\ ~Credited(t) /\ ~Credited(t)'
             /\ ~Scored(t) /\ ~Scored(t)'
             /\ TricksTaken(t)' = TricksTaken(t)
  <2>1. Dealt(t) /\ ~Credited(t) /\ ~Credited(t)'
    BY <1>3, <1>4 DEF AllIn, PlayLocs, Dealt, Credited
  <2>2. ~Scored(t) /\ ~Scored(t)'
    BY <1>3, <1>4 DEF AllIn, PlayLocs, LeaveLocs, Scored
  <2> QED BY <1>1, <2>1, <2>2, TricksStill
<1>7. ASSUME NEW t \in Seats
      PROVE  curr_game_points'[t] = TricksTaken(t)'
  <2>1. curr_game_points[t] = TricksTaken(t) + 0
    BY <1>6 DEF Points, RoundPoints
  <2>2. TricksTaken(t) \in Nat
    BY <1>0, TricksCounted
  <2> QED BY <1>1, <1>6, <2>1, <2>2
<1>8. ASSUME NEW t \in Seats
      PROVE  tricks_won'[t] = all_points'[t] + TricksTaken(t)' + (IF w = t THEN 1 ELSE 0)
  <2>1. tricks_won[t] = all_points[t] + TricksTaken(t) + 0
    BY <1>5, <1>6 DEF Points, GamePoints
  <2>2. TricksTaken(t) \in Nat /\ all_points[t] \in Nat
    BY <1>0, TricksCounted DEF TypeOK, SeatTypeOK
  <2>3. tricks_won'[t] = tricks_won[t] + (IF w = t THEN 1 ELSE 0)
    BY <1>0, <1>2
  <2>4. all_points'[t] = all_points[t] /\ TricksTaken(t)' = TricksTaken(t)
    BY <1>1, <1>6
  <2> QED BY <2>1, <2>2, <2>3, <2>4
<1>9. RoundPoints'
  <2>1. ASSUME NEW t \in Seats
        PROVE  curr_game_points'[t] = TricksTaken(t)' + 0
    <3>1. TricksTaken(t)' \in Nat
      BY <1>0, <1>6, TricksCounted
    <3> QED BY <1>7, <3>1
  <2> QED BY <1>6, <2>1 DEF RoundPoints
<1>10. GamePoints'
  BY <1>2, <1>5, <1>6, <1>8 DEF GamePoints
<1> QED BY <1>9, <1>10

(***************************************************************************)
(* Points: the trick is put aside with its taker, whose it is from then    *)
(* on; all seats have been credited with it.                               *)
(***************************************************************************)
LEMMA PointsClear ==
    ASSUME IInv, Points, NEW s \in Seats, ClearTable(s), LewaFull
    PROVE  RoundPoints' /\ GamePoints'
<1>0. TypeOK /\ loc \in [Seats -> Locs]
  BY DEF IInv, TypeOK, SeatTypeOK
<1>1. /\ loc[s] = "newlewa" /\ Goto(s, "cleared")
      /\ lewas_played' = Append(lewas_played, who_won_lewa) /\ curr_lewa' = << >>
      /\ UNCHANGED <<curr_game_points, all_points, tricks_won, who_won_lewa>>
  BY DEF ClearTable, Step, PrepareNewLewa, tcpVars, points
<1>2. AllIn({"newlewa", "cleared"}) /\ AllIn({"newlewa", "cleared"})'
  BY <1>0, <1>1, PhaseAt, AllInMove DEF IInv, Clearing
<1>3. ~LewaFull'
  BY <1>1, SizesAssumption DEF LewaFull
<1>4. Decided /\ ~Decided'
  BY <1>2, <1>3 DEF AllIn, Decided
<1>5. ASSUME NEW t \in Seats
      PROVE  /\ Dealt(t) /\ Credited(t) /\ ~Credited(t)' /\ ~Scored(t) /\ ~Scored(t)'
             /\ TricksTaken(t)' = TricksTaken(t) + (IF who_won_lewa = t THEN 1 ELSE 0)
             /\ TricksTaken(t) \in Nat /\ all_points[t] \in Nat
  <2>1. Dealt(t) /\ Credited(t) /\ ~Credited(t)'
    BY <1>2, <1>3 DEF AllIn, Dealt, Credited
  <2>2. ~Scored(t) /\ ~Scored(t)'
    BY <1>2 DEF AllIn, Scored, LeaveLocs
  <2>3. TricksTaken(t)' = TricksTaken(t) + (IF who_won_lewa = t THEN 1 ELSE 0)
    BY <1>0, <1>1, TricksOneMore
  <2>4. TricksTaken(t) \in Nat /\ all_points[t] \in Nat
    BY <1>0, TricksCounted DEF TypeOK, SeatTypeOK
  <2> QED BY <2>1, <2>2, <2>3, <2>4
<1>6. ASSUME NEW t \in Seats
      PROVE  curr_game_points'[t] = TricksTaken(t)' + 0
  <2>1. curr_game_points[t] = TricksTaken(t) + (IF who_won_lewa = t THEN 1 ELSE 0)
    BY <1>5 DEF Points, RoundPoints
  <2> QED BY <1>1, <1>5, <2>1
<1>7. ASSUME NEW t \in Seats
      PROVE  tricks_won'[t] = all_points'[t] + TricksTaken(t)' + 0
  <2>1. tricks_won[t] = all_points[t] + TricksTaken(t)
                        + (IF who_won_lewa = t THEN 1 ELSE 0)
    BY <1>4, <1>5 DEF Points, GamePoints
  <2>2. tricks_won' = tricks_won /\ all_points' = all_points
    BY <1>1
  <2> DEFINE now == TricksTaken(t)
             later == TricksTaken(t)'
             points_t == all_points[t]
             one == IF who_won_lewa = t THEN 1 ELSE 0
  <2>3. now \in Nat /\ points_t \in Nat /\ one \in Nat /\ later = now + one
    BY <1>5
  <2> HIDE DEF now, later, points_t, one
  <2>4. points_t + now + one = points_t + later + 0
    BY <2>3
  <2> QED BY <2>1, <2>2, <2>4 DEF now, later, points_t, one
<1>8. RoundPoints'
  BY <1>5, <1>6 DEF RoundPoints
<1>9. GamePoints'
  BY <1>4, <1>5, <1>7 DEF GamePoints
<1> QED BY <1>8, <1>9

(***************************************************************************)
(* Points: a round is opened when all seats are scored for the last one,   *)
(* and the other threads find the round open.                              *)
(***************************************************************************)
LEMMA PointsStart ==
    ASSUME IInv, OrderOfPlay, Points, NEW s \in Seats, StartRound(s)
    PROVE  RoundPoints' /\ GamePoints'
<1>0. /\ TypeOK /\ Lockstep /\ loc \in [Seats -> Locs]
      /\ lewas_played \in Seq(Seats \cup {NONE_POS}) /\ lewa_id \in Nat
  <2>1. TypeOK /\ Lockstep
    BY DEF IInv
  <2>2. loc \in [Seats -> Locs] /\ lewas_played \in Seq(Seats \cup {NONE_POS})
    BY <2>1 DEF TypeOK, SeatTypeOK, GMTypeOK, RoundTypeOK
  <2>3. lewa_id \in Nat
    BY <2>1, SizesAssumption DEF TypeOK, GMTypeOK, LewaTypeOK
  <2> QED BY <2>1, <2>2, <2>3
<1>1. /\ loc[s] = "newround" /\ Goto(s, "start")
      /\ UNCHANGED <<curr_game_points, all_points, tricks_won>>
  BY DEF StartRound, Step, PrepareNewRound, tcpVars, points
<1>2. Opening
  BY <1>0, <1>1, PhaseAt
<1>3. AllIn({"newround", "start"}) /\ AllIn({"newround", "start"})'
  BY <1>0, <1>1, <1>2, AllInMove DEF Opening
<1>4. curr_lewa = << >> /\ curr_lewa' = << >> /\ lewas_played' = << >>
  <2>1. lewa_id = 1 => lewas_played = << >>
    BY <1>0 DEF OrderOfPlay, TrickNumbered
  <2>2. lewa_id >= 1
    BY <1>0 DEF OrderOfPlay, TrickNumbered
  <2> QED BY <1>0, <1>2, <2>1, <2>2 DEF Opening, StartRound, PrepareNewRound, lewa
<1>5. ~Decided /\ ~Decided'
  BY <1>4, SizesAssumption DEF Decided, LewaFull
<1>6. ASSUME NEW t \in Seats
      PROVE  tricks_won'[t] = all_points'[t] + 0 + 0
  <2>1. tricks_won[t] = all_points[t] + (IF Scored(t) THEN 0 ELSE TricksTaken(t)) + 0
    BY <1>5 DEF Points, GamePoints
  <2>2. Scored(t) \/ TricksTaken(t) = 0
    <3>1. CASE loc[t] = "newround"
      BY <3>1 DEF Scored
    <3>2. CASE loc[t] = "start"
      <4>1. lewas_played = << >>
        BY <1>0, <3>2 DEF OrderOfPlay, TrickNumbered, FreshLocs
      <4> QED BY <4>1, TricksNone DEF TricksTaken
    <3> QED BY <1>3, <3>1, <3>2 DEF AllIn
  <2>3. all_points[t] \in Nat
    BY <1>0 DEF TypeOK, SeatTypeOK
  <2> QED BY <1>1, <2>1, <2>2, <2>3
<1>7. \A t \in Seats : TricksTaken(t)' = 0
  BY <1>4, TricksNone DEF TricksTaken
<1>8. RoundPoints'
  BY <1>3 DEF RoundPoints, AllIn, Dealt
<1>9. GamePoints'
  BY <1>5, <1>6, <1>7 DEF GamePoints
<1> QED BY <1>8, <1>9

(***************************************************************************)
(* Points: the steps of the game.                                          *)
(***************************************************************************)
LEMMA PointsGame ==
    ASSUME IInv, OrderOfPlay, Points, NEW s \in Seats, GameStep(s)
    PROVE  RoundPoints' /\ GamePoints'
<1>0. TypeOK /\ Handoff /\ Lockstep
  BY DEF IInv
<1> DEFINE Same == UNCHANGED <<points, lewas_played, tricks_won, who_won_lewa, curr_lewa>>
<1>1. CASE BySeat(DecideTaker(s)) \/ (BySeat(ClearTable(s)) /\ LewaFull)
           \/ BySeat(StartRound(s))
  BY <1>1, PointsDecide, PointsClear, PointsStart DEF BySeat
<1>2. CASE BySeat(TakeTurn(s))
  <2>1. loc[s] = "turn" /\ Goto(s, "trick") /\ Same
    BY <1>2 DEF BySeat, TakeTurn, Step, WaitForTurn, lewa, round, tcpVars
  <2>2. ~LewaFull
    <3>1. Playing
      BY <1>0, <2>1, PhaseAt DEF PlayLocs
    <3>2. ~OnTable(s)
      BY <2>1, <3>1 DEF Playing, HasPlayed
    <3> QED BY <1>0, <3>1, <3>2, FullTable DEF Playing
  <2> QED BY <2>1, <2>2, PointsMove DEF ScoredLocs, LeaveLocs
<1>3. CASE BySeat(CheckFull(s))
  <2>1. loc[s] = "full" /\ Goto(s, IF LewaFull THEN "won" ELSE "pass") /\ Same
    BY <1>3 DEF BySeat, CheckFull, Step, gmVars, lewa, round, tcpVars
  <2>2. CASE LewaFull
    BY <2>1, <2>2, PointsMove DEF ScoredLocs, LeaveLocs, BySeat, ClearTable, Step, AtTrick
  <2>3. CASE ~LewaFull
    BY <2>1, <2>3, PointsMove DEF ScoredLocs, LeaveLocs
  <2> QED BY <2>2, <2>3
<1>4. CASE BySeat(ClearTable(s)) /\ ~LewaFull
  <2>1. loc[s] = "newlewa" /\ Goto(s, "cleared") /\ Same
    BY <1>4 DEF BySeat, ClearTable, Step, PrepareNewLewa, tcpVars
  <2> QED BY <1>4, <2>1, PointsMove DEF ScoredLocs, LeaveLocs
<1>5. CASE BySeat(MonitorThrows(s))
  <2>1. Same /\ UNCHANGED <<loc, sub, child_pipe>>
    BY <1>5 DEF BySeat, MonitorThrows, gmVars, lewa, round, tcpVars, playerVars,
       seatSync
  <2>2. \A t \in Seats : Scored(t)' <=> Scored(t)
    BY <2>1 DEF Scored, InHand
  <2>3. Decided' <=> Decided
    BY <2>1 DEF Decided, LewaFull
  <2>4. \A t \in Seats : ViewKept(t)
    BY <1>0, <1>5, ViewGame DEF BySeat, MonitorThrows, ClearTable, PrepareNewLewa,
       Step
  <2> QED BY <2>1, <2>2, <2>3, <2>4, PointsStill DEF Points, ViewKept
<1>6. CASE BySeat(GiveLead(s)) \/ BySeat(CountCards(s)) \/ BySeat(PassTurn(s))
           \/ BySeat(CheckRound(s)) \/ BySeat(CheckLastRound(s)) \/ ByMain(LeaveGame(s))
           \/ BySeat(SendEnd(s)) \/ BySeat(CollectEnd(s))
  <2>1. Same
    BY <1>6 DEF BySeat, ByMain, GiveLead, CountCards, PassTurn, CheckRound,
       CheckLastRound, LeaveGame, SendEnd, CollectEnd, Step,
       SetFirstPlayerForNextTurn, CountCardsPlayed, NextPlayerTurn,
       DecrementPresentPlayers, gmVars, lewa, round, tcpVars
  <2>2. \/ \E to \in {"count", "passed", "score", "turn"} :
             loc[s] \in {"lead", "count", "pass", "over"} /\ Goto(s, to)
        \/ \E to \in LeaveLocs \cup {"nextround"} : loc[s] \in LeaveLocs /\ Goto(s, to)
    BY <1>6 DEF BySeat, ByMain, GiveLead, CountCards, PassTurn, CheckRound,
       CheckLastRound, LeaveGame, SendEnd, CollectEnd, Step, LeaveLocs
  <2> QED BY <2>1, <2>2, PointsMove DEF ScoredLocs, LeaveLocs, AtTrick, BySeat,
      ClearTable, Step
<1> QED BY <1>1, <1>2, <1>3, <1>4, <1>5, <1>6 DEF GameStep

(***************************************************************************)
(* Points: DEAL clears the seat's points of the round, in which no trick   *)
(* has been taken.                                                         *)
(***************************************************************************)
LEMMA PointsDeal ==
    ASSUME IInv, OrderOfPlay, Points, NEW s \in Seats, HandleDeal(s)
    PROVE  RoundPoints' /\ GamePoints'
<1>0. /\ TypeOK /\ Handoff /\ Lockstep /\ curr_game_points \in [Seats -> Nat]
      /\ lewas_played \in Seq(Seats \cup {NONE_POS})
  BY DEF IInv, TypeOK, SeatTypeOK, GMTypeOK, RoundTypeOK
<1>1. ReadCommand(s, "DEAL") /\ (Served(s) \/ WriteFails(s, "deal"))
      /\ UNCHANGED <<playerVars, gmVars>>
  BY DEF HandleDeal
<1>2. /\ \A t \in Seats \ {s} : ViewKept(t)
      /\ UNCHANGED <<loc, sub, curr_lewa, who_won_lewa, lewas_played>>
      /\ child_pipe'[s] = Tail(child_pipe[s])
  BY <1>0, <1>1, HandlerLocal
<1>3. loc[s] = "deal"
  BY <1>0, <1>1, CommandRead DEF ReadCommand, CommLocs, CommandAt
<1>4. lewas_played = << >>
  BY <1>0, <1>3 DEF OrderOfPlay, TrickNumbered, FreshLocs
<1>5. /\ curr_game_points' = [curr_game_points EXCEPT ![s] = 0]
      /\ UNCHANGED <<all_points, tricks_won>>
  BY DEF HandleDeal, gmVars, round
<1>6. \A t \in Seats : TricksTaken(t)' = TricksTaken(t) /\ TricksTaken(t) = 0
  BY <1>2, <1>4, TricksNone, TricksStill DEF TricksTaken
<1>7. AllIn({"deal", "dealt"})
  BY <1>0, <1>3, PhaseAt DEF Dealing
<1>8. \A t \in Seats : ~Scored(t) /\ ~Scored(t)' /\ ~Credited(t) /\ ~Credited(t)'
  BY <1>2, <1>7 DEF AllIn, Scored, Credited, LeaveLocs
<1>9. Decided' <=> Decided
  BY <1>2 DEF Decided, LewaFull
<1>10. RoundPoints'
  <2>1. ASSUME NEW t \in Seats, Dealt(t)' PROVE curr_game_points'[t] = 0
    <3>1. CASE t = s
      BY <1>0, <1>5, <3>1
    <3>2. CASE t # s
      <4>1. Dealt(t) /\ curr_game_points'[t] = curr_game_points[t]
        BY <1>0, <1>2, <1>5, <2>1, <3>2 DEF ViewKept
      <4> QED BY <1>6, <1>8, <4>1 DEF Points, RoundPoints
    <3> QED BY <3>1, <3>2
  <2> QED BY <1>6, <1>8, <2>1 DEF RoundPoints
<1>11. GamePoints'
  BY <1>2, <1>5, <1>6, <1>8, <1>9 DEF Points, GamePoints
<1> QED BY <1>10, <1>11

(***************************************************************************)
(* Points: TAKEN adds the trick on the table to the points of the seat     *)
(* that took it.                                                           *)
(***************************************************************************)
LEMMA PointsTaken ==
    ASSUME IInv, Points, Failures \subseteq PromptKinds, NEW s \in Seats, HandleTaken(s)
    PROVE  RoundPoints' /\ GamePoints'
<1>0. /\ TypeOK /\ Handoff /\ Lockstep /\ curr_game_points \in [Seats -> Nat]
  BY DEF IInv, TypeOK, SeatTypeOK
<1>1. Served(s)
  BY DEF HandleTaken, WriteFails, Fault, PromptKinds
<1>2. /\ loc[s] = "taken" /\ Dealt(s) /\ ~Credited(s) /\ Credited(s)'
      /\ \A t \in Seats \ {s} : ViewKept(t)
      /\ UNCHANGED <<curr_lewa, who_won_lewa, lewas_played>>
  BY <1>0, <1>1, TakenServed
<1>3. /\ UNCHANGED <<loc, sub, all_points, tricks_won>>
      /\ curr_game_points' = IF who_won_lewa = s
                             THEN [curr_game_points EXCEPT ![s] = @ + 1]
                             ELSE curr_game_points
  BY DEF HandleTaken, playerVars, gmVars, round
<1>4. \A t \in Seats : TricksTaken(t)' = TricksTaken(t) /\ TricksTaken(t) \in Nat
  BY <1>0, <1>2, TricksCounted, TricksStill
<1>5. RoundPoints'
  <2>1. ASSUME NEW t \in Seats, Dealt(t)'
        PROVE  curr_game_points'[t] = TricksTaken(t)'
                                      + (IF Credited(t)' /\ who_won_lewa' = t THEN 1 ELSE 0)
    <3>1. CASE t = s
      <4>1. curr_game_points[s] = TricksTaken(s) + 0
        BY <1>2 DEF Points, RoundPoints
      <4>2. curr_game_points'[s] = TricksTaken(s) + (IF who_won_lewa = s THEN 1 ELSE 0)
        BY <1>0, <1>3, <1>4, <4>1
      <4> QED BY <1>2, <1>4, <3>1, <4>2
    <3>2. CASE t # s
      <4>1. /\ Dealt(t) /\ (Credited(t)' <=> Credited(t))
            /\ curr_game_points'[t] = curr_game_points[t]
        BY <1>0, <1>2, <1>3, <2>1, <3>2 DEF ViewKept
      <4>2. curr_game_points[t] = TricksTaken(t)
                                  + (IF Credited(t) /\ who_won_lewa = t THEN 1 ELSE 0)
        BY <4>1 DEF Points, RoundPoints
      <4> QED BY <1>2, <1>4, <4>1, <4>2
    <3> QED BY <3>1, <3>2
  <2> QED BY <2>1 DEF RoundPoints
<1>6. \A t \in Seats : ~Scored(t) /\ ~Scored(t)'
  <2>1. AllIn({"taken", "credited"})
    BY <1>0, <1>2, PhaseAt DEF Taking
  <2> QED BY <1>3, <2>1 DEF AllIn, Scored, LeaveLocs
<1>7. Decided' <=> Decided
  BY <1>2, <1>3 DEF Decided, LewaFull
<1>8. GamePoints'
  BY <1>2, <1>3, <1>4, <1>6, <1>7 DEF Points, GamePoints
<1> QED BY <1>5, <1>8

(***************************************************************************)
(* Points: SCORE adds the points of the round, which are the tricks the    *)
(* seat took, to the points of the game.                                   *)
(***************************************************************************)
LEMMA PointsScore ==
    ASSUME IInv, Points, NEW s \in Seats, HandleScore(s)
    PROVE  RoundPoints' /\ GamePoints'
<1>0. /\ TypeOK /\ Handoff /\ Lockstep /\ all_points \in [Seats -> Nat]
  BY DEF IInv, TypeOK, SeatTypeOK
<1>1. ReadCommand(s, "SCORE") /\ (Served(s) \/ WriteFails(s, "score"))
      /\ UNCHANGED <<playerVars, gmVars>>
  BY DEF HandleScore
<1>2. /\ \A t \in Seats \ {s} : ViewKept(t)
      /\ UNCHANGED <<loc, sub, curr_lewa, who_won_lewa, lewas_played>>
      /\ child_pipe'[s] = Tail(child_pipe[s])
  BY <1>0, <1>1, HandlerLocal
<1>3. /\ loc[s] = "score" /\ sub[s] = "wait" /\ child_pipe[s] # << >>
      /\ child_pipe'[s] = << >>
  BY <1>0, <1>1, <1>2, CommandRead DEF ReadCommand, Told, CommLocs, CommandAt
<1>4. /\ Dealt(s) /\ ~Credited(s) /\ ~Credited(s)' /\ ~Scored(s) /\ Scored(s)'
      /\ \A t \in Seats \ {s} : Scored(t)' <=> Scored(t)
  <2>1. \A t \in Seats \ {s} : child_pipe'[t] = child_pipe[t]
    BY <1>1 DEF ReadCommand, TypeOK, SeatTypeOK
  <2> QED BY <1>2, <1>3, <2>1 DEF Dealt, Credited, Scored, InHand, LeaveLocs
<1>5. /\ UNCHANGED <<curr_game_points, tricks_won>>
      /\ all_points' = [all_points EXCEPT ![s] = @ + curr_game_points[s]]
  BY DEF HandleScore, gmVars, round
<1>6. \A t \in Seats : TricksTaken(t)' = TricksTaken(t) /\ TricksTaken(t) \in Nat
  BY <1>0, <1>2, TricksCounted, TricksStill
<1>7. Decided' <=> Decided
  BY <1>2 DEF Decided, LewaFull
<1>8. RoundPoints'
  <2>1. \A t \in Seats : (Dealt(t)' => Dealt(t)) /\ (Credited(t)' <=> Credited(t))
    BY <1>2, <1>4 DEF ViewKept
  <2> QED BY <1>2, <1>5, <1>6, <2>1 DEF Points, RoundPoints
<1>9. GamePoints'
  <2>1. ASSUME NEW t \in Seats
        PROVE  tricks_won'[t] = all_points'[t] + (IF Scored(t)' THEN 0 ELSE TricksTaken(t)')
                                + (IF Decided' /\ who_won_lewa' = t THEN 1 ELSE 0)
    <3>1. tricks_won[t] = all_points[t] + (IF Scored(t) THEN 0 ELSE TricksTaken(t))
                          + (IF Decided /\ who_won_lewa = t THEN 1 ELSE 0)
      BY DEF Points, GamePoints
    <3>2. CASE t = s
      <4>1. curr_game_points[s] = TricksTaken(s) + 0
        BY <1>4 DEF Points, RoundPoints
      <4>2. all_points'[s] = all_points[s] + TricksTaken(s) /\ all_points[s] \in Nat
        BY <1>0, <1>5, <1>6, <4>1
      <4>3. tricks_won'[s] = all_points'[s] + 0
                             + (IF Decided /\ who_won_lewa = s THEN 1 ELSE 0)
        BY <1>4, <1>5, <1>6, <3>1, <3>2, <4>2
      <4> QED BY <1>2, <1>4, <1>7, <3>2, <4>3
    <3>3. CASE t # s
      <4>1. all_points'[t] = all_points[t] /\ (Scored(t)' <=> Scored(t))
        BY <1>0, <1>4, <1>5, <3>3
      <4> QED BY <1>2, <1>5, <1>6, <1>7, <3>1, <4>1
    <3> QED BY <3>2, <3>3
  <2> QED BY <2>1 DEF GamePoints
<1> QED BY <1>8, <1>9

(***************************************************************************)
(* Points: the other steps of the TCP threads add none.                    *)
(***************************************************************************)
LEMMA PointsSocket ==
    ASSUME IInv, OrderOfPlay, Points, Failures \subseteq PromptKinds, NEW s \in Seats,
           TcpStep(s) \/ SignalStep(s) \/ FailureStep(s)
    PROVE  RoundPoints' /\ GamePoints'
<1>0. TypeOK /\ Handoff /\ HandoffOf(s) /\ Failures \subseteq RecoverableKinds
      /\ ~BySeat(TakenThrows(s))
  BY TakerTold DEF IInv, Handoff, PromptKinds, BySeat
<1>1. CASE BySeat(HandleDeal(s)) \/ BySeat(HandleTaken(s)) \/ BySeat(HandleScore(s))
  BY <1>1, PointsDeal, PointsTaken, PointsScore DEF BySeat
<1>2. CASE ~BySeat(HandleDeal(s)) /\ ~BySeat(HandleTaken(s)) /\ ~BySeat(HandleScore(s))
  <2>1. UNCHANGED <<loc, sub, points, lewas_played, tricks_won, who_won_lewa>>
    BY <1>0, <1>2 DEF TcpStep, SignalStep, FailureStep, BySeat, AskForCard,
       AcceptCard, AddCardToLewa, CardOverflows, HandleTotal, HandleEnd,
       Resync, SignalEnded, LoseClientInPoll, LoseClientInTrick, ResetInTrick,
       WrongAborts, BrokenPipe, playerVars, tcpVars, gmVars, lewa, round, points
  <2>2. \A t \in Seats : (Dealt(t)' => Dealt(t)) /\ (Credited(t)' <=> Credited(t))
    <3>1. CASE BySeat(Resync(s))
      <4>1. Resync(s)
        BY <3>1 DEF BySeat
      <4> QED BY <1>0, <4>1, ViewResync DEF ViewKept
    <3>2. CASE ~BySeat(Resync(s))
      BY <1>0, <1>2, <3>2, ViewSocket DEF ViewKept
    <3> QED BY <3>1, <3>2
  <2>3. \A t \in Seats : loc[t] = "score" => child_pipe'[t] = child_pipe[t]
    <3>1. CASE BySeat(AskForCard(s)) \/ BySeat(HandleTotal(s)) \/ BySeat(HandleEnd(s))
      <4>1. PICK c \in {"TRICK", "TOTAL", "END"} :
                Told(s, c) /\ \A t \in Seats \ {s} : child_pipe'[t] = child_pipe[t]
        BY <1>0, <3>1 DEF BySeat, AskForCard, HandleTotal, HandleEnd,
           ReadCommand, TypeOK, SeatTypeOK
      <4>2. loc[s] # "score"
        BY <1>0, <4>1, CommandRead, EndRead DEF CommandAt, CommLocs
      <4> QED BY <4>1, <4>2
    <3>2. CASE ~BySeat(AskForCard(s)) /\ ~BySeat(HandleTotal(s)) /\ ~BySeat(HandleEnd(s))
      BY <1>0, <1>2, <3>2 DEF TcpStep, SignalStep, FailureStep, BySeat, AcceptCard,
         CardOverflows, Resync, SignalEnded, LoseClientInPoll,
         LoseClientInTrick, ResetInTrick, WrongAborts, BrokenPipe, seatSync
    <3> QED BY <3>1, <3>2
  <2>4. \A t \in Seats : Scored(t)' <=> Scored(t)
    BY <2>1, <2>3 DEF Scored, InHand
  <2>5. Decided' <=> Decided
    <3>1. CASE BySeat(AcceptCard(s))
      <4>1. loc[s] = "trick"
        BY <1>0, <3>1, HandoffInTrick DEF BySeat, AcceptCard
      <4> QED BY <2>1, <4>1 DEF Decided
    <3>2. CASE ~BySeat(AcceptCard(s))
      <4>1. UNCHANGED curr_lewa
        BY <1>0, <1>2, <3>2 DEF TcpStep, SignalStep, FailureStep, BySeat, AskForCard,
           CardOverflows, HandleTotal, HandleEnd, Resync, SignalEnded,
           LoseClientInPoll, LoseClientInTrick, ResetInTrick, WrongAborts,
           BrokenPipe, gmVars, lewa
      <4> QED BY <2>1, <4>1 DEF Decided, LewaFull
    <3> QED BY <3>1, <3>2
  <2> QED BY <2>1, <2>2, <2>4, <2>5, PointsStill DEF Points
<1> QED BY <1>1, <1>2

(***************************************************************************)
(* Points: a barrier scores nobody, and finds no trick half decided.       *)
(***************************************************************************)
LEMMA PointsBarrier ==
    ASSUME IInv, Points, BarrierStep
    PROVE  RoundPoints' /\ GamePoints'
<1>1. BarrierTrips
      /\ UNCHANGED <<curr_lewa, points, lewas_played, tricks_won, who_won_lewa, sub>>
  BY DEF BarrierStep, BySeat, BarrierTrips, gmVars, lewa, round, tcpVars
<1>2. \A t \in Seats : loc[t] \in BarrierLocs /\ loc'[t] = AfterBarrier(loc[t])
  BY <1>1 DEF BarrierTrips
<1>3. \A l \in BarrierLocs :
        /\ l \notin AtTrick /\ AfterBarrier(l) \notin AtTrick
        /\ l # "score" /\ AfterBarrier(l) # "score"
        /\ l \in ScoredLocs <=> AfterBarrier(l) \in ScoredLocs
  BY ZenonT(30) DEF BarrierLocs, AfterBarrier, AtTrick, ScoredLocs, LeaveLocs
<1>4. \A t \in Seats : Scored(t)' <=> Scored(t)
  BY <1>2, <1>3 DEF Scored, ScoredLocs
<1>5. Decided' <=> Decided
  BY <1>1, <1>2, <1>3, DecidedStill DEF LewaFull
<1> QED BY <1>1, <1>4, <1>5, ViewBarrier, PointsStill DEF Points, ViewKept

(***************************************************************************)
(* Points: the main thread adds none.                                      *)
(***************************************************************************)
LEMMA PointsMain ==
    ASSUME IInv, Points, MainStep
    PROVE  RoundPoints' /\ GamePoints'
<1>0. TypeOK /\ Admission /\ loc \in [Seats -> Locs]
  BY DEF IInv, TypeOK, SeatTypeOK
<1>1. UNCHANGED <<curr_lewa, points, lewas_played, tricks_won, who_won_lewa, sub, child_pipe>>
  BY DEF MainStep, ByMain, CheckIfPositionTaken, SendBusy, AdmitNew,
     AdmitReplacement, AddNewPlayer, Spawn, Exit, gmVars, lewa, round,
     playerVars, tcpVars, points, seatSync
<1>2. \A t \in Seats : loc'[t] = loc[t] \/ (loc[t] = "none" /\ loc'[t] = "start")
  <2>1. CASE ByMain(Spawn)
    BY <1>0, <2>1 DEF ByMain, Spawn, Goto, Admission
  <2>2. CASE ~ByMain(Spawn)
    BY <2>2 DEF MainStep, ByMain, CheckIfPositionTaken, SendBusy, AdmitNew,
       AdmitReplacement, Exit, playerVars
  <2> QED BY <2>1, <2>2
<1>3. \A t \in Seats : Scored(t)' <=> Scored(t)
  BY <1>1, <1>2 DEF Scored, InHand, LeaveLocs
<1>4. Decided' <=> Decided
  BY <1>1, <1>2, DecidedStill DEF LewaFull, AtTrick
<1> QED BY <1>1, <1>3, <1>4, ViewMain, PointsStill DEF Points, ViewKept

(***************************************************************************)
(* Points: a client asks for a seat, or nothing changes.                   *)
(***************************************************************************)
LEMMA PointsQuiet ==
    ASSUME Points, UNCHANGED <<gmVars, playerVars, seatSync, tcpVars>>
    PROVE  RoundPoints' /\ GamePoints'
<1>1. UNCHANGED <<curr_lewa, points, lewas_played, tricks_won, who_won_lewa>>
      /\ UNCHANGED <<loc, sub, child_pipe>>
  BY DEF gmVars, lewa, round, playerVars, tcpVars, points, seatSync
<1>2. \A t \in Seats : Scored(t)' <=> Scored(t)
  BY <1>1 DEF Scored, InHand
<1>3. Decided' <=> Decided
  BY <1>1 DEF Decided, LewaFull
<1> QED BY <1>1, <1>2, <1>3, ViewQuiet, PointsStill DEF Points, ViewKept

(***************************************************************************)
(* Points: the initial state.                                              *)
(***************************************************************************)
LEMMA PointsInit == Init => Points
<1> SUFFICES ASSUME Init PROVE Points
  OBVIOUS
<1>1. \A s \in Seats : loc[s] = "none" /\ all_points[s] = 0 /\ tricks_won[s] = 0
  BY DEF Init, GMInit, SeatInit
<1>2. ~Decided
  BY SizesAssumption DEF Init, GMInit, Decided, LewaFull
<1>3. \A s \in Seats : TricksTaken(s) = 0
  BY TricksNone DEF Init, GMInit, TricksTaken
<1>4. ServedOnce /\ RoundPoints
  BY <1>1 DEF ServedOnce, RoundPoints, Dealt
<1>5. GamePoints
  BY <1>1, <1>2, <1>3 DEF GamePoints
<1> QED BY <1>4, <1>5 DEF Points

(***************************************************************************)
(* Every step keeps the points in agreement with the tricks.               *)
(***************************************************************************)
LEMMA PointsInductive ==
    ASSUME Failures \subseteq PromptKinds, IInv, OrderOfPlay, Points, [Next]_vars
    PROVE  Points'
<1>1. ASSUME NEW s \in Seats, SeatStep(s) PROVE RoundPoints' /\ GamePoints'
  BY <1>1, PointsTalk, PointsGame, PointsSocket DEF SeatStep
<1>2. ASSUME NEW s \in Seats, JoinStep(s) PROVE RoundPoints' /\ GamePoints'
  BY <1>2, PointsQuiet DEF JoinStep, ByMain, JoinRequest
<1>3. ASSUME UNCHANGED vars PROVE RoundPoints' /\ GamePoints'
  BY <1>3, PointsQuiet DEF vars
<1>4. RoundPoints' /\ GamePoints'
  BY <1>1, <1>2, <1>3, PointsBarrier, PointsMain DEF Next, Stopped
<1> QED BY <1>4, ServedInductive DEF Points

(***************************************************************************)
(* In every reachable state the points agree with the tricks, when the     *)
(* writes of TAKEN and SCORE, before which the points are added, do not    *)
(* fail.                                                                   *)
(***************************************************************************)
THEOREM PointsKept ==
    ASSUME Failures \subseteq PromptKinds
    PROVE  Spec => [](IInv /\ Points)
<1>0. Failures \subseteq RecoverableKinds
  BY DEF PromptKinds
<1>1. Init => IInv /\ OrderOfPlay /\ Points
  BY Initial, OrderInit, PointsInit
<1>2. IInv /\ OrderOfPlay /\ Points /\ [Next]_vars => IInv' /\ OrderOfPlay' /\ Points'
  BY <1>0, Inductive, OrderInductive, PointsInductive
<1> QED BY <1>1, <1>2, PTL DEF Spec

(***************************************************************************)
(* A SCORE that is about to be written finds every seat with one point for *)
(* each trick it took in the round (ScoreTruthful): the points of a client *)
(* that was replaced are neither lost nor counted twice.                   *)
(***************************************************************************)
THEOREM ScoresTrue ==
    ASSUME Failures \subseteq PromptKinds
    PROVE  Spec => []ScoreTruthful
<1>1. IInv /\ Points => ScoreTruthful
  <2> SUFFICES ASSUME IInv, Points, NEW t \in Seats, Told(t, "SCORE"), NEW s \in Seats
               PROVE  curr_game_points[s] = TricksTaken(s)
    BY DEF ScoreTruthful, About
  <2>0. TypeOK /\ Handoff /\ Lockstep
    BY DEF IInv
  <2>1. loc[t] = "score"
    BY <2>0, CommandRead DEF CommLocs, CommandAt
  <2>2. AllIn({"over", "score", "scored"})
    BY <2>0, <2>1, PhaseAt DEF Scoring
  <2>3. Dealt(s) /\ ~Credited(s)
    BY <2>2 DEF AllIn, Dealt, Credited
  <2>4. curr_game_points[s] = TricksTaken(s) + 0
    BY <2>3 DEF Points, RoundPoints
  <2>5. TricksTaken(s) \in Nat
    BY <2>0, TricksCounted
  <2> QED BY <2>4, <2>5
<1> QED BY <1>1, PointsKept, PTL

(***************************************************************************)
(* A TOTAL that is about to be written finds every seat with one point for *)
(* each trick it took in the game (TotalTruthful): no seat is behind with  *)
(* the points of the round.                                                *)
(***************************************************************************)
THEOREM TotalsTrue ==
    ASSUME Failures \subseteq PromptKinds
    PROVE  Spec => []TotalTruthful
<1>1. IInv /\ Points => TotalTruthful
  <2> SUFFICES ASSUME IInv, Points, NEW t \in Seats, Told(t, "TOTAL"), NEW s \in Seats
               PROVE  all_points[s] = tricks_won[s]
    BY DEF TotalTruthful, About
  <2>0. TypeOK /\ Handoff /\ Lockstep /\ all_points[s] \in Nat
    BY DEF IInv, TypeOK, SeatTypeOK
  <2>1. loc[t] = "total"
    BY <2>0, CommandRead DEF CommLocs, CommandAt
  <2>2. Totalling
    BY <2>0, <2>1, PhaseAt
  <2>3. Scored(s) /\ ~Decided
    BY <2>2, SizesAssumption DEF Totalling, AllIn, Scored, Decided, LewaFull
  <2>4. tricks_won[s] = all_points[s] + 0 + 0
    BY <2>3 DEF Points, GamePoints
  <2> QED BY <2>0, <2>4
<1> QED BY <1>1, PointsKept, PTL

(***************************************************************************)
(* All the layers together (GameInv), for any number of seats, rounds and  *)
(* tricks and any number of failures of the kinds that are answered before *)
(* points are added.                                                       *)
(***************************************************************************)
THEOREM GameInvariance ==
    ASSUME Failures \subseteq PromptKinds
    PROVE  Spec => []GameInv
<1>0. Failures \subseteq RecoverableKinds
  BY DEF PromptKinds
<1>1. Init => IInv /\ Departure
  BY Initial, DepartureInit
<1>2. IInv /\ Departure /\ [Next]_vars => IInv' /\ Departure'
  BY <1>0, Inductive, DepartureInductive
<1>3. Spec => []Departure
  BY <1>1, <1>2, PTL DEF Spec
<1>4. Spec => []OrderOfPlay
  BY <1>0, OrderKept
<1>5. Spec => []Ledger
  BY <1>0, LedgerKept
<1>6. IInv /\ Points /\ OrderOfPlay /\ Ledger /\ Departure => GameInv
  BY DEF GameInv
<1> QED BY <1>3, <1>4, <1>5, <1>6, PointsKept, PTL
=============================================================================
